---------------------------------- MODULE Tcp ----------------------------------
(***************************************************************************)
(* TCP on hosts that run this code, over a network that loses, duplicates  *)
(* and reorders segments: the input process (tcp_inp.c), the output        *)
(* process (tcp_out.c), the timers, and the processes that open, accept,   *)
(* read, write and close (tcpd_*.c).  For each block there is one process  *)
(* that writes and closes, and one that reads.                             *)
(*                                                                         *)
(* A handler holds tcb_mutex from its first step to its last, so it is one *)
(* step here.  What is done without it is a step of its own: the table     *)
(* lookup and the wait that follows, the wait for a semaphore, the kick at *)
(* the end of a write, the end of an open and of a close.                  *)
(*                                                                         *)
(* Bounds: tcpload.faults segments lost or duplicated and timers expiring  *)
(* while segments are under way; NetSize segments under way at a time (one *)
(* more is lost, as tcp_in drops it when its port is full); MaxOpens       *)
(* connections for each host; a block is not used again while a process    *)
(* still has a call in progress on it.                                     *)
(***************************************************************************)
EXTENDS Tcb

CONSTANTS Host, Ntcp,            \* hosts, and the number of blocks of each
          NetSize, MaxOpens, TcpLoads

VARIABLES tcb, oport, timers,
          inp,        \* a block the input process has looked up, and the segment
          net, faults,
          wr, rd,     \* the writing and the reading process of a block
          wrote, got, \* bytes of each stream that were written and read
          opens, tcpload

tcpVars == <<tcb, oport, timers, inp, net, faults, wr, rd, wrote, got,
             opens, tcpload>>

Tcbs == UNION {{h} \X (1 .. Ntcp[h]) : h \in Host}
HostOf(t) == t[1]
TELNET == 0      \* the port that servers listen on

(* A stream is named by the port of the client and the host that writes.    *)
Stream == (1 .. MaxOpens) \X Host
EOF == 0         \* what a read that returns 0 leaves in got
OutStream(b) == <<IF b.port[2] = TELNET THEN b.peer[2] ELSE b.port[2], b.port[1]>>
InStream(b) == <<OutStream(b)[1], b.peer[1]>>

(* A workload: which hosts listen, and with what queue; the connections     *)
(* that each opens, and accepts; how many bytes it writes to a connection, *)
(* and at a time;                                                           *)
(* which hosts close, which of them only when they have read to the end,    *)
(* and which close their listener; the options that are set.                *)
TcpLoad == [listen : SUBSET Host, lqsize : Nat, opens : [Host -> 0 .. MaxOpens],
            bytes : [Host -> Nat], closing : SUBSET Host, patient : SUBSET Host, chunk : Nat,
            unlisten : SUBSET Host, opts : SUBSET {"DELACK"}, races : BOOLEAN, faults : Nat]

ASSUME TcpAssumption == TcpLoads \subseteq TcpLoad

Nobody == [t |-> NoTcb]
ISS(n) == 10 * n + 1

TcpInit ==
    /\ tcpload \in TcpLoads
    /\ tcb = [t \in Tcbs |-> FreeTcb]
    /\ oport = [h \in Host |-> <<>>] /\ timers = [h \in Host |-> {}]
    /\ inp = [h \in Host |-> Nobody]
    /\ net = {} /\ faults = 0
    /\ wr = [t \in Tcbs |-> "out"] /\ rd = [t \in Tcbs |-> "out"]
    /\ wrote = [s \in Stream |-> 0] /\ got = [s \in Stream |-> <<>>]
    /\ opens = [h \in Host |-> 0]

-----------------------------------------------------------------------------
(* Contexts, and what a step makes of them.                                *)

Context(t) == [t |-> t, b |-> tcb[t], q |-> oport[HostOf(t)], tm |-> timers[HostOf(t)],
               out |-> {}]

Sent(rest, segs) == net' = IF Cardinality(rest \union segs) > NetSize THEN rest ELSE rest \union segs

(* At a full port the timer process waits in psend, and keeps tqmutex: its   *)
(* message is the one beyond TCPQLEN, and whoever would set or clear a timer *)
(* waits for it.                                                            *)
TimersFree(c) == Len(c.q) <= TCPQLEN \/ c.tm = timers[HostOf(c.t)]

Done(c) ==
    /\ TimersFree(c)
    /\ tcb' = [tcb EXCEPT ![c.t] = c.b]
    /\ oport' = [oport EXCEPT ![HostOf(c.t)] = c.q]
    /\ timers' = [timers EXCEPT ![HostOf(c.t)] = c.tm]

Finish(c, rest) == Done(c) /\ Sent(rest, c.out)

(* tcballoc: the first free block of the table. *)
FreeSlots(h) == {t \in Tcbs : HostOf(t) = h /\ tcb[t].state = "FREE"}
tcballoc(h) == CHOOSE t \in FreeSlots(h) : \A u \in FreeSlots(h) : t[2] <= u[2]
CanAlloc(h) == /\ FreeSlots(h) # {} /\ opens[h] < tcpload.opens[h]
               /\ wr[tcballoc(h)] = "out" /\ rd[tcballoc(h)] = "out"

-----------------------------------------------------------------------------
(* Processes that open, listen and accept.                                 *)

tcpserver(h) ==
    LET t == tcballoc(h)
    IN /\ h \in tcpload.listen /\ CanAlloc(h)
       /\ \A u \in Tcbs : HostOf(u) = h => tcb[u].state # "LISTEN" /\ wr[u] = "out"
       /\ tcb' = [tcb EXCEPT ![t] = [FreeTcb EXCEPT !.state = "LISTEN", !.type = "server",
                                       !.port = <<h, TELNET>>, !.lqsize = tcpload.lqsize]]
       /\ wr' = [wr EXCEPT ![t] = "listening"]
       /\ UNCHANGED <<oport, timers, inp, net, faults, rd, wrote, got, opens, tcpload>>

(* tcpmopen up to the wait in tcpcon, with a port of tcpnxtp. *)
tcpcon(h, server) ==
    LET t == tcballoc(h)
        b == [tcpsync(<<h, opens[h] + 1>>, <<server, TELNET>>, ISS(opens[h])) EXCEPT
                !.state = "SYNSENT", !.flags = {"NEEDOUT", "FIRSTSEND"}, !.ocsem = -1]
    IN /\ h \notin tcpload.listen /\ h # server /\ CanAlloc(h)
       /\ Done(tcpkick([Context(t) EXCEPT !.b = b]))
       /\ opens' = [opens EXCEPT ![h] = @ + 1]
       /\ wr' = [wr EXCEPT ![t] = "opening"]
       /\ UNCHANGED <<inp, net, faults, rd, wrote, got, tcpload>>

Users(t, w, r) == wr' = [wr EXCEPT ![t] = w] /\ rd' = [rd EXCEPT ![t] = r]

(* The end of tcpcon: the process does not hold the mutex here. *)
tcpconEnd(t) ==
    /\ wr[t] = "opening" /\ tcb[t].ocsem >= 0
    /\ IF tcb[t].error # "none"
         THEN /\ Done(tcbdealloc(Context(t))) /\ Users(t, "out", "out")
          ELSE /\ tcb' = [tcb EXCEPT ![t].flags = @ \union tcpload.opts]
              /\ Users(t, "idle", "idle") /\ UNCHANGED <<oport, timers>>
    /\ UNCHANGED <<inp, net, faults, wrote, got, opens, tcpload>>

tcpaccept(t) ==
    LET child == Head(tcb[t].listenq)
    IN /\ wr[t] = "listening" /\ tcb[t].listenq # <<>>
       /\ wr[child] = "out" /\ rd[child] = "out"
       /\ tcb' = [tcb EXCEPT ![t].listenq = Tail(@), ![child].flags = @ \union tcpload.opts]
       /\ Users(child, "idle", "idle")
       /\ UNCHANGED <<oport, timers, inp, net, faults, wrote, got, opens, tcpload>>

(* Closing a listener does not look after the connections it has queued.    *)
tcpcloseServer(t) ==
    /\ wr[t] = "listening" /\ HostOf(t) \in tcpload.unlisten
    /\ Done(tcbdealloc(Context(t)))
    /\ wr' = [wr EXCEPT ![t] = "out"]
    /\ UNCHANGED <<inp, net, faults, rd, wrote, got, opens, tcpload>>

-----------------------------------------------------------------------------
(* tcpwr with tcpgetspace.  The bytes of a stream are numbered.            *)

Open(b) == b.state \in {"ESTABLISHED", "CLOSEWAIT"}
Failed(b) == ~ Open(b) \/ b.error # "none"
AllWritten(t) == wrote[OutStream(tcb[t])] = tcpload.bytes[HostOf(t)]

Copied(b, len, first) ==
    [b EXCEPT !.sbcount = @ + len, !.flags = @ \union {"NEEDOUT"},
              !.sndbuf = [i \in DOMAIN @ |->
                            LET k == (i - b.sbstart - b.sbcount) % TCPSBS
                            IN IF k < len THEN first + k ELSE @[i]]]

(* The body of a write, once b.ssema has been taken, or deleted with the     *)
(* block.                                                                   *)
tcpgetspace(t, b) ==
    LET len == tcpload.chunk
        n == wrote[OutStream(b)]
    IN \/ /\ b.state = "FREE"
          /\ wr' = [wr EXCEPT ![t] = "out"] /\ UNCHANGED <<tcb, wrote>>
       \/ /\ b.state # "FREE" /\ b.error # "none"
          /\ tcb' = [tcb EXCEPT ![t] = wakeWriters(b)]
          /\ wr' = [wr EXCEPT ![t] = "idle"] /\ UNCHANGED wrote
       \/ /\ b.state # "FREE" /\ b.error = "none" /\ len < TCPSBS - b.sbcount
          /\ tcb' = [tcb EXCEPT ![t] = wakeWriters(Copied(b, len, n + 1))]
          /\ wrote' = [wrote EXCEPT ![OutStream(b)] = n + len]
          /\ wr' = [wr EXCEPT ![t] = "kick"]
       \/ /\ b.state # "FREE" /\ b.error = "none" /\ len >= TCPSBS - b.sbcount
          /\ tcb' = [tcb EXCEPT ![t].ssema = b.ssema - 1]
          /\ wr' = [wr EXCEPT ![t] = "space"] /\ UNCHANGED wrote

(* The wait for b.ssema, and what follows it. *)
tcpwr(t) ==
    /\ wr[t] = "idle" /\ ~ Failed(tcb[t]) /\ ~ AllWritten(t)
    /\ tcb' = [tcb EXCEPT ![t].ssema = @ - 1]
    /\ wr' = [wr EXCEPT ![t] = "space"]
    /\ UNCHANGED <<oport, timers, inp, net, faults, rd, wrote, got, opens, tcpload>>

tcpwrGo(t) ==
    /\ wr[t] = "space"
    /\ tcb[t].state = "FREE" \/ tcb[t].ssema >= 0
    /\ tcpgetspace(t, tcb[t])
    /\ UNCHANGED <<oport, timers, inp, net, faults, rd, got, opens, tcpload>>

(* The kick comes after the mutex is given back, and only when nothing is   *)
(* under way.                                                               *)
tcpwrKick(t) ==
    /\ wr[t] = "kick"
    /\ IF tcb[t].snext = tcb[t].suna THEN Done(tcpkick(Context(t)))
       ELSE UNCHANGED <<tcb, oport, timers>>
    /\ wr' = [wr EXCEPT ![t] = "idle"]
    /\ UNCHANGED <<inp, net, faults, rd, wrote, got, opens, tcpload>>

-----------------------------------------------------------------------------
(* tcpread with tcpgetdata, which takes what there is; a process that got   *)
(* something reads again, when it comes to it.  A call on a connection that *)
(* is not open fails and changes nothing.                                  *)

tcpread(t) ==
    /\ rd[t] = "idle" /\ Open(tcb[t])
    /\ tcb' = [tcb EXCEPT ![t].rsema = @ - 1]
    /\ rd' = [rd EXCEPT ![t] = "data"]
    /\ UNCHANGED <<oport, timers, inp, net, faults, wr, wrote, got, opens, tcpload>>

tcpgetdata(c) ==
    LET b == [c.b EXCEPT !.rbstart = (@ + c.b.rbcount) % TCPRBS, !.rbcount = 0]
    IN IF b.cwin <= b.rnext /\ tcprwindow(b) > 0
         THEN tcpkick([c EXCEPT !.b = [Advertised(b) EXCEPT !.flags = @ \union {"NEEDOUT"}]])
         ELSE [c EXCEPT !.b = b]

tcpreadGo(t) ==
    LET b == tcb[t]
        c == tcpgetdata(Context(t))
        bytes == [i \in 1 .. b.rbcount |-> b.rcvbuf[(b.rbstart + i - 1) % TCPRBS]]
    IN /\ rd[t] = "data"
       /\ b.state = "FREE" \/ b.rsema >= 0
       /\ \/ /\ b.state = "FREE"
             /\ rd' = [rd EXCEPT ![t] = "out"] /\ UNCHANGED <<tcb, oport, timers, got>>
          \/ /\ b.state # "FREE" /\ b.error # "none"
             /\ tcb' = [tcb EXCEPT ![t] = wakeReaders(b)]
             /\ rd' = [rd EXCEPT ![t] = "failed"] /\ UNCHANGED <<oport, timers, got>>
          \/ /\ b.state # "FREE" /\ b.error = "none" /\ bytes = <<>> /\ "RDONE" \notin b.flags
             /\ Done([c EXCEPT !.b.rsema = @ - 1])
             /\ UNCHANGED <<rd, got>>
          \/ /\ b.state # "FREE" /\ b.error = "none" /\ (bytes # <<>> \/ "RDONE" \in b.flags)
             /\ got' = [got EXCEPT ![InStream(b)] = @ \o IF bytes = <<>> THEN <<EOF>> ELSE bytes]
             /\ LET readsOn == bytes # <<>> /\ wr[t] \notin {"closing", "out"} /\ Open(b)
                IN /\ Done([c EXCEPT !.b = [wakeReaders(@) EXCEPT !.rsema = @ - Bit(readsOn)]])
                   /\ rd' = [rd EXCEPT ![t] = IF readsOn THEN "data" ELSE "done"]
       /\ UNCHANGED <<inp, net, faults, wr, wrote, opens, tcpload>>

-----------------------------------------------------------------------------
(* tcpclose, and its end, where the process does not hold the mutex.  Only  *)
(* a connection that is open is closed; in any other state nothing is done. *)

Ready(t) == /\ HostOf(t) \in tcpload.closing
            /\ AllWritten(t) \/ Failed(tcb[t])
            /\ HostOf(t) \in tcpload.patient => rd[t] \in {"done", "failed"} \/ Failed(tcb[t])

(* A reader that is not in a call does not call again. *)
ReaderLeaves(t) == rd' = [rd EXCEPT ![t] = IF @ = "data" THEN @ ELSE "out"]

tcpclose(t) ==
    LET b == tcb[t]
        b1 == [b EXCEPT !.flags = @ \union {"SNDFIN", "NEEDOUT"}, !.slast = b.suna + b.sbcount,
                        !.state = IF @ = "ESTABLISHED" THEN "FINWAIT1" ELSE "LASTACK",
                        !.ocsem = @ - 1]
    IN /\ wr[t] = "idle" /\ Open(b) /\ Ready(t)
       /\ \/ /\ b.error # "none"
             /\ Done(tcbdealloc(Context(t))) /\ wr' = [wr EXCEPT ![t] = "out"]
          \/ /\ b.error = "none"
             /\ Done(tcpkick([Context(t) EXCEPT !.b = b1]))
             /\ wr' = [wr EXCEPT ![t] = "closing"]
       /\ ReaderLeaves(t)
       /\ UNCHANGED <<inp, net, faults, wrote, got, opens, tcpload>>

tcpcloseEnd(t) ==
    /\ wr[t] = "closing" /\ (tcb[t].state = "FREE" \/ tcb[t].ocsem >= 0)
    /\ IF tcb[t].state = "LASTACK" THEN Done(tcbdealloc(Context(t)))
       ELSE UNCHANGED <<tcb, oport, timers>>
    /\ wr' = [wr EXCEPT ![t] = "out"]
    /\ UNCHANGED <<inp, net, faults, rd, wrote, got, opens, tcpload>>

-----------------------------------------------------------------------------
(* The input process: tcpdemux looks the block up and waits for its mutex; *)
(* then the segment is handled, if the block is still in use.              *)

Connected(seg) ==
    {t \in Tcbs : tcb[t].state # "FREE" /\ tcb[t].port = seg.dst /\ tcb[t].peer = seg.src}
Listening(seg) ==
    {t \in Tcbs : "SYN" \in seg.code /\ tcb[t].state = "LISTEN" /\ tcb[t].port = seg.dst}
tcpdemux(seg) == IF Connected(seg) # {} THEN Connected(seg) ELSE Listening(seg)

(* tcplisten: a SYN gets a block of its own. *)
tcplisten(c, seg, child) ==
    LET b == [tcpsync(seg.dst, seg.src, ISS(opens[HostOf(c.t)])) EXCEPT
                !.state = "SYNRCVD", !.parent = c.t, !.flags = {"NEEDOUT"},
                !.swindow = seg.window, !.lwseq = seg.seq, !.rnext = seg.seq,
                !.cwin = seg.seq + TCPRBS]
    IN tcpdata([c EXCEPT !.t = child, !.b = b], [seg EXCEPT !.code = @ \ {"FIN"}])

listenInput(t, seg, rest) ==
    LET h == HostOf(t)
        alone == {"RST", "ACK", "SYN"} \intersect seg.code = {"SYN"}
    IN \/ /\ alone /\ CanAlloc(h)
          /\ Done(tcplisten(Context(t), seg, tcballoc(h)))
          /\ opens' = [opens EXCEPT ![h] = @ + 1] /\ net' = rest
       \/ /\ ~ (alone /\ CanAlloc(h))
          /\ Sent(rest, IF alone THEN {} ELSE tcpreset(seg))
          /\ UNCHANGED <<tcb, oport, timers, opens>>

QueueFull(t) == Len(tcb[t].listenq) >= tcb[t].lqsize

(* tcpsynrcvd, which looks at the listener of a passive open: it may be     *)
(* gone, or its queue full.                                                 *)
SynrcvdDone(c, seg, rest, queued) ==
    /\ TimersFree(c)
    /\ tcb' = [u \in Tcbs |-> IF u = c.t THEN c.b
                              ELSE IF u = tcb[c.t].parent /\ queued
                                THEN [tcb[u] EXCEPT !.listenq = Append(@, c.t)]
                              ELSE tcb[u]]
    /\ oport' = [oport EXCEPT ![HostOf(c.t)] = c.q]
    /\ timers' = [timers EXCEPT ![HostOf(c.t)] = c.tm]
    /\ Sent(rest, c.out) /\ UNCHANGED opens
synrcvdInput(t, seg, rest) ==
    LET c == Context(t)
        parent == tcb[t].parent
        passive == parent # NoTcb
        gone == passive /\ tcb[parent].state # "LISTEN"
        full == passive /\ QueueFull(parent)
    IN \/ /\ Breaks(seg) \/ "ACK" \notin seg.code
          /\ SynrcvdDone(IF "RST" \in seg.code
                           THEN IF passive THEN tcbdealloc(c) ELSE tcpabort(c, "REFUSED")
                         ELSE IF "SYN" \in seg.code THEN aborted(reset(c, seg)) ELSE c,
                         seg, rest, FALSE)
       \/ /\ ~ Breaks(seg) /\ "ACK" \in seg.code /\ (gone \/ full)
          /\ SynrcvdDone(tcbdealloc(IF gone THEN reset(tcpacked(c, seg), seg)
                                    ELSE tcpacked(c, seg)), seg, rest, FALSE)
       \/ /\ ~ Breaks(seg) /\ "ACK" \in seg.code /\ ~ gone /\ ~ full
          /\ SynrcvdDone(established(IF passive THEN tcpacked(c, seg)
                                     ELSE wakeOpenClose(tcpacked(c, seg)), seg),
                         seg, rest, passive)

connInput(t, seg, rest) ==
    /\ Finish(IF tcpok(tcb[t], seg) THEN tcpswitch(Context(t), seg)
              ELSE tcpackit(Context(t), Stripped(tcb[t], seg)), rest)
    /\ UNCHANGED opens

segmentArrives(t, seg, rest) ==
    \/ tcb[t].state = "LISTEN" /\ listenInput(t, seg, rest)
    \/ tcb[t].state = "SYNRCVD" /\ tcpok(tcb[t], seg) /\ synrcvdInput(t, seg, rest)
    \/ /\ tcb[t].state # "LISTEN"
       /\ tcb[t].state = "SYNRCVD" => ~ tcpok(tcb[t], seg)
       /\ connInput(t, seg, rest)

(* The table lookup and the rest are one step, unless the workload has user *)
(* processes that hold the mutex in between.                                *)
tcpinp(h, seg, again) ==
    LET found == tcpdemux(seg)
        rest == IF again THEN net ELSE net \ {seg}
    IN /\ inp[h] = Nobody /\ seg \in net /\ seg.dst[1] = h
       /\ again => faults < tcpload.faults
       /\ faults' = faults + Bit(again)
       /\ \/ /\ found = {}
             /\ Sent(rest, tcpreset(seg)) /\ UNCHANGED <<tcb, oport, timers, opens, inp>>
          \/ /\ ~ tcpload.races /\ UNCHANGED inp
             /\ \E t \in found : segmentArrives(t, seg, rest)
          \/ /\ tcpload.races /\ net' = rest
             /\ \E t \in found : inp' = [inp EXCEPT ![h] = [t |-> t, seg |-> seg]]
             /\ UNCHANGED <<tcb, oport, timers, opens>>
       /\ UNCHANGED <<wr, rd, wrote, got, tcpload>>

tcpinpLate(h) ==
    /\ inp[h] # Nobody
    /\ \/ /\ tcb[inp[h].t].state = "FREE"
          /\ Sent(net, tcpreset(inp[h].seg)) /\ UNCHANGED <<tcb, oport, timers, opens>>
       \/ /\ tcb[inp[h].t].state # "FREE"
          /\ segmentArrives(inp[h].t, inp[h].seg, net)
    /\ inp' = [inp EXCEPT ![h] = Nobody]
    /\ UNCHANGED <<faults, wr, rd, wrote, got, tcpload>>

-----------------------------------------------------------------------------
(* The output process: an event for a block that is gone is ignored.       *)

tcpout(h) ==
    LET e == Head(oport[h])
        c == [Context(e.t) EXCEPT !.q = Tail(@)]
    IN /\ oport[h] # <<>>
       /\ Finish(IF tcb[e.t].state \in {"FREE", "CLOSED"} THEN c
                 ELSE IF e.ev = "DELETE" THEN tcbdealloc(c)
                 ELSE tcposwitch(c, e.ev), net)
       /\ UNCHANGED <<inp, faults, wr, rd, wrote, got, opens, tcpload>>

(* A timer expires, as a rule when nothing is under way.  The timer process  *)
(* looks at the messages at the port and the senders that wait there, so it  *)
(* may find the port full and wait itself: see TimersFree.                   *)
Calm(h) == inp[h] = Nobody /\ oport[h] = <<>>
Quiet == net = {} /\ \A h \in Host : Calm(h)

tcptimer(h) ==
    /\ Quiet \/ faults < tcpload.faults
    /\ \E e \in timers[h] :
          /\ Len(oport[h]) <= TCPQLEN
          /\ oport' = [oport EXCEPT ![h] = Append(@, e)]
          /\ timers' = [timers EXCEPT ![h] = @ \ {e}]
          /\ e.ev = "DELETE" => Quiet
    /\ faults' = faults + Bit(~ Quiet)
    /\ UNCHANGED <<tcb, inp, net, wr, rd, wrote, got, opens, tcpload>>

lose(seg) ==
    /\ seg \in net /\ faults < tcpload.faults
    /\ net' = net \ {seg} /\ faults' = faults + 1
    /\ UNCHANGED <<tcb, oport, timers, inp, wr, rd, wrote, got, opens, tcpload>>

-----------------------------------------------------------------------------

userStep(t) ==
    \/ tcpconEnd(t) \/ tcpaccept(t) \/ tcpcloseServer(t)
    \/ tcpwr(t) \/ tcpwrGo(t) \/ tcpwrKick(t)
    \/ tcpread(t) \/ tcpreadGo(t)
    \/ tcpclose(t) \/ tcpcloseEnd(t)

TcpNext ==
    \/ \E h \in Host : tcpserver(h) \/ (\E s \in Host : tcpcon(h, s))
    \/ \E t \in Tcbs : (tcpload.races \/ \A h \in Host : Calm(h)) /\ userStep(t)
    \/ \E h \in Host : tcpinpLate(h) \/ tcpout(h) \/ tcptimer(h)
    \/ \E seg \in net : lose(seg) \/ \E h \in Host, again \in BOOLEAN : tcpinp(h, seg, again)

TcpSpec == TcpInit /\ [][TcpNext]_tcpVars

-----------------------------------------------------------------------------
(* The two ends of a connection agree: what the receiver expects next has    *)
(* been sent, and not been acknowledged too early; the window that is         *)
(* promised is there, whatever was read or received since (tcp_data.c:24-40,  *)
(* tcp_acked.c:26-52, tcp_rwindow.c:17-32).                                   *)
Synchronized == {"ESTABLISHED", "FINWAIT1", "FINWAIT2", "CLOSEWAIT", "LASTACK", "CLOSING"}
Peers(a, b) == /\ a.port = b.peer /\ a.peer = b.port
               /\ {a.state, b.state} \subseteq Synchronized
EndsAgree ==
    \A t, u \in Tcbs :
        /\ tcb[t].state \in Synchronized =>
               tcb[t].cwin - tcb[t].rnext <= TCPRBS - tcb[t].rbcount
        /\ Peers(tcb[t], tcb[u]) => tcb[u].rnext \in tcb[t].suna .. tcb[t].snext

(* When no segment and no event is on its way and no timer is set, nothing    *)
(* is left that only TCP can finish: an open, data to be acknowledged by a    *)
(* receiver with room for it, or, if no segment was lost, a close             *)
(* (tcp_xmit.c:19-46, tcp_rexmt.c:19-36, tcp_ostate.c:17-28,                  *)
(* tcpd_close.c:41-44).                                                       *)
AtRest == Quiet /\ \A t \in Tcbs : timers[HostOf(t)] = {} /\ wr[t] # "kick"
Sleeps(t, w) == wr[t] = w /\ tcb[t].ocsem < 0
Finishes(t) ==
    LET written == wrote[OutStream(tcb[t])]
    IN /\ ~ Sleeps(t, "opening")
       /\ ~ Failed(tcb[t]) /\ written <= TCPRBS => tcb[t].sbcount = 0
       /\ Sleeps(t, "closing") /\ written < TCPRBS => faults > 0
NobodyStalls ==
    AtRest => \A t \in Tcbs : tcb[t].type = "connection" => Finishes(t)

(* The connections in the queue of a listener are those that nobody has       *)
(* accepted, each of them once, and no more than it asked for                 *)
(* (tcp_synrcvd.c:29-45, tcpd_server.c, tcpd_mopen.c).                        *)
QueueKept ==
    \A t \in Tcbs : tcb[t].state = "LISTEN" =>
        /\ Len(tcb[t].listenq) <= tcb[t].lqsize /\ IsInjective(tcb[t].listenq)
        /\ \A u \in ToSet(tcb[t].listenq) :
               tcb[u].state \in {"ESTABLISHED", "CLOSEWAIT"} /\ tcb[u].parent = t /\ wr[u] = "out"

(* The two ends of every connection agree, and so do a listener and the       *)
(* connections in its queue.                                                  *)
ConnectionsAgree == EndsAgree /\ QueueKept

(* Each stream of bytes is kept as module Stream says.                        *)
Byte == INSTANCE Stream
ImplementsStream == Byte!Spec

(* A DELETE that is pending belongs to the connection that waits for it, not  *)
(* to another one that has been given the block since.                        *)
Pending(t) ==
    {e.ev : e \in {f \in timers[HostOf(t)] \union ToSet(oport[HostOf(t)]) : f.t = t}}
DeleteFindsItsOwn ==
    \A t \in Tcbs : "DELETE" \in Pending(t) => tcb[t].state \in {"TIMEWAIT", "FREE"}

=============================================================================
