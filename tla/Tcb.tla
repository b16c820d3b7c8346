---------------------------------- MODULE Tcb ----------------------------------
(***************************************************************************)
(* One TCP connection block, and what the code computes on it:             *)
(* xinu/ipnet/common/tcp_*.c.  A handler runs with tcb_mutex held, and is  *)
(* an operator from a context to a context: the block b of TCB t, the      *)
(* output port q and the timers tm of its host, and the segments out that  *)
(* it hands to ipsend.                                                     *)
(*                                                                         *)
(* Sequence numbers do not wrap here.  Urgent data, PUSH, options and the  *)
(* lengths of the timeouts are left out: a timer may expire at any time.   *)
(***************************************************************************)
EXTENDS Integers, Sequences, SequencesExt, FiniteSetsExt

CONSTANTS TCPSBS, TCPRBS,      \* sizes of the send and the receive buffer
          TCPMSS,              \* tcb_smss, and tcb_rmss
          TCPQLEN,             \* length of the output port
          NTCPFRAG,
          TCP_MAXRETRIES

ASSUME TcbAssumption ==
    /\ {TCPSBS, TCPRBS, TCPMSS, TCPQLEN, NTCPFRAG} \subseteq Nat \ {0}
    /\ TCP_MAXRETRIES \in Nat

Least(a, b) == IF a < b THEN a ELSE b
Most(a, b) == IF a < b THEN b ELSE a
Bit(present) == IF present THEN 1 ELSE 0

NoTcb == "none"
NoPort == <<"none", 0>>

(* A block that is not in use.  The buffers are rings; segq holds the       *)
(* fragments tfinsert recorded; the semaphores are counts, negative while a *)
(* process sleeps.                                                          *)
FreeTcb ==
    [state |-> "FREE", type |-> "none", port |-> NoPort, peer |-> NoPort, error |-> "none",
     flags |-> {}, code |-> {}, suna |-> 0, snext |-> 0, slast |-> 0,
     lwseq |-> 0, lwack |-> 0, swindow |-> 0, cwnd |-> 0, ssthresh |-> 0,
     sndbuf |-> [i \in 0 .. TCPSBS - 1 |-> 0], sbstart |-> 0, sbcount |-> 0,
     rcvbuf |-> [i \in 0 .. TCPRBS - 1 |-> 0], rbstart |-> 0, rbcount |-> 0,
     rnext |-> 0, cwin |-> 0, finseq |-> 0, segq |-> {},
     ostate |-> "IDLE", rexmtcount |-> 0,
     parent |-> NoTcb, listenq |-> <<>>, lqsize |-> 0,
     ssema |-> 0, rsema |-> 0, ocsem |-> 0]

BeforeSynrcvd == {"FREE", "CLOSED", "LISTEN", "SYNSENT"}
BeforeEstablished == BeforeSynrcvd \union {"SYNRCVD"}

(* tcpsync, and what tcpcon or tcpwinit sets for a connection; no window is *)
(* larger than MaxWindow, which stands for the slow start threshold of      *)
(* 65535.                                                                   *)
MaxWindow == Most(TCPRBS, TCPSBS)
tcpsync(port, peer, iss) ==
    [FreeTcb EXCEPT !.state = "CLOSED", !.type = "connection", !.port = port, !.peer = peer,
        !.suna = iss, !.snext = iss, !.lwack = iss, !.code = {"SYN"}, !.ssema = 1,
        !.swindow = TCPMSS, !.cwnd = TCPMSS, !.ssthresh = MaxWindow]

-----------------------------------------------------------------------------
(* Timers and the output port.                                             *)

Event(c, ev) == [ev |-> ev, t |-> c.t]
tmset(c, ev) == [c EXCEPT !.tm = @ \union {Event(c, ev)}]
tmclear(c, ev) == [c EXCEPT !.tm = @ \ {Event(c, ev)}]
tmleft(c, ev) == Event(c, ev) \in c.tm

tcpkilltimers(c) ==
    [c EXCEPT !.tm = @ \ {Event(c, ev) : ev \in {"SEND", "RETRANSMIT", "PERSIST"}}]

tcpwait(c) == tmset(tcpkilltimers(c), "DELETE")

(* A kick that finds the output port full is dropped. *)
tcpkick(c) ==
    IF "DELACK" \in c.b.flags /\ ~ tmleft(c, "SEND") THEN tmset(c, "SEND")
    ELSE IF Len(c.q) < TCPQLEN THEN [c EXCEPT !.q = Append(@, Event(c, "SEND"))]
    ELSE c

(* signal() of the read, send and open/close semaphores. *)
wakeReaders(b) ==
    IF ("RDONE" \in b.flags \/ b.rbcount > 0) /\ b.rsema <= 0
      THEN [b EXCEPT !.rsema = @ + 1] ELSE b
wakeWriters(b) ==
    [b EXCEPT
        !.ssema = IF ("SDONE" \in b.flags \/ TCPSBS - b.sbcount > 0) /\ @ <= 0 THEN @ + 1 ELSE @,
        !.ocsem = IF b.error # "none" THEN @ + 1 ELSE @]

tcpabort(c, error) ==
    LET b == [c.b EXCEPT !.flags = @ \union {"RDONE", "SDONE"}, !.error = error]
    IN [tcpkilltimers(c) EXCEPT !.b = wakeWriters(wakeReaders(b))]

tcbdealloc(c) ==
    [(IF c.b.type = "connection" THEN tcpkilltimers(c) ELSE c) EXCEPT !.b = FreeTcb]

-----------------------------------------------------------------------------
(* Windows.                                                                *)

tcphowmuch(b) ==
    b.suna + b.sbcount - b.snext + Bit("SYN" \in b.code) + Bit("SNDFIN" \in b.flags)

(* tcprwindow, in two parts: the window, and the block once it has been     *)
(* advertised.                                                              *)
BugTcprwindow(b) ==
    IF b.rbcount = TCPRBS THEN 0 ELSE Most(TCPRBS, b.cwin - b.rnext)
tcprwindow(b) ==
    LET free == TCPRBS - b.rbcount
        silly == free * 4 < TCPRBS \/ free < TCPMSS
    IN IF b.state \in BeforeEstablished THEN free
       ELSE Most(IF silly THEN 0 ELSE free, b.cwin - b.rnext)
Advertised(b) ==
    IF b.state \in BeforeEstablished THEN b ELSE [b EXCEPT !.cwin = b.rnext + tcprwindow(b)]

(* The window is that of the newest segment. *)
NewWindow(c, seg) ==
    [c EXCEPT !.b.swindow = seg.window, !.b.lwseq = seg.seq, !.b.lwack = seg.ack]
WindowOpened(c) ==
    tcpkick(IF c.b.ostate = "PERSIST"
              THEN [tmclear(c, "PERSIST") EXCEPT !.b.ostate = "XMIT"] ELSE c)
tcpswindow(c, seg) ==
    IF seg.seq < c.b.lwseq \/ (seg.seq = c.b.lwseq /\ seg.ack < c.b.lwack) THEN c
    ELSE IF seg.ack + seg.window > c.b.lwack + c.b.swindow THEN WindowOpened(NewWindow(c, seg))
    ELSE NewWindow(c, seg)

-----------------------------------------------------------------------------
(* Segments, and what is sent for a block.                                 *)

Segment(src, dst, code, seq, ack, window, len, data) ==
    [src |-> src, dst |-> dst, code |-> code, seq |-> seq, ack |-> ack,
     window |-> window, len |-> len, data |-> data]

(* tcpreset answers without a block; a SYN is not counted in its ack.      *)
tcpreset(seg) ==
    IF "RST" \in seg.code THEN {}
    ELSE {Segment(seg.dst, seg.src, IF "ACK" \in seg.code THEN {"RST"} ELSE {"RST", "ACK"},
                  IF "ACK" \in seg.code THEN seg.ack ELSE 0,
                  seg.seq + seg.len + Bit("FIN" \in seg.code), 0, 0, <<>>)}
reset(c, seg) == [c EXCEPT !.out = @ \union tcpreset(seg)]

tcpackit(c, seg) ==
    IF "RST" \in seg.code \/ (seg.len <= 0 /\ {"SYN", "FIN"} \intersect seg.code = {}) THEN c
    ELSE [c EXCEPT !.b = Advertised(c.b),
                   !.out = @ \union {Segment(seg.dst, seg.src, {"ACK"}, c.b.snext, c.b.rnext,
                                             tcprwindow(c.b), 0, <<>>)}]

(* tcpsend, with tcpsndlen.  The length is -1 for an ACK while the FIN is   *)
(* out: it takes the place of the FIN bit it carries.                       *)
tcpsndlen(b, off, rexmt) ==
    Least(IF rexmt THEN b.sbcount - off ELSE Least(b.sbcount - off, b.swindow), TCPMSS)
sendSegment(c, off, seq, len, code, rexmt) ==
    LET b == c.b
        ack == IF "FIRSTSEND" \in b.flags THEN {} ELSE {"ACK"}
        data == [i \in 1 .. len |-> b.sndbuf[(b.sbstart + off + i - 1) % TCPSBS]]
        new == IF rexmt THEN Most(b.suna + len - b.snext, 0)
               ELSE len + Bit("SYN" \in code) + Bit("FIN" \in code)
    IN [c EXCEPT
          !.out = @ \union {Segment(b.port, b.peer, code \union ack, seq, b.rnext,
                                    tcprwindow(b), len, data)},
          !.b = [Advertised(b) EXCEPT !.code = code, !.flags = @ \ {"NEEDOUT"},
                                      !.snext = @ + new]]
sendFrom(c, off, seq, len, rexmt) ==
    sendSegment(c, off, seq, len,
                c.b.code \union IF "SNDFIN" \in c.b.flags /\ seq + len = c.b.slast
                                  THEN {"FIN"} ELSE {}, rexmt)
inTimewait(c) == IF c.b.state = "TIMEWAIT" THEN tcpwait(c) ELSE c
tcpsend(c, rexmt) ==
    LET b == c.b
        off == IF rexmt \/ "SYN" \in b.code THEN 0 ELSE b.snext - b.suna
    IN inTimewait(sendFrom(c, off, IF rexmt THEN b.suna ELSE b.snext,
                           tcpsndlen(b, off, rexmt), rexmt))

-----------------------------------------------------------------------------
(* The output states: tcpidle, tcpxmit, tcprexmt, tcppersist.              *)

BugTcprexmt(c) ==
    IF c.b.rexmtcount >= TCP_MAXRETRIES THEN tcpabort(c, "TIMEDOUT")
    ELSE tcpsend([c EXCEPT !.b.rexmtcount = @ + 1], TRUE)
tcprexmt(c) ==
    LET half == Least(c.b.swindow, IF c.b.ostate = "REXMT" THEN c.b.ssthresh ELSE c.b.cwnd) \div 2
    IN IF c.b.rexmtcount >= TCP_MAXRETRIES
         THEN tcpabort([c EXCEPT !.b.rexmtcount = @ + 1], "TIMEDOUT")
         ELSE [tmset(tcpsend([c EXCEPT !.b.rexmtcount = @ + 1], TRUE), "RETRANSMIT") EXCEPT
                 !.b.ssthresh = Most(half, TCPMSS), !.b.cwnd = TCPMSS]

(* Everything the windows allow, a segment at a time; a segment more than   *)
(* the window is sent when what is pending just fills it.                   *)
SendWindow(c) ==
    LET window == Least(c.b.swindow, c.b.cwnd)
        more(d) == tcphowmuch(d.b) > 0 /\ d.b.snext - d.b.suna <= window
    IN FoldLeft(LAMBDA d, i : IF more(d) THEN tcpsend(d, FALSE) ELSE d, c,
                [i \in 1 .. tcphowmuch(c.b) |-> i])

armed(c) == IF tmleft(c, "RETRANSMIT") THEN c ELSE tmset(c, "RETRANSMIT")
xmitNew(c) ==
    IF tcphowmuch(c.b) = 0
      THEN IF "NEEDOUT" \in c.b.flags THEN tcpsend(c, FALSE) ELSE c
    ELSE IF c.b.swindow = 0
      THEN tmset(tcpsend([c EXCEPT !.b.ostate = "PERSIST"], FALSE), "PERSIST")
    ELSE armed(SendWindow([c EXCEPT !.b.ostate = "XMIT"]))

tcpxmit(c, ev) ==
    IF ev = "RETRANSMIT"
      THEN [tcprexmt(tmclear(c, "SEND")) EXCEPT !.b.ostate = "REXMT"]
      ELSE xmitNew(c)

tcposwitch(c, ev) ==
    CASE c.b.ostate = "IDLE" -> IF ev = "SEND" THEN tcpxmit(c, ev) ELSE c
      [] c.b.ostate = "XMIT" -> tcpxmit(c, ev)
      [] c.b.ostate = "REXMT" -> IF ev = "RETRANSMIT" THEN tcprexmt(c) ELSE c
      [] c.b.ostate = "PERSIST" -> IF ev = "PERSIST" THEN tmset(tcpsend(c, TRUE), "PERSIST") ELSE c

-----------------------------------------------------------------------------
(* Acknowledgements.                                                       *)

tcprtt(c) ==
    LET more == IF c.b.cwnd < c.b.ssthresh THEN TCPMSS ELSE (TCPMSS * TCPMSS) \div c.b.cwnd
    IN [tmclear(c, "RETRANSMIT") EXCEPT !.b.cwnd = Least(@ + more, MaxWindow)]

(* An empty send buffer makes the output idle; anything else goes on.      *)
goesOn(c) == IF c.b.sbcount = 0 THEN [c EXCEPT !.b.ostate = "IDLE"] ELSE tcpkick(c)
tcpostate(c) ==
    goesOn(IF c.b.ostate = "REXMT"
             THEN [c EXCEPT !.b.rexmtcount = 0, !.b.ostate = "XMIT"] ELSE c)

(* The FIN is taken to be acknowledged when nothing that was sent is left.  *)
NewlyAcked(c, seg) ==
    LET b == c.b
        syn == "SYN" \in b.code
        fin == "FIN" \in b.code /\ seg.ack = b.snext
        data == seg.ack - b.suna - Bit(syn) - Bit(fin)
        b1 == [b EXCEPT
                 !.suna = seg.ack,
                 !.code = @ \ ((IF syn THEN {"SYN"} ELSE {}) \union (IF fin THEN {"FIN"} ELSE {})),
                 !.flags = @ \ ((IF syn THEN {"FIRSTSEND"} ELSE {})
                                \union (IF fin THEN {"SNDFIN"} ELSE {})),
                 !.sbstart = (@ + data) % TCPSBS,
                 !.sbcount = @ - data,
                 !.ssema = IF data # 0 /\ @ <= 0 THEN @ + 1 ELSE @]
    IN tcpostate([tcprtt(c) EXCEPT !.b = b1])

tcpacked(c, seg) ==
    IF "ACK" \notin seg.code \/ seg.ack <= c.b.suna THEN c
    ELSE IF seg.ack <= c.b.snext THEN NewlyAcked(c, seg)
    ELSE IF c.b.state = "SYNRCVD" THEN reset(c, seg)
    ELSE tcpackit(c, seg)

-----------------------------------------------------------------------------
(* Data that arrives.                                                      *)

BySeq(S) == SetToSortSeq(S, LAMBDA f, g : f.seq < g.seq \/ (f.seq = g.seq /\ f.len < g.len))

(* tfcoalesce: the fragments that now follow on, up to a FIN that arrived   *)
(* before its turn.  With no fragment recorded, the code frees an           *)
(* uninitialized pointer on that path (tcp_tfcoal.c:21-22, 53-56).          *)
tfcoalesce(b, datalen) ==
    FoldLeft(LAMBDA a, f : IF a.fin \/ f.seq > a.rnext THEN a
                           ELSE [rnext |-> Most(a.rnext, f.seq + f.len), left |-> a.left \ {f},
                                 fin |-> Most(a.rnext, f.seq + f.len) = b.finseq],
             [rnext |-> b.rnext + datalen, left |-> b.segq, fin |-> b.rnext + datalen = b.finseq],
             BySeq(b.segq))

(* tcpdodat in its turn: data, then a FIN of this segment or a stored one;  *)
(* a segment with data carries PSH, which wakes the reader all the same.    *)
inData(b, a) ==
    [b EXCEPT !.rnext = a.rnext, !.rbcount = @ + a.rnext - b.rnext,
              !.segq = IF a.fin THEN {} ELSE a.left, !.flags = @ \union {"NEEDOUT"}]
inFin(b, fin) ==
    IF fin THEN [b EXCEPT !.rnext = @ + 1, !.flags = @ \union {"RDONE", "NEEDOUT"}] ELSE b
inTurn(b, a, p) ==
    IF p.len > 0 THEN inFin(inData(b, a), p.fin \/ a.fin) ELSE inFin(b, p.fin)
InTurn(b, p, push) ==
    IF p.len > 0 \/ p.fin \/ push THEN wakeReaders(inTurn(b, tfcoalesce(b, p.len), p)) ELSE b

BugOutOfTurn(b, p) ==
    IF p.fin THEN wakeReaders([b EXCEPT !.flags = @ \union {"RDONE"}]) ELSE b
OutOfTurn(b, p) ==
    [b EXCEPT !.finseq = IF p.fin THEN p.first + p.len ELSE @,
              !.segq = IF p.len = 0 \/ Cardinality(@) >= NTCPFRAG THEN @
                       ELSE @ \union {[seq |-> p.first, len |-> p.len]}]

(* tcpdata: cut off what was received before and what is beyond the window, *)
(* store the rest in the ring, where it belongs.                            *)
Part(b, seg) ==
    LET start == seg.seq + Bit("SYN" \in seg.code)
        first == Most(start, b.rnext)
        over == Most(start + seg.len - (b.rnext + TCPRBS - b.rbcount), 0)
    IN [first |-> first, skip |-> first - start, len |-> seg.len - (first - start) - over,
        fin |-> "FIN" \in seg.code /\ over = 0]
Stored(b, p, data) ==
    [b EXCEPT !.rcvbuf =
       [k \in DOMAIN @ |->
          LET i == (k - b.rbstart - b.rbcount - (p.first - b.rnext)) % TCPRBS
          IN IF i < p.len THEN data[p.skip + i + 1] ELSE @[k]]]
tcpdodat(b, p, push) == IF p.first = b.rnext THEN InTurn(b, p, push) ELSE OutOfTurn(b, p)
answered(c) == IF "NEEDOUT" \in c.b.flags THEN tcpkick(c) ELSE c
received(c, b, seg, p) ==
    answered([c EXCEPT !.b = tcpdodat(Stored(b, p, seg.data), p, seg.len > 0)])
SynCounted(b, seg) ==
    IF "SYN" \in seg.code THEN [b EXCEPT !.rnext = @ + 1, !.flags = @ \union {"NEEDOUT"}] ELSE b
tcpdata(c, seg) ==
    received(c, SynCounted(c.b, seg), seg, Part(SynCounted(c.b, seg), seg))

(* tcpok: is a segment acceptable?  With no window, nothing of length is.   *)
tcpok(b, seg) ==
    LET seglen == seg.len + Bit("SYN" \in seg.code) + Bit("FIN" \in seg.code)
        rwindow == TCPRBS - b.rbcount
        inWindow(n) == n - b.rnext >= 0 /\ n - (b.rnext + rwindow - 1) <= 0
    IN \/ b.state \in BeforeSynrcvd
       \/ rwindow = 0 /\ seglen = 0 /\ seg.seq = b.rnext
       \/ ~ (rwindow = 0 /\ seglen = 0)
          /\ (inWindow(seg.seq) \/ (seglen # 0 /\ inWindow(seg.seq + seglen - 1)))

(* tcpok takes the data out of a segment that meets a closed window, so     *)
(* that tcpackit does not answer it.                                        *)
Stripped(b, seg) == IF b.rbcount = TCPRBS THEN [seg EXCEPT !.len = 0, !.data = <<>>] ELSE seg

-----------------------------------------------------------------------------
(* Input in the states of a connection.                                    *)

to(c, state) == [c EXCEPT !.b.state = state]
wakeOpenClose(c) == [c EXCEPT !.b.ocsem = @ + 1]
rdone(c) == "RDONE" \in c.b.flags
finOut(c) == "FIN" \in c.b.code

synSeen(c) == IF "SYN" \in c.b.code THEN to(c, "SYNRCVD") ELSE wakeOpenClose(to(c, "ESTABLISHED"))
tcpsynsent(c, seg) ==
    LET b == [c.b EXCEPT !.swindow = seg.window, !.lwseq = seg.seq, !.rnext = seg.seq,
                         !.cwin = seg.seq + TCPRBS]
    IN IF "ACK" \in seg.code /\ (seg.ack <= c.b.suna \/ seg.ack > c.b.snext) THEN reset(c, seg)
       ELSE IF "RST" \in seg.code
         THEN wakeOpenClose([tcpkilltimers(c) EXCEPT !.b.state = "CLOSED", !.b.error = "RESET"])
       ELSE IF "SYN" \notin seg.code THEN c
       ELSE synSeen(tcpdata(tcpacked([c EXCEPT !.b = b], seg), seg))

(* A reset ends a connection, and so does a SYN that must not be there,     *)
(* which is answered with a reset.                                          *)
broken(c, seg) == IF "RST" \in seg.code THEN c ELSE reset(c, seg)
Breaks(seg) == {"RST", "SYN"} \intersect seg.code # {}
aborted(c) == tcpabort(c, "RESET")

closeWaitAfterFin(c) == IF rdone(c) THEN to(c, "CLOSEWAIT") ELSE c
timewait(c) == tcpwait(to(c, "TIMEWAIT"))

(* tcpsynrcvd once the segment has acknowledged something acceptable. *)
established(c, seg) == closeWaitAfterFin(tcpdata(to(c, "ESTABLISHED"), seg))

acceptable(c, seg) == tcpswindow(tcpdata(tcpacked(c, seg), seg), seg)

tcpestablished(c, seg) ==
    IF Breaks(seg) THEN aborted(broken(c, seg))
    ELSE IF "ACK" \notin seg.code THEN c
    ELSE closeWaitAfterFin(acceptable(c, seg))

(* The FIN counts as acknowledged when it is not out, be it not yet sent. *)
fin1Done(c) ==
    IF rdone(c) THEN IF finOut(c) THEN to(c, "CLOSING") ELSE timewait(wakeOpenClose(c))
    ELSE IF finOut(c) THEN c ELSE to(wakeOpenClose(c), "FINWAIT2")
tcpfin1(c, seg) ==
    IF Breaks(seg) THEN aborted(broken(c, seg))
    ELSE IF "ACK" \notin seg.code THEN c
    ELSE fin1Done(acceptable(c, seg))

fin2Done(c) == IF rdone(c) THEN timewait(c) ELSE c
tcpfin2(c, seg) ==
    IF Breaks(seg) THEN aborted(broken(c, seg))
    ELSE IF "ACK" \notin seg.code THEN c
    ELSE fin2Done(tcpdata(tcpacked(c, seg), seg))

tcpclosewait(c, seg) ==
    IF Breaks(seg) THEN aborted(broken(c, seg))
    ELSE tcpswindow(tcpacked(c, seg), seg)

lastackDone(c) == IF finOut(c) THEN c ELSE wakeOpenClose(c)
tcplastack(c, seg) ==
    IF Breaks(seg) THEN aborted(broken(c, seg)) ELSE lastackDone(tcpacked(c, seg))

closingDone(c) == IF finOut(c) THEN c ELSE timewait(c)
tcpclosing(c, seg) ==
    IF Breaks(seg) THEN tcbdealloc(broken(c, seg)) ELSE closingDone(tcpacked(c, seg))

tcptimewait(c, seg) ==
    IF Breaks(seg) THEN tcbdealloc(broken(c, seg))
    ELSE tcpwait(tcpdata(tcpacked(c, seg), seg))

(* The states whose handler looks at its own block only. *)
tcpswitch(c, seg) ==
    CASE c.b.state = "CLOSED" -> reset(c, seg)
      [] c.b.state = "SYNSENT" -> tcpsynsent(c, seg)
      [] c.b.state = "ESTABLISHED" -> tcpestablished(c, seg)
      [] c.b.state = "FINWAIT1" -> tcpfin1(c, seg)
      [] c.b.state = "FINWAIT2" -> tcpfin2(c, seg)
      [] c.b.state = "CLOSEWAIT" -> tcpclosewait(c, seg)
      [] c.b.state = "LASTACK" -> tcplastack(c, seg)
      [] c.b.state = "CLOSING" -> tcpclosing(c, seg)
      [] c.b.state = "TIMEWAIT" -> tcptimewait(c, seg)

=============================================================================
