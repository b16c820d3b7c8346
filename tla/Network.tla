-------------------------------- MODULE Network --------------------------------
(***************************************************************************)
(* The IP layer of a host (gateway is 0, net_start.c): the interrupt that  *)
(* queues what the Ethernet brings, processes that send, the IP process    *)
(* that takes packets from both queues (xinu/ipnet/common/ip_*.c,          *)
(* net_locout.c, icmp_*.c), the ARP cache and reassembly behind it, and    *)
(* the slow timer.                                                         *)
(*                                                                         *)
(* A process can lose the processor anywhere here, except where interrupts *)
(* are disabled; enq and ipsend are therefore split where they look at a   *)
(* queue before they disable interrupts, and before they wake the IP       *)
(* process.                                                                *)
(***************************************************************************)
EXTENDS Arp, Frag

CONSTANTS NI_INQSZ, Senders, Workloads

VARIABLES ipinq,      \* input queues of the local and the Ethernet interface
          ifnext,
          ipmsg,      \* the message the IP process has not received, or NoMsg
          ip,         \* the IP process
          pc,         \* processes that call ipsend, the slow timer among them
          load

NI_LOCAL == 0
NI_PRIMARY == 1
If == {NI_LOCAL, NI_PRIMARY}
NoMsg == -1
NoBuf == 0    \* buffers are numbered from 1
Timer == "slowtimer"
IpProc == "ipproc"

(* A workload: the buffers that other users of the pool do not hold,        *)
(* packets processes send, packets that arrive, hosts that answer or        *)
(* announce themselves, which processes send, and whether the slow timer    *)
(* runs and the cache is flushed.                                           *)
Workload == [bufs : SUBSET Buf, sent : SUBSET Packet, arrive : SUBSET Packet, arp : SUBSET Hosts,
             senders : SUBSET Senders, timers : BOOLEAN]

ASSUME NetworkAssumption ==
    /\ NI_INQSZ \in Nat \ {0} /\ Timer \notin Senders /\ IpProc \notin Senders
    /\ Workloads \subseteq Workload

ipVars == <<ipinq, ifnext, ipmsg, ip>>
vars == <<pool, pkt, arpVars, fragVars, ipVars, pc, load>>

Frame(at, b, i) == [at |-> at, b |-> b, i |-> i]
Idle == Frame("idle", NoBuf, 0)

Init ==
    /\ load \in Workloads
    /\ pool = load.bufs /\ pkt = [b \in Buf |-> Blank]
    /\ ArpInit /\ FragInit
    /\ ipinq = [i \in If |-> <<>>]
    /\ ifnext = NI_LOCAL /\ ipmsg = NoMsg
    /\ ip = [at |-> "clear", b |-> NoBuf, i |-> 0]
    /\ pc = [p \in Senders \union {Timer, IpProc} |-> Idle]

(* send() to the IP process: refused while a message is pending. *)
Woken(ifnum) == IF ipmsg = NoMsg THEN ifnum ELSE ipmsg

Prec == [b \in Buf |-> pkt[b].prec]

(* Nobody looks at what a free buffer holds. *)
Forget == pkt' = [b \in Buf |-> IF b \in pool' THEN Blank ELSE pkt[b]]

-----------------------------------------------------------------------------
(* Input from the Ethernet: ip_in in the interrupt.                        *)

ip_in(c) ==
    LET b == NewBuf
        q == ipinq[NI_PRIMARY]
    IN /\ pool # {}
       /\ IF Full(q, NI_INQSZ) THEN UNCHANGED <<pool, pkt, ipinq>>
          ELSE /\ pool' = pool \ {b}
               /\ pkt' = [pkt EXCEPT ![b] = c]
               /\ ipinq' = [ipinq EXCEPT ![NI_PRIMARY] =
                                Inserted(q, b, [Prec EXCEPT ![b] = c.prec])]
       /\ ipmsg' = Woken(NI_PRIMARY)
       /\ UNCHANGED <<arpVars, fragVars, ifnext, ip, pc, load>>

arpInterrupt(h, forUs) ==
    /\ arp_in(h, forUs) /\ Forget
    /\ UNCHANGED <<fragVars, ipVars, pc, load>>

-----------------------------------------------------------------------------
(* ipsend, in steps: enq looks at the count; enq inserts; send.            *)

EnqChecked(p, b) ==
    pc' = [pc EXCEPT ![p] = [@ EXCEPT !.b = b,
              !.at = IF Full(ipinq[NI_LOCAL], NI_INQSZ) THEN "refused" ELSE "insert"]]

ipsend(p) ==
    /\ pc[p] = Idle /\ pool # {}
    /\ \E c \in load.sent : pkt' = [pkt EXCEPT ![NewBuf] = c]
    /\ pool' = pool \ {NewBuf}
    /\ pc' = [pc EXCEPT ![p] = Frame("enq", NewBuf, 0)]
    /\ UNCHANGED <<arpVars, fragVars, ipVars, load>>

enqCheck(p) ==
    /\ pc[p].at = "enq"
    /\ EnqChecked(p, pc[p].b)
    /\ UNCHANGED <<pool, pkt, arpVars, fragVars, ipVars, load>>

enqInsert(p) ==
    LET q == Inserted(ipinq[NI_LOCAL], pc[p].b, [b \in Buf |-> 0])
    IN /\ pc[p].at = "insert"
       /\ ipinq' = [ipinq EXCEPT ![NI_LOCAL] = q]
       /\ pc' = [pc EXCEPT ![p] = IF Refused(q, NI_INQSZ) THEN [@ EXCEPT !.at = "refused"]
                                  ELSE [@ EXCEPT !.at = "wake", !.b = NoBuf]]
       /\ UNCHANGED <<pool, pkt, arpVars, fragVars, ifnext, ipmsg, ip, load>>

enqRefused(p) ==
    /\ pc[p].at = "refused"
    /\ pool' = pool \union {pc[p].b}
    /\ Forget
    /\ pc' = [pc EXCEPT ![p] = [@ EXCEPT !.at = "wake", !.b = NoBuf]]
    /\ UNCHANGED <<arpVars, fragVars, ipVars, load>>

(* ipftimer goes on with the next reassembly queue in use, or is done;      *)
(* nobody else touches the queues while it holds ipfmutex.                  *)
BugScanned == 1 .. IP_FQSIZE - 1
Scanned == 0 .. IP_FQSIZE - 1
NextQueue(i) ==
    LET used == {j \in Scanned : j >= i /\ ipfqt[j].state # "IPFF_FREE"}
    IN IF used = {} THEN Idle ELSE Frame("ipftimer", NoBuf, Min(used))

wakeIpproc(p) ==
    /\ pc[p].at = "wake"
    /\ ipmsg' = Woken(NI_LOCAL)
    /\ pc' = [pc EXCEPT ![p] = IF p = Timer THEN NextQueue(pc[p].i + 1) ELSE Idle]
    /\ UNCHANGED <<pool, pkt, arpVars, fragVars, ipinq, ifnext, ip, load>>

sending(p) == enqCheck(p) \/ enqInsert(p) \/ enqRefused(p) \/ wakeIpproc(p)

-----------------------------------------------------------------------------
(* ipproc: ipgetp, then one packet.                                        *)

getpClear ==
    /\ ip.at = "clear" /\ pc[IpProc] = Idle
    /\ ipmsg' = NoMsg
    /\ ip' = [at |-> "scan", b |-> NoBuf, i |-> 0]
    /\ joined' = Nothing
    /\ UNCHANGED <<pool, pkt, arpVars, ipfqt, ipinq, ifnext, pc, load>>

(* One round over the interfaces, one at a time; then receive(). *)
BugAfterRound == ipmsg' = NoMsg
AfterRound == UNCHANGED ipmsg

getpScan ==
    LET n == ifnext % Cardinality(If)
    IN /\ ip.at = "scan"
       /\ \/ /\ ip.i = Cardinality(If)
             /\ ip' = [ip EXCEPT !.at = "receive"]
             /\ AfterRound
             /\ UNCHANGED <<ipinq, ifnext>>
          \/ /\ ip.i < Cardinality(If) /\ ipinq[n] = <<>>
             /\ ifnext' = n + 1
             /\ ip' = [ip EXCEPT !.i = @ + 1]
             /\ UNCHANGED <<ipinq, ipmsg>>
          \/ /\ ip.i < Cardinality(If) /\ ipinq[n] # <<>>
             /\ ip' = [at |-> "route", b |-> Head(ipinq[n]), i |-> n]
             /\ ipinq' = [ipinq EXCEPT ![n] = Tail(@)]
             /\ ifnext' = n
             /\ UNCHANGED ipmsg
       /\ UNCHANGED <<pool, pkt, arpVars, fragVars, pc, load>>

getpReceive ==
    /\ ip.at = "receive" /\ ipmsg # NoMsg
    /\ ifnext' = ipmsg /\ ipmsg' = NoMsg
    /\ ip' = [at |-> "scan", b |-> NoBuf, i |-> 0]
    /\ UNCHANGED <<pool, pkt, arpVars, fragVars, ipinq, pc, load>>

NextPacket == ip' = [at |-> "clear", b |-> NoBuf, i |-> 0]

(* Bad headers, and packets from the Ethernet for others: a host does not   *)
(* forward.                                                                 *)
Discarded(b) == pkt[b].kind = "bad" \/ (ip.i = NI_PRIMARY /\ pkt[b].to # "local")

discard(b) ==
    /\ Discarded(b)
    /\ pool' = pool \union {b} /\ Forget
    /\ UNCHANGED <<arpVars, fragVars, pc>>

output(b) ==
    /\ ~ Discarded(b) /\ pkt[b].to # "local"
    /\ netwrite(b, pkt[b].to) /\ Forget
    /\ UNCHANGED <<fragVars, pc>>

(* local_out.  ipreass waits for ipfmutex while the timer holds it; an    *)
(* echo request goes back as the reply, in the same buffer; a received ICMP *)
(* error is counted, and its buffer forgotten (icmp_in.c:66-69).            *)
input(b) ==
    /\ ~ Discarded(b) /\ pkt[b].to = "local"
    /\ pc[Timer] = Idle
    /\ \/ pkt[b].kind = "frag" /\ ipreass(b) /\ Forget /\ UNCHANGED pc
       \/ /\ pkt[b].kind = "data"
          /\ pool' = pool \union {b} /\ Forget
          /\ UNCHANGED <<fragVars, pc>>
       \/ /\ pkt[b].kind = "echo"
          /\ pkt' = [pkt EXCEPT ![b] = [Blank EXCEPT !.to = pkt[b].from]]
          /\ pc' = [pc EXCEPT ![IpProc] = Frame("enq", b, 0)]
          /\ UNCHANGED <<pool, fragVars>>
       \/ pkt[b].kind = "error" /\ UNCHANGED <<pool, pkt, fragVars, pc>>
    /\ UNCHANGED arpVars

routePacket ==
    /\ ip.at = "route"
    /\ discard(ip.b) \/ output(ip.b) \/ input(ip.b)
    /\ NextPacket
    /\ UNCHANGED <<ipinq, ifnext, ipmsg, load>>

ipproc == getpClear \/ getpScan \/ getpReceive \/ routePacket \/ sending(IpProc)

-----------------------------------------------------------------------------
(* slowtimer, once a second: arptimer, then ipftimer over the queues.  The  *)
(* first fragment of a queue that is given up becomes an ICMP message to    *)
(* its source.                                                              *)

arptimerStep ==
    /\ load.timers /\ pc[Timer] = Idle
    /\ arptimer /\ Forget
    /\ pc' = [pc EXCEPT ![Timer] = NextQueue(0)]
    /\ UNCHANGED <<fragVars, ipVars, load>>

ipftimerStep ==
    LET i == pc[Timer].i
    IN /\ pc[Timer].at = "ipftimer"
       /\ ipftimer(i)
       /\ IF Expired(i) = <<>>
            THEN pc' = [pc EXCEPT ![Timer] = NextQueue(i + 1)] /\ Forget
            ELSE /\ pc' = [pc EXCEPT ![Timer] = Frame("enq", Expired(i)[1], i)]
                 /\ pkt' = [b \in Buf |->
                        IF b = Expired(i)[1] THEN [Blank EXCEPT !.to = pkt[b].from]
                        ELSE IF b \in pool' THEN Blank ELSE pkt[b]]
       /\ UNCHANGED <<arpVars, ipVars, load>>

slowtimer == arptimerStep \/ ipftimerStep \/ sending(Timer)

Next ==
    \/ \E c \in load.arrive : ip_in(c)
    \/ \E h \in load.arp, forUs \in BOOLEAN : arpInterrupt(h, forUs)
    \/ load.arp # {} /\ arpflush /\ UNCHANGED <<pkt, fragVars, ipVars, pc, load>>
    \/ \E p \in load.senders : ipsend(p) \/ sending(p)
    \/ ipproc
    \/ slowtimer

Spec == Init /\ [][Next]_vars

(* The slow timer is among the processes of highest priority (STPRI), and the *)
(* clock keeps waking it (module Kernel).                                     *)
FairSpec == Spec /\ WF_vars(slowtimer)

-----------------------------------------------------------------------------

TypeOK ==
    /\ pool \subseteq Buf /\ pkt \in [Buf -> Packet]
    /\ \A e \in Entry : /\ arptable[e].state \in ArpStates
                        /\ arptable[e].ttl \in 0 .. Max({ARP_TIMEOUT, ARP_RESEND})
                        /\ Len(arptable[e].queue) <= ARP_QSIZE
    /\ aenext \in Entry
    /\ \A i \in Queue : /\ ipfqt[i].state \in {"IPFF_FREE", "IPFF_VALID", "IPFF_BOGUS"}
                        /\ ipfqt[i].ttl \in 0 .. IP_FTTL
                        /\ Len(ipfqt[i].q) <= IP_FQSIZE
    /\ ifnext \in 0 .. Cardinality(If) /\ ipmsg \in If \union {NoMsg}

(* A packet buffer is in exactly one place: free, in an input queue, waiting *)
(* on an ARP entry, among the fragments of a live queue, or in the hands of  *)
(* a process; whatever overflows, expires, is evicted or refused             *)
(* (gpq.c:46-80, arp_alloc.c:29-30, arp_dq.c:20-28, arp_timer.c:24-33,       *)
(* ip_fadd.c:26-37, ip_ftimer.c:31-42).  Received ICMP errors are not        *)
(* included: icmp_in forgets their buffers.                                  *)
Found(b, name, i, q) == {<<name, i, j>> : j \in {k \in 1 .. Len(q) : q[k] = b}}
Places(b) ==
    (IF b \in pool THEN {<<"pool", 0, 0>>} ELSE {})
    \union (UNION {Found(b, "ipinq", i, ipinq[i]) : i \in If})
    \union (UNION {Found(b, "arp", e, arptable[e].queue) :
                      e \in {f \in Entry : arptable[f].state # "AS_FREE"}})
    \union (UNION {Found(b, "frag", i, ipfqt[i].q) :
                      i \in {k \in Queue : ipfqt[k].state = "IPFF_VALID"}})
    \union {<<p, 0, 0>> : p \in {r \in DOMAIN pc : pc[r].b = b}}
    \union (IF ip.b = b THEN {<<"route", 0, 0>>} ELSE {})

PacketInOnePlace ==
    /\ TypeOK
    /\ \A b \in load.bufs : pkt[b].kind # "error" => Cardinality(Places(b)) = 1

(* The IP process never sleeps on a packet: when it waits without a message, *)
(* both input queues are empty, or whoever filled one is about to send the   *)
(* message (ip_getp.c:19-31, ip_in.c:18-22, ip_send.c:36-40).                *)
NoLostWakeup ==
    ip.at = "receive" /\ ipmsg = NoMsg =>
        /\ ipinq[NI_PRIMARY] = <<>>
        /\ ipinq[NI_LOCAL] # <<>> => \E p \in DOMAIN pc : pc[p].at \in {"wake", "refused"}

(* A datagram that is put together is the one that was taken apart, in       *)
(* whatever order its fragments come, however often, and however they        *)
(* overlap (gpq.c:63-73, ip_fjoin.c:22-46, ip_fcons.c:37-51).                *)
ReassemblyExact == joined # Nothing => joined.data = Original(joined.id)

(* While the slow timer runs, fragments do not stay for ever: the datagram   *)
(* is completed, or expires, or its queue overflows, although each new       *)
(* fragment restarts the timer (ip_ftimer.c:19-44, ip_fadd.c:26-38).         *)
Waiting(b) == \E i \in Queue : b \in ToSet(ipfqt[i].q)
FragmentsReleased == \A b \in Buf : load.timers /\ Waiting(b) ~> ~ Waiting(b)
===============================================================================
