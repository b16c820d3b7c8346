------------------------------ MODULE Datagrams ------------------------------
(***************************************************************************)
(* UDP (udp_alloc.c, udp_nxtp.c, udp_in.c, udp_send.c) and the datagram    *)
(* pseudo devices (dg_mopen.c, dg_read.c, dg_write.c, dg_close.c) of a few *)
(* systems, with a network between them that may lose, delay, reorder and  *)
(* repeat datagrams.                                                       *)
(*                                                                         *)
(* A device and the queue of its port have one entry here: "free", "open"  *)
(* between dgalloc and upalloc, "valid" from then on.  udpmutex makes the  *)
(* choice of a port and the delivery of a datagram atomic; dgread takes no *)
(* mutex, and a datagram may arrive between any two of its steps.  The     *)
(* formats of headers and the checksum are left out.                       *)
(***************************************************************************)
EXTENDS Integers, Sequences, FiniteSets, FiniteSetsExt

CONSTANTS Systems,
          Users,      \* the processes that use datagram devices
          Home,       \* the system of each
          NoUser,     \* BADPID
          UPPS,       \* entries of dgtab and upqs
          UPPLEN_DG,  \* datagrams a port holds (UPPLEN)
          ULPORT      \* ports above are given to those who ask for any

ASSUME DatagramConstants == /\ Home \in [Users -> Systems]
                            /\ NoUser \notin Users
                            /\ {UPPS, UPPLEN_DG, ULPORT} \subseteq Nat \ {0}

VARIABLES upqs,      \* the entries of each system
          lastport,  \* the port given last, by system
          msg,       \* the processes a message waits for
          io,        \* where each process is in its call
          net,       \* datagrams under way
          faults     \* what may still go wrong

dgVars == <<upqs, lastport, msg, io, net, faults>>

ANYLPORT == 0
NoPort   == -1
NoAddr   == [sys |-> NoUser, port |-> NoPort]
NoData   == <<>>
FreeEntry == [state |-> "free", port |-> NoPort, pid |-> NoUser, q |-> <<>>]
NoCall   == [pc |-> "closed", slot |-> 0, port |-> NoPort, to |-> NoAddr,
             from |-> NoAddr, got |-> NoData]

Entry(u)   == upqs[Home[u]][io[u].slot]
HereIs(u)  == [sys |-> Home[u], port |-> io[u].port]
At(u, pc)  == io[u].pc = pc
Goto(u, pc) == io' = [io EXCEPT ![u].pc = pc]

FreeEntries(s) == {i \in 1..UPPS : upqs[s][i].state = "free"}
TakenPorts(s)  == {upqs[s][i].port : i \in {j \in 1..UPPS :
                                             upqs[s][j].state = "valid"}}

(***************************************************************************)
(* dgmopen: the device and the port in one step, the queue in the next.    *)
(* The port is taken only when the queue has it.                           *)
(***************************************************************************)
\* (for ReplyBelongs) the lowest free port
Bugudpnxtp(s) == Min({p \in ULPORT + 1..ULPORT + UPPS + 1 : p \notin TakenPorts(s)})
udpnxtp(s) == Min({p \in lastport[s] + 1..lastport[s] + UPPS + 1 :
                     p \notin TakenPorts(s)})

dgmopen(u, lport, to) ==
    LET s == Home[u]
        i == Min(FreeEntries(s))
        port == IF lport = ANYLPORT THEN udpnxtp(s) ELSE lport
    IN /\ At(u, "closed")
       /\ IF FreeEntries(s) = {} \/ port \in TakenPorts(s)
          THEN /\ Goto(u, "failed")
               /\ UNCHANGED <<upqs, lastport>>
          ELSE /\ upqs' = [upqs EXCEPT ![s][i].state = "open"]
               /\ io' = [io EXCEPT ![u] = [NoCall EXCEPT !.pc = "port", !.to = to,
                                            !.slot = i, !.port = port]]
               /\ lastport' = IF lport = ANYLPORT
                              THEN [lastport EXCEPT ![s] = port] ELSE lastport
       /\ UNCHANGED <<msg, net, faults>>

upalloc(u) ==
    /\ At(u, "port")
    /\ upqs' = [upqs EXCEPT ![Home[u]][io[u].slot] =
                  [FreeEntry EXCEPT !.state = "valid", !.port = io[u].port]]
    /\ Goto(u, "open")
    /\ UNCHANGED <<lastport, msg, net, faults>>

\* What dgclose does to the entries; the datagrams that wait are freed.
Closed(u) == [upqs EXCEPT ![Home[u]][io[u].slot] = FreeEntry]

dgclose(u) ==
    /\ upqs' = Closed(u)
    /\ io' = [io EXCEPT ![u] = NoCall]
    /\ UNCHANGED <<lastport, msg, net, faults>>

(***************************************************************************)
(* dgwrite and udpsend: the datagram goes to where the device is open to,  *)
(* or to the address in it.  Without a route nothing is sent, SYSERR.      *)
(***************************************************************************)
Datagram(u, to, data) == [to |-> to, from |-> HereIs(u), data |-> data]

dgwrite(u, to, data, pc) ==
    /\ net' = net \cup {Datagram(u, to, data)}
    /\ Goto(u, pc)
    /\ UNCHANGED <<upqs, lastport, msg, faults>>

(***************************************************************************)
(* dgread.  With DG_TMODE it looks at the port, says in up_pid that it     *)
(* waits, and waits for a message of udp_in with recvtim; then it takes    *)
(* the datagram with preceive, which waits for as long as it takes.        *)
(***************************************************************************)
ReadCheck(u) ==
    /\ At(u, "check")
    /\ Goto(u, IF Entry(u).pid # NoUser THEN "syserr"
               ELSE IF Entry(u).q = <<>> THEN "arm" ELSE "receive")
    /\ UNCHANGED <<upqs, lastport, msg, net, faults>>

ReadArm(u) ==
    /\ At(u, "arm")
    /\ upqs' = [upqs EXCEPT ![Home[u]][io[u].slot].pid = u]
    /\ Goto(u, "wait")
    /\ UNCHANGED <<lastport, msg, net, faults>>

ReadWake(u) ==
    /\ At(u, "wait")
    /\ u \in msg
    /\ msg' = msg \ {u}
    /\ Goto(u, "receive")
    /\ UNCHANGED <<upqs, lastport, net, faults>>

\* recvtim returns TIMEOUT; up_pid still names the process.
ReadTimeout(u) ==
    /\ At(u, "wait")
    /\ u \notin msg
    /\ Goto(u, "late")
    /\ UNCHANGED <<upqs, lastport, msg, net>>

ReadLate(u) ==
    /\ At(u, "late")
    /\ upqs' = [upqs EXCEPT ![Home[u]][io[u].slot].pid = NoUser]
    /\ Goto(u, "timeout")
    /\ UNCHANGED <<lastport, msg, net, faults>>

ReadReceive(u) ==
    /\ At(u, "receive")
    /\ Entry(u).q # <<>>
    /\ io' = [io EXCEPT ![u].pc = "got", ![u].got = Head(Entry(u).q).data,
                        ![u].from = Head(Entry(u).q).from]
    /\ upqs' = [upqs EXCEPT ![Home[u]][io[u].slot].q = Tail(@)]
    /\ UNCHANGED <<lastport, msg, net, faults>>

(***************************************************************************)
(* udp_in: a datagram for a full port is dropped, one for a port nobody    *)
(* has is answered by ICMP, which nobody reads.                            *)
(***************************************************************************)
Delivered(d) ==
    LET s  == d.to.sys
        is == {i \in 1..UPPS : upqs[s][i].port = d.to.port}
        i  == Min(is)
        e  == upqs[s][i]
    IN IF is = {} \/ Len(e.q) >= UPPLEN_DG
       THEN UNCHANGED <<upqs, msg>>
       ELSE /\ upqs' = [upqs EXCEPT ![s][i] = [e EXCEPT !.q = Append(@, d),
                                                        !.pid = NoUser]]
            /\ msg'  = IF e.pid = NoUser THEN msg ELSE msg \cup {e.pid}

udp_in(s) ==
    /\ \E d \in net : /\ d.to.sys = s
                      /\ net' = net \ {d}
                      /\ Delivered(d)
    /\ UNCHANGED <<lastport, io, faults>>

Fault(what) == /\ faults[what] > 0
               /\ faults' = [faults EXCEPT ![what] = @ - 1]

LoseDatagram ==
    /\ Fault("lose")
    /\ \E d \in net : net' = net \ {d}
    /\ UNCHANGED <<upqs, lastport, msg, io>>

RepeatDatagram ==
    /\ Fault("repeat")
    /\ \E d \in net : Delivered(d)
    /\ UNCHANGED <<lastport, io, net>>

ReadStep(u) == \/ ReadCheck(u) \/ ReadArm(u) \/ ReadWake(u) \/ ReadLate(u)
               \/ ReadReceive(u)

\* busy[s] are the ports that other processes of a system have.
DatagramsInit(busy) ==
    /\ upqs = [s \in Systems |->
                 [i \in 1..UPPS |->
                    IF i > Len(busy[s]) THEN FreeEntry
                    ELSE [FreeEntry EXCEPT !.state = "valid", !.port = busy[s][i]]]]
    /\ lastport = [s \in Systems |-> ULPORT]
    /\ msg = {}
    /\ io = [u \in Users |-> NoCall]
    /\ net = {}
=============================================================================
