------------------------------- MODULE Messaging -------------------------------
(***************************************************************************)
(* Ports and buffer pools together, the way the datagram code uses them:   *)
(* a message is a buffer, which the sender gives up when the port takes it *)
(* and the receiver owns from then on, and freebuf is the dispose function *)
(* of preset and pdelete.  A workload says which calls happen, with which  *)
(* arguments mkpool and pcreate are called, and how many ports are in use  *)
(* at once.                                                                *)
(***************************************************************************)
EXTENDS Pools, Ports

CONSTANTS Workloads

VARIABLES load

vars == <<semVars, poolVars, portVars, pc, load>>

AllCalls == {"pools", "ports", "kill"}
ASSUME MessagingAssumption ==
    \A w \in Workloads : w \in [calls : SUBSET AllCalls, sizes : SUBSET (Nat \ {0}),
                                caps : SUBSET Caps, atOnce : Nat]

(* Where there are pools, a message is a buffer. *)
ASSUME MessagesAssumption ==
    /\ (\E w \in Workloads : {"pools", "ports"} \subseteq w.calls) => Msgs \subseteq Buffer
    /\ Nobody \notin Proc

Pooled == "pools" \in load.calls

Init == SemInit /\ PoolsInit /\ PortsInit /\ load \in Workloads

-----------------------------------------------------------------------------
(* Who holds a buffer that passes through a port.  Without pools, messages  *)
(* are plain words.                                                         *)

Give(msg, p) ==
    IF Pooled THEN holder' = [holder EXCEPT ![msg] = p] ELSE UNCHANGED holder

poolFixed == <<nbpools, bpnext, bpsem, word, made>>

(* freebuf as the dispose function: it runs with interrupts disabled until  *)
(* its signal reschedules.                                                  *)
Dispose(buf) ==
    IF Pooled
      THEN Relink(word[buf], buf) /\ semaph' = signal(semaph, bpsem[word[buf]])
      ELSE UNCHANGED <<semaph, poolVars>>

MayHold(p, msg) == Pooled => holder[msg] = p

sendStep(p) ==
    \/ \E t \in Port, m \in Msgs :
          /\ MayHold(p, m)
          /\ psend(p, t, m)
          /\ Give(m, Nobody)
          /\ UNCHANGED poolFixed
    \/ \E t \in Port, m \in Msgs :
          /\ MayHold(p, m)
          /\ psendBlock(p, t, m)
          /\ UNCHANGED poolVars
    \/ psendGo(p) /\ Give(pc[p].n, Nobody) /\ UNCHANGED poolFixed
    \/ psendStale(p) /\ UNCHANGED poolVars

receiveStep(p) ==
    \/ \E t \in Port : /\ preceive(p, t)
                       /\ Give(Head(ptq[t]), p)
                       /\ UNCHANGED poolFixed
    \/ \E t \in Port : preceiveBlock(p, t) /\ UNCHANGED poolVars
    \/ /\ preceiveGo(p)
       /\ IF StillValid(pc[p].a, pc[p].seq)
            THEN Give(Head(ptq[pc[p].a]), p) /\ UNCHANGED poolFixed
            ELSE UNCHANGED poolVars

clearStep(p) ==
    \/ \E t \in Port, to \in {"PTFREE", "PTALLOC"} :
          \/ (Pooled => ptq[t] = <<>>) /\ ptclear(p, t, to) /\ UNCHANGED poolVars
          \/ Pooled /\ ptclearDispose(p, t, to) /\ Dispose(ptq[t][1])
    \/ disposeNext(p) /\ Dispose(ptq[pc[p].a][pc[p].n])
    \/ disposeDone(p) /\ UNCHANGED poolVars
    \/ freeReceivers(p) /\ UNCHANGED poolVars
    \/ ptclearEnd(p) /\ UNCHANGED poolVars

PortsStep(p) ==
    \/ /\ NPORTS - Cardinality(FreePorts) < load.atOnce
       /\ \E c \in load.caps : pcreate(p, c) /\ UNCHANGED poolVars
    \/ sendStep(p)
    \/ receiveStep(p)
    \/ clearStep(p)

Next ==
    /\ UNCHANGED load
    /\ \E p \in Proc :
          \/ "pools" \in load.calls /\ PoolsStep(p, load.sizes) /\ UNCHANGED portVars
          \/ "ports" \in load.calls /\ PortsStep(p)
          \/ "kill" \in load.calls /\ kill(p) /\ UNCHANGED <<poolVars, portVars>>

Spec == Init /\ [][Next]_vars

-----------------------------------------------------------------------------

TypeOK ==
    /\ SemTypeOK
    /\ nbpools \in 0 .. NBPOOLS /\ made \in 0 .. NBUFS
    /\ bpnext \in [Pool -> Buffer \union {NULL}]
    /\ ptstate \in [Port -> {"PTFREE", "PTLIMBO", "PTALLOC"}]
    /\ ptseq \in [Port -> 0 .. MaxSeq]
    /\ ptfree \in 0 .. MAXMSGS
    /\ ptnextp \in Port

(* The links of every pool come to an end, in a list of its own length.     *)
LinksEnd == \A i \in Pool : \E l \in Lists : IsFreeList(i, l)

(* A message of a port that dispose has not been given yet; a port whose    *)
(* clearing process was killed is not emptied any more.                     *)
Undisposed(t, k) ==
    /\ k \in 1 .. Len(ptq[t])
    /\ \/ ptstate[t] = "PTALLOC"
       \/ \E p \in Proc : pc[p].at = "dispose" /\ pc[p].a = t /\ pc[p].n <= k

(* The places where a buffer is: on free lists, in ports, with a process.   *)
Listed(b) == {x \in Pool \X (1 .. NBUFS) :
                x[2] <= Len(FreeList(x[1])) /\ FreeList(x[1])[x[2]] = b}
Posted(b) == {x \in Port \X (1 .. MAXMSGS) : Undisposed(x[1], x[2]) /\ ptq[x[1]][x[2]] = b}
Held(b) == {holder[b]} \ {Nobody}

(* Every buffer is in exactly one place: once on the free list of its pool, *)
(* or once in a port, or with one process; whatever runs between the        *)
(* semaphore, the list and the first word (getbuf.c:24-29, freebuf.c:22-29),*)
(* and whoever sends, receives or clears meanwhile.  The kill of a process  *)
(* that is clearing a port loses what it had yet to dispose of.             *)
BufferInOnePlace ==
    Pooled => \A b \in 1 .. made :
        LET places == Cardinality(Listed(b)) + Cardinality(Posted(b)) + Cardinality(Held(b))
        IN /\ places <= 1
           /\ ~ {"ports", "kill"} \subseteq load.calls => places = 1

(* A process that wait() let through finds a buffer: the list never runs    *)
(* out before the semaphore does (getbuf.c:24-27).  Without kills the two   *)
(* differ only by the processes between the semaphore and the list, so      *)
(* nobody waits while a buffer is free.  mkpool does not look at what screate *)
(* returned: a pool that got no semaphore keeps none of this.               *)
PoolCountsBuffers ==
    \A i \in {j \in 0 .. nbpools - 1 : bpsem[j] # SYSERR} :
        LET free == Len(FreeList(i))
            promised == Positive(scount(bpsem[i])) + Cardinality(Granted(i))
        IN /\ free >= promised
           /\ "kill" \notin load.calls => free = promised + Cardinality(Releasing(i))

(* Buffers and the semaphores of their pools, together. *)
PoolsAccounted == TypeOK /\ LinksEnd /\ BufferInOnePlace /\ PoolCountsBuffers

(* In an open port, the receivers' semaphore and the receivers it let       *)
(* through account for the messages, and the senders' semaphore and the     *)
(* senders it let through for the rest of the capacity: nobody takes from   *)
(* an empty port or waits at one that is not full, whatever was cleared or  *)
(* re-created while they waited.  A kill loses what the victim was granted; *)
(* pcreate does not look at what screate returned                           *)
(* (psend.c:33-52, preceive.c:33-50, ptclear.c:20-37).                      *)
PortAccounting ==
    \A t \in {u \in Port : /\ ptstate[u] = "PTALLOC"
                          /\ ptssem[u] # SYSERR /\ ptrsem[u] # SYSERR} :
        LET toTake == Positive(scount(ptrsem[t])) + Cardinality(GrantedAt("preceive", t))
            toSend == Positive(scount(ptssem[t])) + Cardinality(GrantedAt("psend", t))
        IN /\ toTake <= Len(ptq[t])
           /\ toSend + Len(ptq[t]) <= ptmaxcnt[t]
           /\ "kill" \notin load.calls =>
                 toTake = Len(ptq[t]) /\ toSend + Len(ptq[t]) = ptmaxcnt[t]

(* Message nodes are neither lost nor linked twice, so as long as the       *)
(* capacities fit in MAXMSGS psend never panics (psend.c:40, ptclear.c:26). *)
Nodes == UNION {{t} \X (1 .. Len(ptq[t])) : t \in Port}
NodesConserved == ptfree + Cardinality(Nodes) = MAXMSGS

(* Messages, the semaphores of their ports and the nodes they take, together. *)
PortsAccounted == PortAccounting /\ NodesConserved

(* Ports implement Mailbox: bounded FIFO delivery, each message once.       *)
ImplementsMailbox == M!MailboxSpec
===============================================================================
