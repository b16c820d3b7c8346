--------------------------- MODULE MessagingProofs ---------------------------
(***************************************************************************)
(* What ports and pools promise, for any number of processes, semaphores,  *)
(* ports, pools, buffers and message nodes, and any workload: an inductive *)
(* invariant of Messaging, from which buffers and messages are accounted   *)
(* for and every port is a Mailbox.                                        *)
(*                                                                         *)
(* The invariant says who may still refer to a semaphore (its owner), why  *)
(* whoever waits at it has come, and that what it promises - its count,    *)
(* and the processes it let through that have not run - is what there is   *)
(* to take: messages, room for messages, buffers on the free list.         *)
(***************************************************************************)
EXTENDS Messaging, SemaphoreLemmas

-----------------------------------------------------------------------------
(* What the processes are doing *)

Clearing(p, t) == pc[p].at \in {"dispose", "freeReceivers", "ptclearEnd"} /\ pc[p].a = t
Places == {"user", "dead", "unlink", "stamp", "relink", "release",
           "psend", "preceive", "dispose", "freeReceivers", "ptclearEnd"}

(* The processes that came for a port as it is now, or for a pool. *)
Comers(place, t) == {p \in Proc : pc[p].at = place /\ pc[p].a = t /\ pc[p].seq = ptseq[t]}
Takers(i) == {p \in Proc : pc[p].at = "unlink" /\ pc[p].a = i}
Freers(i) == {p \in Proc : pc[p].at = "release" /\ pc[p].a = i}

Types ==
    /\ nextsem \in Sem
    /\ pc = [p \in Proc |-> pc[p]]
    /\ \A p \in Proc : pc[p].at \in Places
    /\ nbpools \in 0 .. NBPOOLS
    /\ made \in 0 .. NBUFS
    /\ bpnext \in [Pool -> Buffer \cup {NULL}]
    /\ bpsem \in [Pool -> Sem \cup {SYSERR}]
    /\ word \in [Buffer -> Int]
    /\ holder \in [Buffer -> Proc \cup {Nobody}]
    /\ ptstate \in [Port -> {"PTFREE", "PTLIMBO", "PTALLOC"}]
    /\ ptssem \in [Port -> Sem \cup {SYSERR}]
    /\ ptrsem \in [Port -> Sem \cup {SYSERR}]
    /\ ptmaxcnt \in [Port -> Nat]
    /\ ptseq \in [Port -> 0 .. MaxSeq]
    /\ ptq \in [Port -> Seq(Msgs)]
    /\ ptfree \in Nat
    /\ ptnextp \in Port
    /\ load \in Workloads

(* A port is cleared by one process, which has emptied it when it is past   *)
(* dispose; a port that is not in use is empty.                             *)
ClearInv ==
    /\ \A p \in Proc : pc[p].at \in {"dispose", "freeReceivers", "ptclearEnd"} =>
          /\ "ports" \in load.calls
          /\ pc[p].a \in Port /\ ptstate[pc[p].a] = "PTLIMBO"
          /\ pc[p].to \in {"PTFREE", "PTALLOC"}
          /\ pc[p].at = "dispose" => pc[p].n \in Nat \ {0} 
          /\ pc[p].at # "dispose" => ptq[pc[p].a] = <<>>
    /\ \A p, q \in Proc : \A t \in Port : Clearing(p, t) /\ Clearing(q, t) => p = q
    /\ \A t \in Port : ptstate[t] = "PTFREE" => ptq[t] = <<>>
    /\ \A t \in Port : ptstate[t] # "PTFREE" => ptmaxcnt[t] \in Caps

(* ptseq tells the callers of the port as it is now from the earlier ones. *)
SeqInv ==
    \A p \in Proc : pc[p].at \in {"psend", "preceive"} =>
       LET t == pc[p].a
       IN /\ t \in Port
          /\ pc[p].seq \in 0 .. ptseq[t]
          /\ pc[p].seq = ptseq[t] =>
                /\ ptstate[t] = "PTALLOC"
                /\ pc[p].at = "psend" => ptssem[t] # SYSERR
                /\ pc[p].at = "preceive" => ptrsem[t] # SYSERR
          /\ pc[p].at = "psend" => pc[p].n \in Msgs

(* The semaphores that the system still refers to. *)
SLive(t) ==
    /\ ptssem[t] # SYSERR
    /\ \/ ptstate[t] = "PTALLOC"
       \/ \E p \in Proc : Clearing(p, t) /\ (pc[p].at = "dispose" \/ pc[p].to = "PTALLOC")
RLive(t) ==
    /\ ptrsem[t] # SYSERR
    /\ \/ ptstate[t] = "PTALLOC"
       \/ \E p \in Proc : Clearing(p, t) /\ (pc[p].at # "ptclearEnd" \/ pc[p].to = "PTALLOC")
PLive(i) == i < nbpools /\ bpsem[i] # SYSERR

OwnUsed ==
    /\ \A t \in Port : SLive(t) => semaph[ptssem[t]].used
    /\ \A t \in Port : RLive(t) => semaph[ptrsem[t]].used
    /\ \A i \in Pool : PLive(i) => semaph[bpsem[i]].used

OwnApart ==
    /\ \A t, u \in Port : SLive(t) /\ SLive(u) /\ ptssem[t] = ptssem[u] => t = u
    /\ \A t, u \in Port : RLive(t) /\ RLive(u) /\ ptrsem[t] = ptrsem[u] => t = u
    /\ \A i, j \in Pool : PLive(i) /\ PLive(j) /\ bpsem[i] = bpsem[j] => i = j
    /\ \A t, u \in Port : SLive(t) /\ RLive(u) => ptssem[t] # ptrsem[u]
    /\ \A t \in Port, i \in Pool : SLive(t) /\ PLive(i) => ptssem[t] # bpsem[i]
    /\ \A t \in Port, i \in Pool : RLive(t) /\ PLive(i) => ptrsem[t] # bpsem[i]

(* Who waits at a semaphore came for what it guards. *)
CalledAt(p, place, t) ==
    /\ pc[p].at = place /\ pc[p].a = t
    /\ ptstate[t] = "PTALLOC" => pc[p].seq = ptseq[t]

WaitInv ==
    \A p \in Proc, s \in Sem : p \in Waiting(semaph, s) =>
       /\ pc[p].at \in {"psend", "preceive", "unlink"}
       /\ \A t \in Port : SLive(t) /\ ptssem[t] = s => CalledAt(p, "psend", t)
       /\ \A t \in Port : RLive(t) /\ ptrsem[t] = s => CalledAt(p, "preceive", t)
       /\ \A i \in Pool : PLive(i) /\ bpsem[i] = s => pc[p].at = "unlink" /\ pc[p].a = i

Killing == "kill" \in load.calls

SendAccount(t) ==
    LET promised == Promise(semaph, ptssem[t], Comers("psend", t))
    IN /\ promised + Len(ptq[t]) <= ptmaxcnt[t]
       /\ ~ Killing => promised + Len(ptq[t]) = ptmaxcnt[t]
TakeAccount(t) ==
    LET promised == Promise(semaph, ptrsem[t], Comers("preceive", t))
    IN /\ promised <= Len(ptq[t])
       /\ ~ Killing => promised = Len(ptq[t])

(* A preset that has reset a semaphore finds it so when it ends. *)
ResetInv ==
    \A p \in Proc : pc[p].to = "PTALLOC" =>
       /\ pc[p].at \in {"freeReceivers", "ptclearEnd"} /\ ptssem[pc[p].a] # SYSERR =>
             semaph[ptssem[pc[p].a]].cnt = ptmaxcnt[pc[p].a]
       /\ pc[p].at = "ptclearEnd" /\ ptrsem[pc[p].a] # SYSERR =>
             semaph[ptrsem[pc[p].a]].cnt = 0

NodesInv == IsFiniteSet(Nodes) /\ NodesConserved

PortsInv ==
    /\ \A t \in Port : ptstate[t] = "PTALLOC" /\ ptssem[t] # SYSERR => SendAccount(t)
    /\ \A t \in Port : ptstate[t] = "PTALLOC" /\ ptrsem[t] # SYSERR => TakeAccount(t)
    /\ ResetInv
    /\ NodesInv

-----------------------------------------------------------------------------
(* Buffers *)

PoolPlaces ==
    \A p \in Proc :
       /\ pc[p].at \in {"unlink", "stamp", "relink", "release"} => pc[p].a \in 0 .. nbpools - 1
       /\ pc[p].at \in {"stamp", "relink"} => pc[p].n \in Buffer /\ holder[pc[p].n] = p
       /\ Pooled /\ pc[p].at = "psend" => pc[p].n \in Buffer /\ holder[pc[p].n] = p

InPort(b) == \E t \in Port : \E k \in 1 .. Len(ptq[t]) : Undisposed(t, k) /\ ptq[t][k] = b

PoolsBasic ==
    /\ ~ Pooled => made = 0 /\ nbpools = 0
    /\ \A i \in Pool : i >= nbpools => bpnext[i] = NULL
    /\ \A b \in Buffer : holder[b] # Nobody => b <= made

(* A message is a buffer that nobody holds and that knows its pool; it is   *)
(* in one port only, once.                                                  *)
PostedInv ==
    Pooled =>
    /\ \A t \in Port : \A k \in 1 .. Len(ptq[t]) : Undisposed(t, k) =>
          /\ ptq[t][k] \in Buffer /\ ptq[t][k] <= made
          /\ holder[ptq[t][k]] = Nobody
          /\ word[ptq[t][k]] \in 0 .. nbpools - 1
    /\ \A t, u \in Port : \A k \in 1 .. Len(ptq[t]), j \in 1 .. Len(ptq[u]) :
          Undisposed(t, k) /\ Undisposed(u, j) /\ ptq[t][k] = ptq[u][j] => t = u /\ k = j

(* So does a buffer that a process holds, once it is stamped. *)
Stamped(b) ==
    \/ word[b] \in 0 .. nbpools - 1
    \/ pc[holder[b]].at = "dead"
    \/ pc[holder[b]].at = "stamp" /\ pc[holder[b]].n = b
HeldInv == \A b \in Buffer : holder[b] \in Proc => Stamped(b)

BufferInv == PoolsBasic /\ PostedInv /\ HeldInv

(* L is the free list of every pool: the lists share no buffer, and hold    *)
(* those that neither a process nor a port has; and the semaphores of the   *)
(* pools promise what is there.                                             *)
Loose(b) == holder[b] = Nobody /\ ~ (Pooled /\ InPort(b))
OnList(L, b) == \E i \in Pool : \E k \in 1 .. Len(L[i]) : L[i][k] = b

Chains(L) ==
    /\ L \in [Pool -> Seq(Buffer)]
    /\ \A i \in Pool : IsFreeList(i, L[i])
    /\ \A i, j \in Pool : \A k \in 1 .. Len(L[i]), m \in 1 .. Len(L[j]) :
          L[i][k] = L[j][m] => i = j /\ k = m

Members(L) ==
    /\ \A b \in Buffer : OnList(L, b) => b <= made /\ Loose(b)
    /\ ~ {"ports", "kill"} \subseteq load.calls =>
          \A b \in Buffer : b <= made /\ Loose(b) => OnList(L, b)

PoolAccount(L, i) ==
    LET promised == Promise(semaph, bpsem[i], Takers(i)) + Cardinality(Freers(i))
    IN /\ promised <= Len(L[i])
       /\ ~ Killing => promised = Len(L[i])

FreeLists(L) == Chains(L) /\ Members(L) /\ \A i \in Pool : PLive(i) => PoolAccount(L, i)
PoolsInv == \E L : FreeLists(L)

IInv == /\ Types /\ TableOK(semaph) /\ ClearInv /\ SeqInv /\ OwnUsed /\ OwnApart /\ WaitInv
        /\ PortsInv /\ PoolPlaces /\ BufferInv /\ PoolsInv

-----------------------------------------------------------------------------
(* Frames *)

PoolAt == {"user", "unlink", "stamp", "relink", "release"}
CallAt == {"user", "psend", "preceive"}
ClearAt == {"dispose", "freeReceivers", "ptclearEnd"}

(* The fields of a frame. *)
LEMMA FrameFields ==
    ASSUME NEW place, NEW a, NEW n, NEW seq, NEW to
    PROVE  /\ Frame(place, a, n, seq, to).at = place
           /\ Frame(place, a, n, seq, to).a = a
           /\ Frame(place, a, n, seq, to).n = n
           /\ Frame(place, a, n, seq, to).seq = seq
           /\ Frame(place, a, n, seq, to).to = to
BY DEF Frame

(* p, and only p, goes to k. *)
Moves(p, k) ==
    /\ pc' = [q \in Proc |-> pc'[q]]
    /\ pc'[p] = k
    /\ \A q \in Proc : q # p => pc'[q] = pc[q]

(* Only one process moves in a step, or none does. *)
LEMMA GotoMoves ==
    ASSUME Types, NEW p \in Proc, NEW k, Goto(p, k)
    PROVE  Moves(p, k)
<1>1. pc = [q \in Proc |-> pc[q]] /\ pc' = [pc EXCEPT ![p] = k]
  BY DEF Types, Goto
<1> QED BY <1>1 DEF Moves

LEMMA StaysMoves ==
    ASSUME Types, NEW p \in Proc, UNCHANGED pc
    PROVE  Moves(p, pc[p])
BY DEF Types, Moves

(* A process runs when it waits at no semaphore. *)
LEMMA RunsUnqueued ==
    ASSUME TableOK(semaph), NEW p \in Proc
    PROVE  /\ Runs(p) <=> p \in Unqueued(semaph)
           /\ \A s \in Sem : Range(semaph[s].queue) = Waiting(semaph, s)
<1>1. \A s \in Sem : Range(semaph[s].queue) = Waiting(semaph, s)
  BY DEF TableOK, SemRec, Range, Waiting
<1> QED BY <1>1 DEF Runs, Queued, Unqueued

(* A process that is in none of the calls that wait is not waiting. *)
LEMMA UserUnqueued ==
    ASSUME TableOK(semaph), WaitInv, NEW p \in Proc,
           pc[p].at \notin {"psend", "preceive", "unlink"}
    PROVE  p \in Unqueued(semaph)
BY DEF WaitInv, Unqueued

(* A step within the pools changes nothing of the ports. *)
LEMMA PoolStepPlaces ==
    ASSUME Types, ClearInv, SeqInv, NEW p \in Proc, NEW k, Moves(p, k),
           pc[p].at \in PoolAt, k.at \in PoolAt, UNCHANGED <<portVars, load>>
    PROVE  /\ ClearInv' /\ SeqInv'
           /\ \A t \in Port : /\ SLive(t)' = SLive(t)
                              /\ RLive(t)' = RLive(t)
                              /\ Comers("psend", t)' = Comers("psend", t)
                              /\ Comers("preceive", t)' = Comers("preceive", t)
                              /\ \A j : Undisposed(t, j)' = Undisposed(t, j)
           /\ \A b : InPort(b)' = InPort(b)
<1>1. UNCHANGED <<ptstate, ptssem, ptrsem, ptmaxcnt, ptseq, ptq>>
  BY DEF portVars
<1>2. \A q \in Proc : pc'[q].at \notin PoolAt \/ pc[q].at \notin PoolAt => pc'[q] = pc[q]
  BY DEF Moves
<1>3. \A q \in Proc : \A t \in Port : Clearing(q, t)' = Clearing(q, t)
  BY <1>2 DEF Clearing, PoolAt
<1>4. ClearInv'
  <2>1. \A q \in Proc : pc'[q].at \in {"dispose", "freeReceivers", "ptclearEnd"} => pc'[q] = pc[q]
    BY <1>2 DEF PoolAt
  <2> QED BY <2>1, <1>1, <1>3 DEF ClearInv
<1>5. SeqInv'
  <2>1. \A q \in Proc : pc'[q].at \in {"psend", "preceive"} => pc'[q] = pc[q]
    BY <1>2 DEF PoolAt
  <2> QED BY <2>1, <1>1 DEF SeqInv
<1>6. ASSUME NEW t \in Port
      PROVE  SLive(t)' = SLive(t) /\ RLive(t)' = RLive(t)
  <2>1. \A q \in Proc : Clearing(q, t) => pc'[q] = pc[q]
    BY <1>2 DEF Clearing, PoolAt
  <2> QED BY <2>1, <1>1, <1>3 DEF SLive, RLive
<1>7. ASSUME NEW t \in Port
      PROVE  /\ Comers("psend", t)' = Comers("psend", t)
             /\ Comers("preceive", t)' = Comers("preceive", t)
  <2>1. \A q \in Proc : (\/ pc'[q].at \in {"psend", "preceive"}
                         \/ pc[q].at \in {"psend", "preceive"}) => pc'[q] = pc[q]
    BY <1>2 DEF PoolAt
  <2> QED BY <2>1, <1>1 DEF Comers
<1>8. \A t \in Port : \A j : Undisposed(t, j)' = Undisposed(t, j)
  <2>1. \A q \in Proc : pc'[q].at = "dispose" \/ pc[q].at = "dispose" => pc'[q] = pc[q]
    BY <1>2 DEF PoolAt
  <2> QED BY <2>1, <1>1 DEF Undisposed
<1>9. \A b : InPort(b)' = InPort(b)
  BY <1>1, <1>8 DEF InPort
<1> QED BY <1>4, <1>5, <1>6, <1>7, <1>8, <1>9

(* What the ports' accounts are about when a step does not touch a port. *)
SamePort(t) ==
    /\ ptstate'[t] = ptstate[t] /\ ptssem'[t] = ptssem[t] /\ ptrsem'[t] = ptrsem[t]
    /\ ptmaxcnt'[t] = ptmaxcnt[t] /\ ptseq'[t] = ptseq[t]

(* The account of a port stays if neither the port nor the promise changes. *)
LEMMA SendAccountSame ==
    ASSUME NEW t \in Port, SamePort(t), UNCHANGED load,
           Len(ptq'[t]) = Len(ptq[t]),
           Promise(semaph, ptssem[t], Comers("psend", t))'
              = Promise(semaph, ptssem[t], Comers("psend", t)),
           SendAccount(t)
    PROVE  SendAccount(t)'
BY DEF SendAccount, SamePort, Killing

LEMMA TakeAccountSame ==
    ASSUME NEW t \in Port, SamePort(t), UNCHANGED load,
           Len(ptq'[t]) = Len(ptq[t]),
           Promise(semaph, ptrsem[t], Comers("preceive", t))'
              = Promise(semaph, ptrsem[t], Comers("preceive", t)),
           TakeAccount(t)
    PROVE  TakeAccount(t)'
BY DEF TakeAccount, SamePort, Killing

(* Semaphore s is not one that a port still refers to. *)
NotOfPort(s) == \A t \in Port : (SLive(t) => ptssem[t] # s) /\ (RLive(t) => ptrsem[t] # s)

(* Those who are in a call of a port wait as before. *)
CallersWaitAsBefore ==
    \A q \in Proc : pc[q].at \in {"psend", "preceive"} =>
       (q \in Unqueued(semaph') <=> q \in Unqueued(semaph))

(* Then the callers let through are the same. *)
LEMMA ComersUnqueuedSame ==
    ASSUME CallersWaitAsBefore, NEW t \in Port, NEW place \in {"psend", "preceive"}
    PROVE  Comers(place, t) \cap Unqueued(semaph') = Comers(place, t) \cap Unqueued(semaph)
BY DEF CallersWaitAsBefore, Comers

(* A step within the pools keeps the accounts of the ports. *)
LEMMA PoolStepPorts ==
    ASSUME Types, ClearInv, SeqInv, PortsInv, NEW p \in Proc, NEW k, Moves(p, k),
           pc[p].at \in PoolAt, k.at \in PoolAt, UNCHANGED <<portVars, load>>,
           NEW s, NotOfPort(s), \A u \in Sem : u # s => semaph'[u] = semaph[u],
           CallersWaitAsBefore
    PROVE  PortsInv'
<1>1. /\ UNCHANGED <<ptstate, ptssem, ptrsem, ptmaxcnt, ptseq, ptq, ptfree>>
      /\ \A t \in Port : SamePort(t)
  BY DEF portVars, SamePort
<1>2. \A t \in Port : /\ Comers("psend", t)' = Comers("psend", t)
                      /\ Comers("preceive", t)' = Comers("preceive", t)
  BY PoolStepPlaces
<1>3. ASSUME NEW t \in Port, ptstate'[t] = "PTALLOC", ptssem'[t] # SYSERR
      PROVE  SendAccount(t)'
  <2>1. SLive(t) /\ ptssem[t] \in Sem /\ SendAccount(t)
    BY <1>1, <1>3 DEF SLive, Types, PortsInv
  <2>2. semaph'[ptssem[t]].cnt = semaph[ptssem[t]].cnt
    BY <2>1 DEF NotOfPort
  <2>3. Promise(semaph', ptssem[t], Comers("psend", t)) = Promise(semaph, ptssem[t], Comers("psend", t))
    BY <2>2, ComersUnqueuedSame, PromiseSame
  <2> QED BY <2>1, <2>3, <1>1, <1>2, SendAccountSame
<1>4. ASSUME NEW t \in Port, ptstate'[t] = "PTALLOC", ptrsem'[t] # SYSERR
      PROVE  TakeAccount(t)'
  <2>1. RLive(t) /\ ptrsem[t] \in Sem /\ TakeAccount(t)
    BY <1>1, <1>4 DEF RLive, Types, PortsInv
  <2>2. semaph'[ptrsem[t]].cnt = semaph[ptrsem[t]].cnt
    BY <2>1 DEF NotOfPort
  <2>3. Promise(semaph', ptrsem[t], Comers("preceive", t)) = Promise(semaph, ptrsem[t], Comers("preceive", t))
    BY <2>2, ComersUnqueuedSame, PromiseSame
  <2> QED BY <2>1, <2>3, <1>1, <1>2, TakeAccountSame
<1>5. ResetInv'
  <2> SUFFICES ASSUME NEW q \in Proc, pc'[q].to = "PTALLOC",
                      pc'[q].at \in {"freeReceivers", "ptclearEnd"}
               PROVE  /\ ptssem'[pc'[q].a] # SYSERR =>
                            semaph'[ptssem'[pc'[q].a]].cnt = ptmaxcnt'[pc'[q].a]
                      /\ pc'[q].at = "ptclearEnd" /\ ptrsem'[pc'[q].a] # SYSERR =>
                            semaph'[ptrsem'[pc'[q].a]].cnt = 0
    BY DEF ResetInv
  <2>1. pc'[q] = pc[q]
    BY DEF Moves, PoolAt
  <2> DEFINE t == pc[q].a
  <2>2. t \in Port /\ Clearing(q, t)
    BY <2>1 DEF ClearInv, Clearing
  <2>3. ptssem[t] # SYSERR => SLive(t) /\ ptssem[t] \in Sem
    BY <2>1, <2>2 DEF SLive, Types
  <2>4. ptrsem[t] # SYSERR => RLive(t) /\ ptrsem[t] \in Sem
    BY <2>1, <2>2 DEF RLive, Types
  <2>5. /\ ptssem[t] # SYSERR => semaph'[ptssem[t]] = semaph[ptssem[t]]
        /\ ptrsem[t] # SYSERR => semaph'[ptrsem[t]] = semaph[ptrsem[t]]
    BY <2>2, <2>3, <2>4 DEF NotOfPort
  <2>6. /\ ptssem[t] # SYSERR => semaph[ptssem[t]].cnt = ptmaxcnt[t]
        /\ pc[q].at = "ptclearEnd" /\ ptrsem[t] # SYSERR => semaph[ptrsem[t]].cnt = 0
    BY <2>1 DEF PortsInv, ResetInv
  <2> QED BY <2>1, <2>5, <2>6, <1>1
<1>6. NodesInv'
  BY <1>1 DEF PortsInv, NodesInv, NodesConserved, Nodes
<1> QED BY <1>3, <1>4, <1>5, <1>6 DEF PortsInv
(* Who owns a semaphore *)

(* Owners that keep their semaphores in use stay owners, and apart. *)
LEMMA OwnersKeep ==
    ASSUME OwnUsed, OwnApart,
           \A t \in Port : SLive(t)' =>
              SLive(t) /\ ptssem'[t] = ptssem[t] /\ semaph'[ptssem[t]].used,
           \A t \in Port : RLive(t)' =>
              RLive(t) /\ ptrsem'[t] = ptrsem[t] /\ semaph'[ptrsem[t]].used,
           \A i \in Pool : PLive(i)' =>
              PLive(i) /\ bpsem'[i] = bpsem[i] /\ semaph'[bpsem[i]].used
    PROVE  OwnUsed' /\ OwnApart'
<1>1. OwnUsed'
  BY DEF OwnUsed
<1>2. OwnApart'
  BY DEF OwnApart
<1> QED BY <1>1, <1>2

(* Who waited for what a semaphore guards still does. *)
LEMMA WaitersKeep ==
    ASSUME WaitInv, NEW p \in Proc, NEW k, Moves(p, k),
           \A u \in Sem : Waiting(semaph', u) \subseteq Waiting(semaph, u) \ {p},
           \A t \in Port : SLive(t)' =>
              \/ Waiting(semaph', ptssem'[t]) = {}
              \/ /\ SLive(t) /\ ptssem'[t] = ptssem[t] /\ ptssem[t] \in Sem
                 /\ ptstate'[t] = "PTALLOC" => ptstate[t] = "PTALLOC" /\ ptseq'[t] = ptseq[t],
           \A t \in Port : RLive(t)' =>
              \/ Waiting(semaph', ptrsem'[t]) = {}
              \/ /\ RLive(t) /\ ptrsem'[t] = ptrsem[t] /\ ptrsem[t] \in Sem
                 /\ ptstate'[t] = "PTALLOC" => ptstate[t] = "PTALLOC" /\ ptseq'[t] = ptseq[t],
           \A i \in Pool : PLive(i)' =>
              \/ Waiting(semaph', bpsem'[i]) = {}
              \/ PLive(i) /\ bpsem'[i] = bpsem[i] /\ bpsem[i] \in Sem
    PROVE  WaitInv'
<1> SUFFICES ASSUME NEW q \in Proc, NEW s \in Sem, q \in Waiting(semaph', s)
             PROVE  /\ pc'[q].at \in {"psend", "preceive", "unlink"}
                    /\ \A t \in Port : SLive(t)' /\ ptssem'[t] = s => CalledAt(q, "psend", t)'
                    /\ \A t \in Port : RLive(t)' /\ ptrsem'[t] = s => CalledAt(q, "preceive", t)'
                    /\ \A i \in Pool : PLive(i)' /\ bpsem'[i] = s =>
                          pc'[q].at = "unlink" /\ pc'[q].a = i
  BY DEF WaitInv
<1>1. q \in Waiting(semaph, s) /\ pc'[q] = pc[q]
  BY DEF Moves
<1>2. pc[q].at \in {"psend", "preceive", "unlink"}
  BY <1>1 DEF WaitInv
<1>3. ASSUME NEW t \in Port, SLive(t)', ptssem'[t] = s
      PROVE  CalledAt(q, "psend", t)'
  <2>1. /\ SLive(t) /\ ptssem[t] = s
        /\ ptstate'[t] = "PTALLOC" => ptstate[t] = "PTALLOC" /\ ptseq'[t] = ptseq[t]
    BY <1>3
  <2>2. CalledAt(q, "psend", t)
    BY <1>1, <2>1 DEF WaitInv
  <2> QED BY <1>1, <2>1, <2>2 DEF CalledAt
<1>4. ASSUME NEW t \in Port, RLive(t)', ptrsem'[t] = s
      PROVE  CalledAt(q, "preceive", t)'
  <2>1. /\ RLive(t) /\ ptrsem[t] = s
        /\ ptstate'[t] = "PTALLOC" => ptstate[t] = "PTALLOC" /\ ptseq'[t] = ptseq[t]
    BY <1>4
  <2>2. CalledAt(q, "preceive", t)
    BY <1>1, <2>1 DEF WaitInv
  <2> QED BY <1>1, <2>1, <2>2 DEF CalledAt
<1>5. ASSUME NEW i \in Pool, PLive(i)', bpsem'[i] = s
      PROVE  pc'[q].at = "unlink" /\ pc'[q].a = i
  <2>1. PLive(i) /\ bpsem[i] = s
    BY <1>5
  <2> QED BY <1>1, <2>1 DEF WaitInv
<1> QED BY <1>1, <1>2, <1>3, <1>4, <1>5

(* The other way round: a process joins those who wait at s. *)
LEMMA WaitersJoin ==
    ASSUME WaitInv, NEW p \in Proc, NEW k, Moves(p, k), NEW s \in Sem,
           k.at \in {"psend", "preceive", "unlink"},
           \A u \in Sem : u # s => Waiting(semaph', u) \subseteq Waiting(semaph, u) \ {p},
           Waiting(semaph', s) \subseteq Waiting(semaph, s) \cup {p},
           UNCHANGED <<ptstate, ptssem, ptrsem, ptseq, bpsem, nbpools>>,
           \A t \in Port : SLive(t)' = SLive(t) /\ RLive(t)' = RLive(t),
           \A t \in Port : SLive(t) /\ ptssem[t] = s => CalledAt(p, "psend", t)',
           \A t \in Port : RLive(t) /\ ptrsem[t] = s => CalledAt(p, "preceive", t)',
           \A i \in Pool : PLive(i) /\ bpsem[i] = s => k.at = "unlink" /\ k.a = i
    PROVE  WaitInv'
<1> SUFFICES ASSUME NEW q \in Proc, NEW u \in Sem, q \in Waiting(semaph', u)
             PROVE  /\ pc'[q].at \in {"psend", "preceive", "unlink"}
                    /\ \A t \in Port : SLive(t)' /\ ptssem'[t] = u => CalledAt(q, "psend", t)'
                    /\ \A t \in Port : RLive(t)' /\ ptrsem'[t] = u => CalledAt(q, "preceive", t)'
                    /\ \A i \in Pool : PLive(i)' /\ bpsem'[i] = u =>
                          pc'[q].at = "unlink" /\ pc'[q].a = i
  BY DEF WaitInv
<1>1. \A i \in Pool : PLive(i)' = PLive(i)
  BY DEF PLive
<1>2. CASE q = p
  <2>1. u = s
    BY <1>2
  <2>2. pc'[q] = k
    BY <1>2 DEF Moves
  <2> QED BY <1>1, <1>2, <2>1, <2>2
<1>3. CASE q # p
  <2>1. q \in Waiting(semaph, u) /\ pc'[q] = pc[q]
    BY <1>3 DEF Moves
  <2>2. \A place \in {"psend", "preceive"} : \A t \in Port :
           CalledAt(q, place, t) => CalledAt(q, place, t)'
    BY <2>1 DEF CalledAt
  <2> QED BY <1>1, <2>1, <2>2 DEF WaitInv
<1> QED BY <1>2, <1>3

(* A pool's semaphore is its own. *)
LEMMA PoolSemaphore ==
    ASSUME Types, OwnUsed, OwnApart, NEW i \in Pool, i < nbpools
    PROVE  /\ NotOfPort(bpsem[i])
           /\ \/ bpsem[i] = SYSERR /\ ~ Used(semaph, bpsem[i])
              \/ PLive(i) /\ bpsem[i] \in Sem /\ semaph[bpsem[i]].used /\ Used(semaph, bpsem[i])
<1>1. SYSERR \notin Sem
  BY SemaphoresAssumption DEF SYSERR, Sem
<1>2. bpsem[i] \in Sem \cup {SYSERR}
  BY DEF Types
<1>3. NotOfPort(bpsem[i])
  <2>1. CASE bpsem[i] = SYSERR
    BY <2>1 DEF NotOfPort, SLive, RLive
  <2>2. CASE bpsem[i] # SYSERR
    BY <2>2 DEF PLive, OwnApart, NotOfPort
  <2> QED BY <2>1, <2>2
<1> QED BY <1>1, <1>2, <1>3 DEF PLive, OwnUsed, Used
(* The free lists *)

(* The account of a pool stays if neither its list's length nor its promise changes. *)
LEMMA PoolAccountSame ==
    ASSUME NEW L, NEW L2, NEW i, Len(L2[i]) = Len(L[i]),
           bpsem'[i] = bpsem[i], UNCHANGED load,
           Promise(semaph', bpsem[i], Takers(i)') = Promise(semaph, bpsem[i], Takers(i)),
           Freers(i)' = Freers(i), PoolAccount(L, i)
    PROVE  PoolAccount(L2, i)'
BY DEF PoolAccount, Killing

(* The free lists are as they were if no link and no holder changes. *)
LEMMA ListsSame ==
    ASSUME NEW L, FreeLists(L), UNCHANGED <<nbpools, bpnext, bpsem, word, made, load>>,
           \A b \in Buffer : Loose(b)' = Loose(b),
           \A i \in Pool : PLive(i) => PoolAccount(L, i)'
    PROVE  FreeLists(L)'
<1>1. Chains(L)'
  BY DEF FreeLists, Chains, IsFreeList
<1>2. Members(L)'
  BY DEF FreeLists, Members, OnList
<1>3. \A i \in Pool : PLive(i)' => PoolAccount(L, i)'
  BY DEF PLive
<1> QED BY <1>1, <1>2, <1>3 DEF FreeLists

(* A step that leaves every buffer where it is. *)
LEMMA BuffersStay ==
    ASSUME BufferInv, UNCHANGED <<poolVars, load>>, NEW p \in Proc, NEW k, Moves(p, k),
           pc[p].at \notin {"dead", "stamp"}, Nobody \notin Proc,
           UNCHANGED ptq, \A t \in Port : \A j : Undisposed(t, j)' = Undisposed(t, j)
    PROVE  /\ BufferInv'
           /\ \A b \in Buffer : Loose(b)' = Loose(b)
<1>1. UNCHANGED <<nbpools, bpnext, bpsem, word, made, holder>> /\ Pooled' = Pooled
  BY DEF poolVars, Pooled
<1>2. PoolsBasic'
  BY <1>1 DEF BufferInv, PoolsBasic
<1>3. PostedInv'
  BY <1>1 DEF BufferInv, PostedInv
<1>4. HeldInv'
  <2> SUFFICES ASSUME NEW b \in Buffer, holder[b] \in Proc
               PROVE  Stamped(b)'
    BY <1>1 DEF HeldInv
  <2>1. Stamped(b)
    BY DEF BufferInv, HeldInv
  <2>2. CASE holder[b] = p
    BY <2>1, <2>2, <1>1 DEF Stamped
  <2>3. CASE holder[b] # p
    BY <2>1, <2>3, <1>1 DEF Stamped, Moves
  <2> QED BY <2>2, <2>3
<1>5. \A b \in Buffer : Loose(b)' = Loose(b)
  <2>1. \A b : InPort(b)' = InPort(b)
    BY DEF InPort
  <2> QED BY <2>1, <1>1 DEF Loose
<1> QED BY <1>2, <1>3, <1>4, <1>5 DEF BufferInv

(* Most steps delete no semaphore and make none. *)
LEMMA OwnersSame ==
    ASSUME Types, OwnUsed, OwnApart, UNCHANGED <<ptssem, ptrsem, bpsem, nbpools>>,
           \A u \in Sem : semaph[u].used => semaph'[u].used,
           \A t \in Port : (SLive(t)' => SLive(t)) /\ (RLive(t)' => RLive(t))
    PROVE  OwnUsed' /\ OwnApart'
<1>1. \A t \in Port : SLive(t)' => SLive(t) /\ ptssem'[t] = ptssem[t] /\ semaph'[ptssem[t]].used
  <2>1. \A t \in Port : SLive(t) => ptssem[t] \in Sem
    BY DEF SLive, Types
  <2> QED BY <2>1 DEF OwnUsed
<1>2. \A t \in Port : RLive(t)' => RLive(t) /\ ptrsem'[t] = ptrsem[t] /\ semaph'[ptrsem[t]].used
  <2>1. \A t \in Port : RLive(t) => ptrsem[t] \in Sem
    BY DEF RLive, Types
  <2> QED BY <2>1 DEF OwnUsed
<1>3. \A i \in Pool : PLive(i)' => PLive(i) /\ bpsem'[i] = bpsem[i] /\ semaph'[bpsem[i]].used
  <2>1. \A i \in Pool : PLive(i) => bpsem[i] \in Sem
    BY DEF PLive, Types
  <2>2. \A i \in Pool : PLive(i)' = PLive(i)
    BY DEF PLive
  <2> QED BY <2>1, <2>2 DEF OwnUsed
<1> QED BY <1>1, <1>2, <1>3, OwnersKeep

-----------------------------------------------------------------------------
(* The calls of the pools *)

(* getbuf: wait() lets the caller through, or queues it, and it has come for the pool. *)
LEMMA GetbufKeeps ==
    ASSUME IInv, NEW p \in Proc, NEW i \in Pool, getbuf(p, i), UNCHANGED <<portVars, load>>
    PROVE  IInv'
<1> DEFINE k == At("unlink", i, 0)
           s == bpsem[i]
<1>1. /\ Types /\ TableOK(semaph) /\ ClearInv /\ SeqInv /\ OwnUsed /\ OwnApart /\ WaitInv
      /\ PortsInv /\ PoolPlaces /\ BufferInv /\ PoolsInv
  BY DEF IInv
<1>2. /\ pc[p].at = "user" /\ i < nbpools /\ semaph' = wait(semaph, s, p)
      /\ UNCHANGED <<nextsem, poolVars, nbpools, bpnext, bpsem, word, made, holder>>
  BY DEF getbuf, InUser, poolVars
<1>3. Moves(p, k)
  BY <1>1, GotoMoves DEF getbuf
<1>4. k.at = "unlink" /\ k.a = i /\ k.to = ""
  BY DEF At, Frame
<1> HIDE DEF k
<1>5. p \in Unqueued(semaph)
  BY <1>1, <1>2, UserUnqueued
<1>6. /\ NotOfPort(s)
      /\ \/ s = SYSERR /\ ~ Used(semaph, s)
         \/ PLive(i) /\ s \in Sem /\ semaph[s].used /\ Used(semaph, s)
  BY <1>1, <1>2, PoolSemaphore
<1>7. /\ TableOK(semaph')
      /\ \A u \in Sem : u # s => semaph'[u] = semaph[u] /\ Waiting(semaph', u) = Waiting(semaph, u)
      /\ \A u \in Sem : semaph[u].used => semaph'[u].used
      /\ s \in Sem => Waiting(semaph', s) \subseteq Waiting(semaph, s) \cup {p}
      /\ \A q : q # p => (q \in Unqueued(semaph') <=> q \in Unqueued(semaph))
  <2>1. CASE ~ Used(semaph, s)
    <3>1. semaph' = semaph
      BY <1>2, <2>1 DEF wait
    <3> QED BY <3>1, <1>1
  <2>2. CASE Used(semaph, s)
    <3>1. s \in Sem /\ semaph[s].used
      BY <2>2 DEF Used
    <3>2. semaph[s].cnt > 0 \/ semaph[s].cnt <= 0
      BY <3>1, <1>1 DEF TableOK, SemRec
    <3>3. /\ TableOK(semaph')
          /\ semaph'[s].used
          /\ \A u \in Sem \ {s} : semaph'[u] = semaph[u] /\ Waiting(semaph', u) = Waiting(semaph, u)
          /\ semaph[s].cnt > 0 => Unqueued(semaph') = Unqueued(semaph) /\ Waiting(semaph', s) = {}
          /\ semaph[s].cnt <= 0 => /\ Unqueued(semaph') = Unqueued(semaph) \ {p}
                                   /\ Waiting(semaph', s) = Waiting(semaph, s) \cup {p}
      BY <3>1, <1>1, <1>2, <1>5, WaitEffect
    <3> QED BY <3>1, <3>2, <3>3
  <2> QED BY <2>1, <2>2
<1>8. CallersWaitAsBefore
  BY <1>2, <1>7 DEF CallersWaitAsBefore
<1>9. /\ ClearInv' /\ SeqInv' 
      /\ \A t \in Port : SLive(t)' = SLive(t) /\ RLive(t)' = RLive(t)
      /\ \A t \in Port : \A j : Undisposed(t, j)' = Undisposed(t, j)
  BY <1>1, <1>2, <1>3, <1>4, PoolStepPlaces DEF PoolAt
<1>10. PortsInv'
  BY <1>1, <1>2, <1>3, <1>4, <1>6, <1>7, <1>8, PoolStepPorts DEF PoolAt
<1>11. UNCHANGED <<ptstate, ptssem, ptrsem, ptmaxcnt, ptseq, ptq, ptfree, ptnextp, load>>
  BY DEF portVars
<1>12. \A j \in Pool : PLive(j)' = PLive(j)
  BY <1>2 DEF PLive
<1>13. OwnUsed' /\ OwnApart'
  BY <1>1, <1>2, <1>7, <1>9, <1>11, OwnersSame
<1>14. WaitInv'
  <2>1. CASE s \in Sem
    <3>1. \A u \in Sem : u # s => Waiting(semaph', u) \subseteq Waiting(semaph, u) \ {p}
      BY <1>5, <1>7 DEF Unqueued
    <3>2. PLive(i)
      BY <1>6, <2>1 DEF SYSERR, Sem
    <3>3. \A j \in Pool : PLive(j) /\ bpsem[j] = s => j = i
      BY <3>2, <1>1 DEF OwnApart
    <3>4. /\ \A t \in Port : SLive(t) /\ ptssem[t] = s => CalledAt(p, "psend", t)'
          /\ \A t \in Port : RLive(t) /\ ptrsem[t] = s => CalledAt(p, "preceive", t)'
      BY <1>6 DEF NotOfPort
    <3>5. \A j \in Pool : PLive(j) /\ bpsem[j] = s => k.at = "unlink" /\ k.a = j
      BY <3>3, <1>4
    <3>6. UNCHANGED <<ptstate, ptssem, ptrsem, ptseq, bpsem, nbpools>>
      BY <1>2, <1>11
    <3>7. Waiting(semaph', s) \subseteq Waiting(semaph, s) \cup {p}
      BY <2>1, <1>7
    <3>8. k.at \in {"psend", "preceive", "unlink"}
      BY <1>4
    <3> QED BY <3>1, <3>4, <3>5, <3>6, <3>7, <3>8, <2>1, <1>1, <1>3, <1>9, WaitersJoin
  <2>2. CASE s \notin Sem
    <3>1. \A u \in Sem : Waiting(semaph', u) \subseteq Waiting(semaph, u) \ {p}
      BY <2>2, <1>5, <1>7 DEF Unqueued
    <3>2. \A t \in Port : SLive(t) => ptssem[t] \in Sem
      BY <1>1 DEF SLive, Types
    <3>3. \A t \in Port : RLive(t) => ptrsem[t] \in Sem
      BY <1>1 DEF RLive, Types
    <3>4. \A j \in Pool : PLive(j) => bpsem[j] \in Sem
      BY <1>1 DEF PLive, Types
    <3> QED BY <3>1, <3>2, <3>3, <3>4, <1>1, <1>2, <1>3, <1>9, <1>11, <1>12, WaitersKeep
  <2> QED BY <2>1, <2>2
<1>15. Types'
  <2>1. \A q \in Proc : pc'[q].at \in Places
    BY <1>1, <1>3, <1>4 DEF Moves, Types, Places
  <2> QED BY <2>1, <1>1, <1>2, <1>3, <1>11 DEF Types, Moves
<1>16. PoolPlaces'
  <2>1. Pooled' = Pooled
    BY <1>11 DEF Pooled
  <2>2. i \in 0 .. nbpools - 1
    BY <1>1, <1>2 DEF Types, Pool
  <2> QED BY <2>1, <2>2, <1>1, <1>2, <1>3, <1>4 DEF PoolPlaces, Moves
<1>17. BufferInv' /\ \A b \in Buffer : Loose(b)' = Loose(b)
  BY <1>1, <1>2, <1>3, <1>9, <1>11, BuffersStay, MessagesAssumption
<1>18. PoolsInv'
  <2>1. PICK L : FreeLists(L)
    BY <1>1 DEF PoolsInv
  <2>2. ASSUME NEW j \in Pool, PLive(j) PROVE PoolAccount(L, j)'
    <3>1. PoolAccount(L, j)
      BY <2>1, <2>2 DEF FreeLists
    <3>2. Freers(j)' = Freers(j)
      BY <1>2, <1>3, <1>4 DEF Freers, Moves
    <3>3. bpsem[j] \in Sem
      BY <2>2, <1>1 DEF PLive, Types
    <3>4. CASE j = i
      <4>1. Takers(j)' = Takers(j) \cup {p} /\ p \notin Takers(j) /\ Takers(j) \subseteq Proc
        BY <3>4, <1>2, <1>3, <1>4 DEF Takers, Moves
      <4>2. s \in Sem /\ semaph[s].used
        BY <3>3, <3>4, <1>6 DEF SYSERR, Sem
      <4>3. Promise(semaph', s, Takers(j)') = Promise(semaph, s, Takers(j))
        BY <4>1, <4>2, <1>1, <1>2, <1>5, PromiseEnter
      <4> QED BY <3>1, <3>2, <3>4, <4>3, <1>2, <1>11, PoolAccountSame
    <3>5. CASE j # i
      <4>1. Takers(j)' = Takers(j)
        BY <3>5, <1>2, <1>3, <1>4 DEF Takers, Moves
      <4>2. bpsem[j] # s
        <5>1. SYSERR \notin Sem
          BY SemaphoresAssumption DEF SYSERR, Sem
        <5>2. s = SYSERR \/ PLive(i)
          BY <1>6
        <5>3. PLive(i) /\ bpsem[j] = bpsem[i] => j = i
          BY <2>2, <1>1 DEF OwnApart
        <5> QED BY <5>1, <5>2, <5>3, <3>3, <3>5
      <4>3. semaph'[bpsem[j]].cnt = semaph[bpsem[j]].cnt
        BY <3>3, <4>2, <1>7
      <4>4. p \notin Takers(j)
        BY <1>2 DEF Takers
      <4>5. Takers(j) \cap Unqueued(semaph') = Takers(j) \cap Unqueued(semaph)
        BY <4>4, <1>7
      <4>6. Promise(semaph', bpsem[j], Takers(j)') = Promise(semaph, bpsem[j], Takers(j))
        BY <4>1, <4>3, <4>5, PromiseSame
      <4> QED BY <3>1, <3>2, <4>6, <1>2, <1>11, PoolAccountSame
    <3> QED BY <3>4, <3>5
  <2>3. FreeLists(L)'
    BY <2>1, <2>2, <1>2, <1>11, <1>17, ListsSame
  <2> QED BY <2>3 DEF PoolsInv
<1> QED BY <1>7, <1>9, <1>10, <1>13, <1>14, <1>15, <1>16, <1>17, <1>18 DEF IInv
(* A step within the pools that lets go some of those who wait for a pool,   *)
(* or nobody.                                                                *)
LEMMA PoolStepLetsGo ==
    ASSUME IInv, NEW p \in Proc, NEW k, Moves(p, k), pc[p].at \in PoolAt, k.at \in PoolAt,
           p \in Unqueued(semaph), UNCHANGED <<portVars, load, nbpools, bpsem>>,
           NEW s, LetGo(semaph, semaph', s),
           \A u \in Sem : semaph'[u].used = semaph[u].used,
           s = SYSERR \/ \E i \in Pool : PLive(i) /\ s = bpsem[i]
    PROVE  /\ TableOK(semaph') /\ ClearInv' /\ SeqInv' /\ OwnUsed' /\ OwnApart' /\ WaitInv'
           /\ PortsInv'
           /\ \A t \in Port : \A j : Undisposed(t, j)' = Undisposed(t, j)
           /\ \A b : InPort(b)' = InPort(b)
<1>1. /\ Types /\ TableOK(semaph) /\ ClearInv /\ SeqInv /\ OwnUsed /\ OwnApart /\ WaitInv
      /\ PortsInv
  BY DEF IInv
<1>2. SYSERR \notin Sem
  BY SemaphoresAssumption DEF SYSERR, Sem
<1>3. NotOfPort(s)
  <2>1. CASE s = SYSERR
    BY <2>1 DEF NotOfPort, SLive, RLive
  <2>2. CASE \E i \in Pool : PLive(i) /\ s = bpsem[i]
    BY <2>2, <1>1 DEF NotOfPort, OwnApart
  <2> QED BY <2>1, <2>2
<1>4. \A q \in Unqueued(semaph') \ Unqueued(semaph) : pc[q].at = "unlink"
  <2> SUFFICES ASSUME NEW q \in Unqueued(semaph'), q \notin Unqueued(semaph)
               PROVE  pc[q].at = "unlink"
    OBVIOUS
  <2>1. s \in Sem /\ q \in Waiting(semaph, s)
    BY DEF LetGo
  <2>2. PICK i \in Pool : PLive(i) /\ s = bpsem[i]
    BY <2>1, <1>2
  <2>3. q \in Proc
    BY DEF Unqueued
  <2> QED BY <2>1, <2>2, <2>3, <1>1 DEF WaitInv
<1>5. /\ TableOK(semaph')
      /\ \A u \in Sem : u # s => semaph'[u] = semaph[u]
      /\ \A u \in Sem : Waiting(semaph', u) \subseteq Waiting(semaph, u) \ {p}
      /\ CallersWaitAsBefore
  <2>1. \A u \in Sem : Waiting(semaph', u) \subseteq Waiting(semaph, u)
    BY DEF LetGo
  <2>2. \A u \in Sem : p \notin Waiting(semaph, u)
    BY DEF Unqueued
  <2>3. CallersWaitAsBefore
    BY <1>4 DEF LetGo, CallersWaitAsBefore
  <2> QED BY <2>1, <2>2, <2>3 DEF LetGo
<1>6. /\ ClearInv' /\ SeqInv'
      /\ \A t \in Port : SLive(t)' = SLive(t) /\ RLive(t)' = RLive(t)
      /\ \A t \in Port : \A j : Undisposed(t, j)' = Undisposed(t, j)
      /\ \A b : InPort(b)' = InPort(b)
  BY <1>1, PoolStepPlaces
<1>7. PortsInv'
  BY <1>1, <1>3, <1>5, PoolStepPorts
<1>8. UNCHANGED <<ptstate, ptssem, ptrsem, ptseq>>
  BY DEF portVars
<1>9. OwnUsed' /\ OwnApart'
  BY <1>1, <1>6, <1>8, OwnersSame
<1>10. WaitInv'
  <2>1. \A t \in Port : SLive(t) => ptssem[t] \in Sem
    BY <1>1 DEF SLive, Types
  <2>2. \A t \in Port : RLive(t) => ptrsem[t] \in Sem
    BY <1>1 DEF RLive, Types
  <2>3. \A i \in Pool : PLive(i)' => PLive(i) /\ bpsem'[i] = bpsem[i] /\ bpsem[i] \in Sem
    BY <1>1 DEF PLive, Types
  <2> QED BY <2>1, <2>2, <2>3, <1>1, <1>5, <1>6, <1>8, WaitersKeep
<1> QED BY <1>5, <1>6, <1>7, <1>9, <1>10

(* The same about several semaphores. *)
LetsGo(t, t2, S) ==
    /\ TableOK(t2)
    /\ \A u \in Sem \ S : t2[u] = t[u]
    /\ \A u \in Sem : Waiting(t2, u) \subseteq Waiting(t, u)
    /\ Unqueued(t) \subseteq Unqueued(t2)
    /\ \A q \in Unqueued(t2) \ Unqueued(t) : \E s \in Sem \cap S : q \in Waiting(t, s)

(* What a step lets go: nobody, the waiters of one semaphore, or of two. *)
LEMMA NobodyLetGo ==
    ASSUME NEW t, TableOK(t)
    PROVE  LetGo(t, t, SYSERR)
BY DEF LetGo

LEMMA LetGoOne ==
    ASSUME NEW t, NEW t2, NEW s, LetGo(t, t2, s)
    PROVE  LetsGo(t, t2, {s})
<1>1. \A u \in Sem : Waiting(t2, u) \subseteq Waiting(t, u)
  BY DEF LetGo
<1> QED BY <1>1 DEF LetGo, LetsGo

LEMMA LetGoTwo ==
    ASSUME NEW t, NEW t1, NEW t2, NEW s, NEW r, LetGo(t, t1, s), LetGo(t1, t2, r)
    PROVE  LetsGo(t, t2, {s, r})
<1>1. \A u \in Sem : Waiting(t1, u) \subseteq Waiting(t, u)
  BY DEF LetGo
<1>2. \A u \in Sem : Waiting(t2, u) \subseteq Waiting(t, u)
  BY <1>1 DEF LetGo
<1>3. \A q \in Unqueued(t2) \ Unqueued(t) : \E u \in Sem \cap {s, r} : q \in Waiting(t, u)
  BY <1>1 DEF LetGo
<1>4. \A u \in Sem \ {s, r} : t2[u] = t[u]
  BY DEF LetGo
<1> QED BY <1>2, <1>3, <1>4 DEF LetGo, LetsGo

(* A pool that a step does not concern. *)
LEMMA PoolAside ==
    ASSUME Types, NEW p \in Proc, NEW k, Moves(p, k), NEW S, LetsGo(semaph, semaph', S),
           NEW j \in Pool, PLive(j), bpsem[j] \notin S,
           \A q \in Takers(j), s \in S \cap Sem : q \notin Waiting(semaph, s),
           p \notin Takers(j) \cup Freers(j),
           k.at \in {"unlink", "release"} => k.a # j,
           bpsem'[j] = bpsem[j], UNCHANGED load,
           NEW L, NEW L2, Len(L2[j]) = Len(L[j]), PoolAccount(L, j)
    PROVE  PoolAccount(L2, j)'
<1>1. Takers(j)' = Takers(j)
  BY DEF Takers, Freers, Moves
<1>2. Freers(j)' = Freers(j)
  BY DEF Takers, Freers, Moves
<1>3. bpsem[j] \in Sem
  BY DEF PLive, Types
<1>4. semaph'[bpsem[j]].cnt = semaph[bpsem[j]].cnt
  BY <1>3 DEF LetsGo
<1>5. Takers(j) \cap Unqueued(semaph') = Takers(j) \cap Unqueued(semaph)
  BY DEF LetsGo
<1>6. Promise(semaph', bpsem[j], Takers(j)') = Promise(semaph, bpsem[j], Takers(j))
  BY <1>1, <1>4, <1>5, PromiseSame
<1> QED BY <1>2, <1>6, PoolAccountSame

-----------------------------------------------------------------------------
(* Taking the first buffer of a list, and putting one before the first *)

UnlinkFirst(i) == bpnext' = [bpnext EXCEPT ![i] = word[bpnext[i]]] /\ UNCHANGED word
Shorter(L, i) == [L EXCEPT ![i] = Tail(@)]

(* The first buffer is unlinked: the lists are what they were without it. *)
LEMMA ListTake ==
    ASSUME NEW L, Chains(L), NEW i \in Pool, bpnext[i] # NULL,
           bpnext \in [Pool -> Buffer \cup {NULL}], UnlinkFirst(i),
           NEW L2, L2 = Shorter(L, i)
    PROVE  /\ Chains(L2)'
           /\ \A b : OnList(L2, b) <=> OnList(L, b) /\ b # bpnext[i]
           /\ Len(L2[i]) = Len(L[i]) - 1
           /\ \A j \in Pool : j # i => L2[j] = L[j]
           /\ OnList(L, bpnext[i])
           /\ word[bpnext[i]] \in Buffer \cup {NULL}
<1> DEFINE l == L[i]
           m == Tail(l)
<1>0. /\ L2 = [L EXCEPT ![i] = Tail(@)]
      /\ bpnext' = [bpnext EXCEPT ![i] = word[bpnext[i]]] /\ UNCHANGED word
  BY DEF UnlinkFirst, Shorter
<1>1. /\ L \in [Pool -> Seq(Buffer)]
      /\ l \in Seq(Buffer)
      /\ \A j \in Pool : L[j] \in Seq(Buffer) /\ IsFreeList(j, L[j])
      /\ \A j, h \in Pool : \A a \in 1 .. Len(L[j]), c \in 1 .. Len(L[h]) :
            L[j][a] = L[h][c] => j = h /\ a = c
  BY DEF Chains
<1>2. l # <<>> /\ l[1] = bpnext[i]
  BY <1>1 DEF IsFreeList
<1>3. Len(l) \in Nat /\ Len(l) >= 1
  BY <1>1, <1>2, EmptySeq, LenProperties
<1>4. /\ m \in Seq(Buffer)
      /\ Len(m) = Len(l) - 1
      /\ \A a \in 1 .. Len(l) - 1 : m[a] = l[a + 1]
  BY <1>1, <1>2
<1>5. \A a \in 1 .. Len(l) : word[l[a]] = IF a = Len(l) THEN NULL ELSE l[a + 1]
  BY <1>1 DEF IsFreeList
<1>6. /\ L2 \in [Pool -> Seq(Buffer)]
      /\ L2[i] = m
      /\ \A j \in Pool : j # i => L2[j] = L[j]
  BY <1>0, <1>1, <1>4
<1>7. 1 \in 1 .. Len(l) /\ \A a \in 1 .. Len(l) - 1 : a + 1 \in 1 .. Len(l)
  BY <1>3
<1>7a. Len(l) # 1 => 2 \in 1 .. Len(l)
  <2>1. \A n \in Nat : n >= 1 /\ n # 1 => 2 \in 1 .. n
    OBVIOUS
  <2> HIDE DEF l
  <2> QED BY <2>1, <1>3
<1>8. \A a \in 1 .. Len(l) : l[a] \in Buffer
  BY <1>1
<1> HIDE DEF m, l
<1>9. word[bpnext[i]] = IF Len(l) = 1 THEN NULL ELSE l[2]
  <2>1. word[l[1]] = IF 1 = Len(l) THEN NULL ELSE l[1 + 1]
    BY <1>5, <1>7
  <2> QED BY <2>1, <1>2
<1>10. IsFreeList(i, m)'
  <2>1. bpnext'[i] = IF m = <<>> THEN NULL ELSE m[1]
    <3>1. bpnext'[i] = word[bpnext[i]]
      BY <1>0
    <3>2. CASE Len(l) = 1
      <4>1. m = <<>>
        BY <3>2, <1>4, EmptySeq
      <4> QED BY <3>1, <3>2, <4>1, <1>9
    <3>3. CASE Len(l) # 1
      <4>1. m # <<>> /\ 1 \in 1 .. Len(l) - 1
        BY <3>3, <1>3, <1>4
      <4>2. m[1] = l[2]
        BY <4>1, <1>4
      <4> QED BY <3>1, <3>3, <4>1, <4>2, <1>9
    <3> QED BY <3>2, <3>3
  <2>2. ASSUME NEW a \in 1 .. Len(m)
        PROVE  word'[m[a]] = IF a = Len(m) THEN NULL ELSE m[a + 1]
    <3>1. a \in 1 .. Len(l) - 1 /\ a + 1 \in 1 .. Len(l) /\ m[a] = l[a + 1]
      BY <1>3, <1>4
    <3>2. word[l[a + 1]] = IF a + 1 = Len(l) THEN NULL ELSE l[(a + 1) + 1]
      BY <3>1, <1>5
    <3>3. a = Len(m) <=> a + 1 = Len(l)
      BY <3>1, <1>3, <1>4
    <3>4. a + 1 # Len(l) => m[a + 1] = l[(a + 1) + 1]
      BY <3>1, <1>3, <1>4
    <3> QED BY <3>1, <3>2, <3>3, <3>4, <1>0
  <2> QED BY <2>1, <2>2 DEF IsFreeList
<1>11. ASSUME NEW j \in Pool PROVE IsFreeList(j, L2[j])'
  <2>1. CASE j = i
    BY <2>1, <1>6, <1>10 DEF IsFreeList
  <2>2. CASE j # i
    <3>1. bpnext'[j] = bpnext[j] /\ L2[j] = L[j] /\ IsFreeList(j, L[j])
      BY <2>2, <1>0, <1>1, <1>6
    <3> QED BY <3>1, <1>0 DEF IsFreeList
  <2> QED BY <2>1, <2>2
(* Every place of L2 is a place of L. *)
<1> DEFINE place(j, a) == IF j = i THEN a + 1 ELSE a
<1>12. \A j \in Pool : \A a \in 1 .. Len(L2[j]) :
          /\ place(j, a) \in 1 .. Len(L[j])
          /\ L2[j][a] = L[j][place(j, a)]
          /\ j = i => place(j, a) # 1
  <2> SUFFICES ASSUME NEW j \in Pool, NEW a \in 1 .. Len(L2[j])
               PROVE  /\ place(j, a) \in 1 .. Len(L[j])
                      /\ L2[j][a] = L[j][place(j, a)]
                      /\ j = i => place(j, a) # 1
    OBVIOUS
  <2>1. CASE j = i
    <3>1. Len(L2[j]) = Len(l) - 1 /\ L2[j] = m
      BY <2>1, <1>4, <1>6
    <3>2. a \in 1 .. Len(l) - 1 /\ a + 1 # 1
      BY <3>1, <1>3
    <3> QED BY <2>1, <3>1, <3>2, <1>4, <1>7 DEF l
  <2>2. CASE j # i
    BY <2>2, <1>6
  <2> QED BY <2>1, <2>2
<1>13. \A j, h \in Pool : \A a \in 1 .. Len(L2[j]), c \in 1 .. Len(L2[h]) :
            L2[j][a] = L2[h][c] => j = h /\ a = c
  <2> SUFFICES ASSUME NEW j \in Pool, NEW h \in Pool,
                      NEW a \in 1 .. Len(L2[j]), NEW c \in 1 .. Len(L2[h]),
                      L2[j][a] = L2[h][c]
               PROVE  j = h /\ a = c
    OBVIOUS
  <2>1. /\ place(j, a) \in 1 .. Len(L[j])
        /\ place(h, c) \in 1 .. Len(L[h])
        /\ L[j][place(j, a)] = L[h][place(h, c)]
    <3> HIDE DEF place
    <3> QED BY <1>12
  <2>2. j = h /\ place(j, a) = place(h, c)
    <3> HIDE DEF place
    <3> QED BY <2>1, <1>1
  <2>3. a \in Int /\ c \in Int
    OBVIOUS
  <2> QED BY <2>2, <2>3
<1>14. Chains(L2)'
  BY <1>6, <1>11, <1>13 DEF Chains
<1>15. OnList(L, bpnext[i])
  BY <1>2, <1>7 DEF OnList, l
<1>16. ASSUME NEW b, OnList(L2, b)
       PROVE  OnList(L, b) /\ b # bpnext[i]
  <2>0. PICK j \in Pool : \E a \in 1 .. Len(L2[j]) : L2[j][a] = b
    BY <1>16 DEF OnList
  <2>1. PICK a \in 1 .. Len(L2[j]) : L2[j][a] = b
    BY <2>0
  <2> DEFINE c == place(j, a)
  <2>2. c \in 1 .. Len(L[j]) /\ b = L[j][c] /\ (j = i => c # 1)
    BY <2>1, <1>12
  <2> HIDE DEF c
  <2>3. OnList(L, b)
    BY <2>2 DEF OnList
  <2>4. b # bpnext[i]
    BY <2>2, <1>1, <1>2, <1>7 DEF l
  <2> QED BY <2>3, <2>4
<1>17. ASSUME NEW b, OnList(L, b), b # bpnext[i]
       PROVE  OnList(L2, b)
  <2>0. PICK j \in Pool : \E a \in 1 .. Len(L[j]) : L[j][a] = b
    BY <1>17 DEF OnList
  <2>1. PICK a \in 1 .. Len(L[j]) : L[j][a] = b
    BY <2>0
  <2>2. CASE j = i
    <3>1. a # 1
      BY <2>1, <2>2, <1>2, <1>17 DEF l
    <3>2. a - 1 \in 1 .. Len(m) /\ (a - 1) + 1 = a
      BY <3>1, <2>1, <2>2, <1>3, <1>4 DEF l
    <3>3. m[a - 1] = b
      BY <3>2, <2>1, <2>2, <1>4 DEF l
    <3> QED BY <3>2, <3>3, <1>6, <2>2 DEF OnList
  <2>3. CASE j # i
    BY <2>1, <2>3, <1>6 DEF OnList
  <2> QED BY <2>2, <2>3
<1>18. word[bpnext[i]] \in Buffer \cup {NULL}
  <2>1. CASE Len(l) = 1
    BY <2>1, <1>9
  <2>2. CASE Len(l) # 1
    <3>1. 2 \in 1 .. Len(l)
      BY <2>2, <1>7a
    <3> QED BY <3>1, <2>2, <1>8, <1>9
  <2> QED BY <2>1, <2>2
<1> QED BY <1>4, <1>6, <1>14, <1>15, <1>16, <1>17, <1>18 DEF l
LinkFirst(i, c) == /\ bpnext' = [bpnext EXCEPT ![i] = c]
                   /\ word' = [word EXCEPT ![c] = bpnext[i]]
Longer(L, i, c) == [L EXCEPT ![i] = <<c>> \o @]

(* A buffer on no list is linked before the first of one. *)
LEMMA ListAdd ==
    ASSUME NEW L, Chains(L), NEW i \in Pool, NEW c \in Buffer, ~ OnList(L, c),
           bpnext \in [Pool -> Buffer \cup {NULL}], word \in [Buffer -> Int],
           LinkFirst(i, c), NEW L2, L2 = Longer(L, i, c)
    PROVE  /\ Chains(L2)'
           /\ \A b : OnList(L2, b) <=> OnList(L, b) \/ b = c
           /\ Len(L2[i]) = Len(L[i]) + 1
           /\ \A j \in Pool : j # i => L2[j] = L[j]
<1> DEFINE l == L[i]
           m == <<c>> \o l
<1>0. /\ L2 = [L EXCEPT ![i] = <<c>> \o @]
      /\ bpnext' = [bpnext EXCEPT ![i] = c] /\ word' = [word EXCEPT ![c] = bpnext[i]]
  BY DEF LinkFirst, Longer
<1>1. /\ L \in [Pool -> Seq(Buffer)]
      /\ l \in Seq(Buffer)
      /\ \A j \in Pool : L[j] \in Seq(Buffer) /\ IsFreeList(j, L[j])
      /\ \A j, h \in Pool : \A a \in 1 .. Len(L[j]), d \in 1 .. Len(L[h]) :
            L[j][a] = L[h][d] => j = h /\ a = d
  BY DEF Chains
<1>2. Len(l) \in Nat
  BY <1>1, LenProperties
<1>3. /\ m \in Seq(Buffer)
      /\ Len(m) = Len(l) + 1
      /\ \A a \in 1 .. Len(l) + 1 : m[a] = IF a <= 1 THEN <<c>>[a] ELSE l[a - 1]
  <2>1. <<c>> \in Seq(Buffer) /\ Len(<<c>>) = 1
    OBVIOUS
  <2> QED BY <2>1, <1>1, <1>2, ConcatProperties
<1>4. /\ m[1] = c
      /\ \A a \in 1 .. Len(l) : a + 1 \in 1 .. Len(m) /\ m[a + 1] = l[a]
      /\ \A a \in 1 .. Len(m) : a # 1 => a - 1 \in 1 .. Len(l) /\ m[a] = l[a - 1]
  <2>1. 1 \in 1 .. Len(l) + 1 /\ \A a \in 1 .. Len(l) : a + 1 \in 1 .. Len(l) + 1 /\ ~ (a + 1 <= 1)
    BY <1>2
  <2>2. \A a \in 1 .. Len(l) + 1 : a # 1 => a - 1 \in 1 .. Len(l) /\ ~ (a <= 1)
    BY <1>2
  <2>3. \A a \in 1 .. Len(l) : (a + 1) - 1 = a
    OBVIOUS
  <2> HIDE DEF m, l
  <2> QED BY <2>1, <2>2, <2>3, <1>3
<1>5. \A a \in 1 .. Len(l) : word[l[a]] = IF a = Len(l) THEN NULL ELSE l[a + 1]
  BY <1>1 DEF IsFreeList
<1>6. /\ L2 \in [Pool -> Seq(Buffer)]
      /\ L2[i] = m
      /\ \A j \in Pool : j # i => L2[j] = L[j]
  BY <1>0, <1>1, <1>3
<1>7. /\ \A a \in 1 .. Len(l) : l[a] \in Buffer
      /\ \A j \in Pool : \A a \in 1 .. Len(L[j]) : L[j][a] # c /\ L[j][a] \in Buffer
  BY <1>1 DEF OnList
<1>8. /\ word'[c] = bpnext[i]
      /\ \A b \in Buffer : b # c => word'[b] = word[b]
  BY <1>0
<1>9. bpnext[i] = IF l = <<>> THEN NULL ELSE l[1]
  BY <1>1 DEF IsFreeList
<1>10. l = <<>> <=> Len(l) = 0
  BY <1>1, EmptySeq
<1>11. m # <<>>
  BY <1>2, <1>3, EmptySeq
<1> HIDE DEF m, l
<1>12. IsFreeList(i, m)'
  <2>1. bpnext'[i] = IF m = <<>> THEN NULL ELSE m[1]
    BY <1>0, <1>4, <1>11
  <2>2. ASSUME NEW a \in 1 .. Len(m)
        PROVE  word'[m[a]] = IF a = Len(m) THEN NULL ELSE m[a + 1]
    <3>1. CASE a = 1
      <4>1. word'[m[a]] = IF l = <<>> THEN NULL ELSE l[1]
        BY <3>1, <1>4, <1>8, <1>9
      <4>2. l # <<>> => 1 \in 1 .. Len(l)
        BY <1>2, <1>10
      <4>3. l # <<>> => m[a + 1] = l[1]
        BY <3>1, <4>2, <1>4
      <4>4. l = <<>> <=> a = Len(m)
        BY <3>1, <1>2, <1>3, <1>10
      <4> QED BY <4>1, <4>3, <4>4
    <3>2. CASE a # 1
      <4>1. a - 1 \in 1 .. Len(l) /\ m[a] = l[a - 1]
        BY <3>2, <1>4
      <4>2. l[a - 1] # c /\ l[a - 1] \in Buffer
        BY <4>1, <1>7 DEF l
      <4>3. word'[m[a]] = IF a - 1 = Len(l) THEN NULL ELSE l[(a - 1) + 1]
        BY <4>1, <4>2, <1>5, <1>8
      <4>4. a \in Int /\ (a - 1) + 1 = a
        OBVIOUS
      <4>5. a - 1 = Len(l) <=> a = Len(m)
        BY <4>4, <1>2, <1>3
      <4>6. a # Len(m) => m[a + 1] = l[a]
        <5>1. a # Len(m) => a \in 1 .. Len(l)
          BY <1>2, <1>3
        <5> QED BY <5>1, <1>4
      <4> QED BY <4>3, <4>4, <4>5, <4>6
    <3> QED BY <3>1, <3>2
  <2> QED BY <2>1, <2>2 DEF IsFreeList
<1>13. ASSUME NEW j \in Pool PROVE IsFreeList(j, L2[j])'
  <2>1. CASE j = i
    BY <2>1, <1>6, <1>12 DEF IsFreeList
  <2>2. CASE j # i
    <3>1. bpnext'[j] = bpnext[j] /\ L2[j] = L[j] /\ IsFreeList(j, L[j])
      BY <2>2, <1>0, <1>1, <1>6
    <3>2. \A a \in 1 .. Len(L[j]) : word'[L[j][a]] = word[L[j][a]]
      BY <1>7, <1>8
    <3> QED BY <3>1, <3>2 DEF IsFreeList
  <2> QED BY <2>1, <2>2
(* Every place of L2 but the first of list i is a place of L. *)
<1> DEFINE place(j, a) == IF j = i THEN a - 1 ELSE a
<1>14. \A j \in Pool : \A a \in 1 .. Len(L2[j]) :
          \/ j = i /\ a = 1 /\ L2[j][a] = c
          \/ /\ place(j, a) \in 1 .. Len(L[j])
             /\ L2[j][a] = L[j][place(j, a)]
             /\ L2[j][a] # c
  <2> SUFFICES ASSUME NEW j \in Pool, NEW a \in 1 .. Len(L2[j])
               PROVE  \/ j = i /\ a = 1 /\ L2[j][a] = c
                      \/ /\ place(j, a) \in 1 .. Len(L[j])
                         /\ L2[j][a] = L[j][place(j, a)]
                         /\ L2[j][a] # c
    OBVIOUS
  <2>1. CASE j = i
    <3>1. a \in 1 .. Len(m) /\ L2[j] = m /\ L[j] = l
      BY <2>1, <1>6 DEF l
    <3>2. CASE a = 1
      BY <2>1, <3>1, <3>2, <1>4
    <3>3. CASE a # 1
      <4>1. a - 1 \in 1 .. Len(L[j]) /\ L2[j][a] = L[j][a - 1]
        BY <3>1, <3>3, <1>4
      <4> QED BY <4>1, <2>1, <1>7
    <3> QED BY <3>2, <3>3
  <2>2. CASE j # i
    BY <2>2, <1>6, <1>7
  <2> QED BY <2>1, <2>2
<1>15. \A j, h \in Pool : \A a \in 1 .. Len(L2[j]), d \in 1 .. Len(L2[h]) :
            L2[j][a] = L2[h][d] => j = h /\ a = d
  <2> SUFFICES ASSUME NEW j \in Pool, NEW h \in Pool,
                      NEW a \in 1 .. Len(L2[j]), NEW d \in 1 .. Len(L2[h]),
                      L2[j][a] = L2[h][d]
               PROVE  j = h /\ a = d
    OBVIOUS
  <2>1. CASE L2[j][a] = c
    <3>1. j = i /\ a = 1
      BY <2>1, <1>14
    <3>2. h = i /\ d = 1
      BY <2>1, <1>14
    <3> QED BY <3>1, <3>2
  <2>2. CASE L2[j][a] # c
    <3>1. /\ place(j, a) \in 1 .. Len(L[j])
          /\ place(h, d) \in 1 .. Len(L[h])
          /\ L[j][place(j, a)] = L[h][place(h, d)]
      <4> HIDE DEF place
      <4> QED BY <2>2, <1>14
    <3>2. j = h /\ place(j, a) = place(h, d)
      <4>1. PICK x : x = place(j, a)
        OBVIOUS
      <4>2. PICK y : y = place(h, d)
        OBVIOUS
      <4> HIDE DEF place
      <4>3. x \in 1 .. Len(L[j]) /\ y \in 1 .. Len(L[h]) /\ L[j][x] = L[h][y]
        BY <3>1, <4>1, <4>2
      <4>4. j = h /\ x = y
        BY <4>3, <1>1 DEF Chains
      <4> QED BY <4>1, <4>2, <4>4
    <3>3. a \in Int /\ d \in Int
      OBVIOUS
    <3> QED BY <3>2, <3>3
  <2> QED BY <2>1, <2>2
<1>16. Chains(L2)'
  BY <1>6, <1>13, <1>15 DEF Chains
<1>17. ASSUME NEW b, OnList(L2, b)
       PROVE  OnList(L, b) \/ b = c
  <2>1. PICK j \in Pool : \E a \in 1 .. Len(L2[j]) : L2[j][a] = b
    BY <1>17 DEF OnList
  <2>2. PICK a \in 1 .. Len(L2[j]) : L2[j][a] = b
    BY <2>1
  <2> HIDE DEF place
  <2> QED BY <2>2, <1>14 DEF OnList
<1>18. ASSUME NEW b, OnList(L, b)
       PROVE  OnList(L2, b)
  <2>1. PICK j \in Pool : \E a \in 1 .. Len(L[j]) : L[j][a] = b
    BY <1>18 DEF OnList
  <2>2. PICK a \in 1 .. Len(L[j]) : L[j][a] = b
    BY <2>1
  <2>3. CASE j = i
    <3>1. a + 1 \in 1 .. Len(L2[j]) /\ L2[j][a + 1] = b
      BY <2>2, <2>3, <1>4, <1>6 DEF l
    <3> QED BY <3>1 DEF OnList
  <2>4. CASE j # i
    BY <2>2, <2>4, <1>6 DEF OnList
  <2> QED BY <2>3, <2>4
<1>19. OnList(L2, c)
  <2>1. 1 \in 1 .. Len(L2[i]) /\ L2[i][1] = c
    BY <1>2, <1>3, <1>4, <1>6
  <2> QED BY <2>1 DEF OnList
<1>20. Len(L2[i]) = Len(L[i]) + 1
  BY <1>3, <1>6 DEF l
<1> QED BY <1>6, <1>16, <1>17, <1>18, <1>19, <1>20

(* The buffer of a list is nobody's. *)
LEMMA ListedIsLoose ==
    ASSUME NEW L, FreeLists(L), NEW b \in Buffer, OnList(L, b)
    PROVE  b <= made /\ holder[b] = Nobody /\ ~ (Pooled /\ InPort(b))
BY DEF FreeLists, Members, Loose

(* A process that the semaphore of a pool let through finds a buffer. *)
LEMMA PromisedBuffer ==
    ASSUME IInv, NEW p \in Proc, p \in Unqueued(semaph), pc[p].at = "unlink",
           bpsem[pc[p].a] # SYSERR
    PROVE  bpnext[pc[p].a] # NULL
<1>1. Types /\ TableOK(semaph) /\ OwnUsed /\ PoolPlaces /\ PoolsInv
  BY DEF IInv
<1>2. pc[p].a \in 0 .. nbpools - 1 /\ pc[p].a \in Pool
  BY <1>1, PoolsAssumption DEF PoolPlaces, Types, Pool
<1>3. PICK i \in Pool : i = pc[p].a
  BY <1>2
<1>4. PLive(i) /\ bpsem[i] \in Sem
  BY <1>1, <1>2, <1>3 DEF PLive, Types
<1>5. PICK L : FreeLists(L)
  BY <1>1 DEF PoolsInv
<1>6. p \in Takers(i) /\ Takers(i) \subseteq Proc
  BY <1>3 DEF Takers
<1>7. Promise(semaph, bpsem[i], Takers(i)) >= 1
      /\ Promise(semaph, bpsem[i], Takers(i)) \in Nat
  BY <1>1, <1>4, <1>6, PromiseUsed, PromiseType
<1>8. Cardinality(Freers(i)) \in Nat
  <2>1. Freers(i) \in SUBSET Proc
    BY DEF Freers
  <2> QED BY <2>1, ProcFinite, FS_Subset, FS_CardinalityType
<1>9. Len(L[i]) >= 1 /\ L[i] \in Seq(Buffer) /\ IsFreeList(i, L[i])
  <2>1. Promise(semaph, bpsem[i], Takers(i)) + Cardinality(Freers(i)) <= Len(L[i])
    BY <1>4, <1>5 DEF FreeLists, PoolAccount
  <2>2. L[i] \in Seq(Buffer) /\ IsFreeList(i, L[i])
    BY <1>5 DEF FreeLists, Chains
  <2>3. Len(L[i]) \in Nat
    BY <2>2, LenProperties
  <2> QED BY <2>1, <2>2, <2>3, <1>7, <1>8
<1>10. bpnext[i] = L[i][1] /\ L[i][1] \in Buffer
  <2>1. L[i] # <<>> /\ 1 \in 1 .. Len(L[i])
    BY <1>9, LenProperties
  <2> QED BY <2>1, <1>9, ElementOfSeq DEF IsFreeList
<1> QED BY <1>2, <1>3, <1>10 DEF Buffer, NULL

(* getbuf takes the first buffer, which the semaphore had promised. *)
LEMMA GetbufUnlinkKeeps ==
    ASSUME IInv, NEW p \in Proc, getbufUnlink(p), UNCHANGED <<portVars, load>>
    PROVE  IInv'
<1>1. /\ Types /\ TableOK(semaph) /\ ClearInv /\ SeqInv /\ OwnUsed /\ OwnApart /\ WaitInv
      /\ PortsInv /\ PoolPlaces /\ BufferInv /\ PoolsInv
  BY DEF IInv
<1>a. /\ p \in Unqueued(semaph) /\ pc[p].at = "unlink" /\ pc[p].a \in 0 .. nbpools - 1
      /\ bpnext[pc[p].a] # NULL
  <2>1. p \in Unqueued(semaph) /\ pc[p].at = "unlink" /\ pc[p].a \in 0 .. nbpools - 1
    BY <1>1, RunsUnqueued DEF getbufUnlink, Reached, PoolPlaces
  <2>2. bpsem[pc[p].a] = SYSERR => bpnext[pc[p].a] # NULL
    BY DEF getbufUnlink
  <2> QED BY <2>1, <2>2, PromisedBuffer
<1>b. PICK i \in Pool : i = pc[p].a
  BY <1>1, <1>a, PoolsAssumption DEF Types, Pool
<1>c. PICK buf \in Buffer : buf = bpnext[i]
  BY <1>1, <1>a, <1>b DEF Types
<1> DEFINE k == At("stamp", i, buf)
<1>2. /\ p \in Unqueued(semaph) /\ pc[p].at = "unlink" /\ pc[p].a = i /\ i \in 0 .. nbpools - 1
      /\ bpnext[i] # NULL
      /\ bpnext' = [bpnext EXCEPT ![i] = word[bpnext[i]]]
      /\ holder' = [holder EXCEPT ![buf] = p]
      /\ UNCHANGED <<semaph, nextsem, nbpools, bpsem, word, made, load>>
  BY <1>a, <1>b, <1>c DEF getbufUnlink, semVars
<1>3. Moves(p, k)
  BY <1>1, <1>b, <1>c, GotoMoves DEF getbufUnlink
<1>4. k.at = "stamp" /\ k.a = i /\ k.n = buf
  BY DEF At, Frame
<1>5. Nobody \notin Proc
  BY MessagesAssumption
<1> HIDE DEF k
<1>6. PICK L : FreeLists(L)
  BY <1>1 DEF PoolsInv
<1> DEFINE L2 == Shorter(L, i)
<1>7. /\ Chains(L2)'
      /\ \A b : OnList(L2, b) <=> OnList(L, b) /\ b # buf
      /\ Len(L2[i]) = Len(L[i]) - 1
      /\ \A j \in Pool : j # i => L2[j] = L[j]
      /\ OnList(L, buf)
      /\ word[buf] \in Buffer \cup {NULL}
  <2>1. Chains(L) /\ bpnext \in [Pool -> Buffer \cup {NULL}]
    BY <1>1, <1>6 DEF FreeLists, Types
  <2>2. UnlinkFirst(i)
    BY <1>2 DEF UnlinkFirst
  <2>3. /\ Chains(L2)'
        /\ \A b : OnList(L2, b) <=> OnList(L, b) /\ b # bpnext[i]
        /\ Len(L2[i]) = Len(L[i]) - 1
        /\ \A j \in Pool : j # i => L2[j] = L[j]
        /\ OnList(L, bpnext[i])
        /\ word[bpnext[i]] \in Buffer \cup {NULL}
    BY <2>1, <2>2, <1>2, ListTake
  <2> QED BY <2>3, <1>c
<1> HIDE DEF L2
<1>8. buf <= made /\ holder[buf] = Nobody /\ ~ (Pooled /\ InPort(buf))
  BY <1>5, <1>6, <1>7, ListedIsLoose
<1>9. /\ TableOK(semaph') /\ ClearInv' /\ SeqInv' /\ OwnUsed' /\ OwnApart' /\ WaitInv'
      /\ PortsInv'
      /\ \A t \in Port : \A j : Undisposed(t, j)' = Undisposed(t, j)
      /\ \A b : InPort(b)' = InPort(b)
  <2>1. LetGo(semaph, semaph', SYSERR) /\ \A u \in Sem : semaph'[u].used = semaph[u].used
    BY <1>1, <1>2, NobodyLetGo
  <2> QED BY <2>1, <1>2, <1>3, <1>4, PoolStepLetsGo DEF PoolAt
<1>10. UNCHANGED <<ptstate, ptssem, ptrsem, ptmaxcnt, ptseq, ptq, ptfree, ptnextp>>
  BY DEF portVars
<1>11. /\ holder'[buf] = p
       /\ \A b \in Buffer : b # buf => holder'[b] = holder[b]
  BY <1>1, <1>2, <1>5 DEF Types
<1>12. Types'
  <2>1. \A q \in Proc : pc'[q].at \in Places
    BY <1>1, <1>3, <1>4 DEF Moves, Types, Places
  <2>2. bpnext' \in [Pool -> Buffer \cup {NULL}]
    BY <1>1, <1>2, <1>7, <1>c DEF Types
  <2>3. holder' \in [Buffer -> Proc \cup {Nobody}]
    BY <1>1, <1>2 DEF Types
  <2> QED BY <2>1, <2>2, <2>3, <1>1, <1>2, <1>3, <1>10 DEF Types, Moves
<1>13. PoolPlaces'
  <2>1. Pooled' = Pooled
    BY <1>2 DEF Pooled
  <2> SUFFICES ASSUME NEW q \in Proc
               PROVE  /\ pc'[q].at \in {"unlink", "stamp", "relink", "release"} =>
                            pc'[q].a \in 0 .. nbpools - 1
                      /\ pc'[q].at \in {"stamp", "relink"} =>
                            pc'[q].n \in Buffer /\ holder'[pc'[q].n] = q
                      /\ Pooled /\ pc'[q].at = "psend" =>
                            pc'[q].n \in Buffer /\ holder'[pc'[q].n] = q
    BY <2>1, <1>2 DEF PoolPlaces
  <2>2. CASE q = p
    BY <2>2, <1>2, <1>3, <1>4, <1>5, <1>11 DEF Moves
  <2>3. CASE q # p
    <3>1. pc'[q] = pc[q]
      BY <2>3, <1>3 DEF Moves
    <3> QED BY <3>1, <1>1, <1>5, <1>8, <1>11 DEF PoolPlaces
  <2> QED BY <2>2, <2>3
<1>14. BufferInv'
  <2>1. Pooled' = Pooled
    BY <1>2 DEF Pooled
  <2>2. PoolsBasic'
    BY <2>1, <1>1, <1>2, <1>5, <1>8, <1>11 DEF BufferInv, PoolsBasic, Types
  <2>3. PostedInv'
    <3>1. \A t \in Port : \A a \in 1 .. Len(ptq[t]) :
             Pooled /\ Undisposed(t, a) => ptq[t][a] # buf
      BY <1>8 DEF InPort
    <3> QED BY <3>1, <2>1, <1>1, <1>2, <1>9, <1>10, <1>11 DEF BufferInv, PostedInv
  <2>4. HeldInv'
    <3> SUFFICES ASSUME NEW b \in Buffer, holder'[b] \in Proc
                 PROVE  Stamped(b)'
      BY DEF HeldInv
    <3>1. CASE b = buf
      BY <3>1, <1>3, <1>4, <1>11 DEF Stamped, Moves
    <3>2. CASE b # buf
      <4>1. Stamped(b) /\ holder'[b] = holder[b]
        BY <3>2, <1>1, <1>11 DEF BufferInv, HeldInv
      <4> QED BY <4>1, <1>2, <1>3 DEF Stamped, Moves
    <3> QED BY <3>1, <3>2
  <2> QED BY <2>2, <2>3, <2>4 DEF BufferInv
<1>15. Members(L2)'
  <2>1. \A b \in Buffer : Loose(b)' <=> Loose(b) /\ b # buf
    BY <1>2, <1>5, <1>9, <1>11 DEF Loose, Pooled
  <2> QED BY <2>1, <1>2, <1>6, <1>7 DEF FreeLists, Members, OnList
<1>16. ASSUME NEW j \in Pool, PLive(j)' PROVE PoolAccount(L2, j)'
  <2>1. PLive(j) /\ PoolAccount(L, j)
    BY <1>2, <1>6, <1>16 DEF PLive, FreeLists
  <2>2. CASE j = i
    <3>1. Takers(i)' = Takers(i) \ {p} /\ p \in Takers(i) \cap Unqueued(semaph)
      BY <1>2, <1>3, <1>4 DEF Takers, Moves
    <3>2. bpsem[i] \in Sem /\ Takers(i) \subseteq Proc
      BY <2>1, <2>2, <1>1 DEF PLive, Types, Takers
    <3>3. /\ Promise(semaph', bpsem[i], Takers(i)') = Promise(semaph, bpsem[i], Takers(i)) - 1
          /\ Promise(semaph, bpsem[i], Takers(i)) \in Nat
      <4>1. Promise(semaph, bpsem[i], Takers(i) \ {p}) = Promise(semaph, bpsem[i], Takers(i)) - 1
        BY <3>1, <3>2, <1>1, PromiseUsed
      <4>2. Promise(semaph, bpsem[i], Takers(i)) \in Nat
        BY <3>2, <1>1, PromiseType
      <4> QED BY <3>1, <4>1, <4>2, <1>2
    <3>4. Freers(i)' = Freers(i) /\ Cardinality(Freers(i)) \in Nat
      BY <1>2, <1>3, <1>4, ProcFinite DEF Freers, Moves
    <3>5. Len(L[i]) \in Nat
      BY <1>5, <1>6 DEF FreeLists, Chains
    <3> QED BY <3>3, <3>4, <3>5, <2>1, <2>2, <1>2, <1>7 DEF PoolAccount, Killing
  <2>3. CASE j # i
    <3>1. LetsGo(semaph, semaph', {SYSERR})
      BY <1>1, <1>2, NobodyLetGo, LetGoOne
    <3>2. bpsem[j] # SYSERR /\ SYSERR \notin Sem
      BY <2>1, SemaphoresAssumption DEF PLive, SYSERR, Sem
    <3>3. p \notin Takers(j) \cup Freers(j)
      BY <2>3, <1>2 DEF Takers, Freers
    <3>4. Len(L2[j]) = Len(L[j])
      BY <2>3, <1>7
    <3>5. bpsem[j] \notin {SYSERR} /\ {SYSERR} \cap Sem = {}
      BY <3>2
    <3> QED BY <3>1, <3>3, <3>4, <3>5, <2>1, <1>1, <1>2, <1>3, <1>4, PoolAside
  <2> QED BY <2>2, <2>3
<1>17. PoolsInv'
  BY <1>7, <1>15, <1>16 DEF PoolsInv, FreeLists
<1> QED BY <1>9, <1>12, <1>13, <1>14, <1>17 DEF IInv

(* getbuf writes the pool into the first word of the buffer it took. *)
LEMMA GetbufStampKeeps ==
    ASSUME IInv, NEW p \in Proc, getbufStamp(p), UNCHANGED <<portVars, load>>
    PROVE  IInv'
<1>1. /\ Types /\ TableOK(semaph) /\ ClearInv /\ SeqInv /\ OwnUsed /\ OwnApart /\ WaitInv
      /\ PortsInv /\ PoolPlaces /\ BufferInv /\ PoolsInv
  BY DEF IInv
<1>a. /\ p \in Unqueued(semaph) /\ pc[p].at = "stamp" /\ pc[p].a \in 0 .. nbpools - 1
      /\ pc[p].n \in Buffer /\ holder[pc[p].n] = p
  BY <1>1, RunsUnqueued DEF getbufStamp, Reached, PoolPlaces
<1>b. PICK i \in Int : i = pc[p].a
  BY <1>a
<1>c. PICK buf \in Buffer : buf = pc[p].n
  BY <1>a
<1> DEFINE k == User
<1>2. /\ p \in Unqueued(semaph) /\ pc[p].at = "stamp" /\ i \in 0 .. nbpools - 1
      /\ holder[buf] = p
      /\ word' = [word EXCEPT ![buf] = i]
      /\ UNCHANGED <<semaph, nextsem, nbpools, bpnext, bpsem, made, holder, load>>
  BY <1>a, <1>b, <1>c DEF getbufStamp, semVars
<1>3. Moves(p, k)
  BY <1>1, GotoMoves DEF getbufStamp
<1>4. k.at = "user"
  BY DEF User, At, Frame
<1>5. Nobody \notin Proc
  BY MessagesAssumption
<1> HIDE DEF k
<1>6. PICK L : FreeLists(L)
  BY <1>1 DEF PoolsInv
<1>7. /\ TableOK(semaph') /\ ClearInv' /\ SeqInv' /\ OwnUsed' /\ OwnApart' /\ WaitInv'
      /\ PortsInv'
      /\ \A t \in Port : \A j : Undisposed(t, j)' = Undisposed(t, j)
      /\ \A b : InPort(b)' = InPort(b)
  <2>1. LetGo(semaph, semaph', SYSERR) /\ \A u \in Sem : semaph'[u].used = semaph[u].used
    BY <1>1, <1>2, NobodyLetGo
  <2> QED BY <2>1, <1>2, <1>3, <1>4, PoolStepLetsGo DEF PoolAt
<1>8. UNCHANGED <<ptstate, ptssem, ptrsem, ptmaxcnt, ptseq, ptq, ptfree, ptnextp>>
  BY DEF portVars
<1>9. /\ word'[buf] = i
      /\ \A b \in Buffer : b # buf => word'[b] = word[b]
  BY <1>1, <1>2 DEF Types
<1>10. Types'
  <2>1. \A q \in Proc : pc'[q].at \in Places
    BY <1>1, <1>3, <1>4 DEF Moves, Types, Places
  <2>2. word' \in [Buffer -> Int]
    BY <1>1, <1>2 DEF Types
  <2> QED BY <2>1, <2>2, <1>1, <1>2, <1>3, <1>8 DEF Types, Moves
<1>11. PoolPlaces'
  BY <1>1, <1>2, <1>3, <1>4 DEF PoolPlaces, Pooled, Moves
<1>12. BufferInv'
  <2>1. Pooled' = Pooled
    BY <1>2 DEF Pooled
  <2>2. PoolsBasic'
    BY <2>1, <1>1, <1>2 DEF BufferInv, PoolsBasic
  <2>3. PostedInv'
    <3>1. \A t \in Port : \A a \in 1 .. Len(ptq[t]) :
             Pooled /\ Undisposed(t, a) => ptq[t][a] \in Buffer /\ ptq[t][a] # buf
      BY <1>1, <1>2, <1>5 DEF BufferInv, PostedInv
    <3> QED BY <3>1, <2>1, <1>1, <1>2, <1>7, <1>8, <1>9 DEF BufferInv, PostedInv
  <2>4. HeldInv'
    <3> SUFFICES ASSUME NEW b \in Buffer, holder'[b] \in Proc
                 PROVE  Stamped(b)'
      BY DEF HeldInv
    <3>1. CASE b = buf
      BY <3>1, <1>2, <1>9 DEF Stamped
    <3>2. CASE b # buf
      <4>1. Stamped(b) /\ word'[b] = word[b] /\ holder'[b] = holder[b]
        BY <3>2, <1>1, <1>2, <1>9 DEF BufferInv, HeldInv
      <4>2. holder[b] = p => word[b] \in 0 .. nbpools - 1
        BY <3>2, <4>1, <1>2, <1>c DEF Stamped
      <4>3. holder[b] # p => pc'[holder[b]] = pc[holder[b]]
        BY <1>2, <1>3 DEF Moves
      <4> QED BY <4>1, <4>2, <4>3, <1>2 DEF Stamped
    <3> QED BY <3>1, <3>2
  <2> QED BY <2>2, <2>3, <2>4 DEF BufferInv
<1>13. Chains(L)'
  <2>1. Chains(L)
    BY <1>6 DEF FreeLists
  <2>2. \A j \in Pool : \A a \in 1 .. Len(L[j]) : L[j][a] \in Buffer /\ L[j][a] # buf
    <3>1. \A j \in Pool : \A a \in 1 .. Len(L[j]) : L[j][a] \in Buffer /\ OnList(L, L[j][a])
      BY <2>1 DEF Chains, OnList
    <3> QED BY <3>1, <1>2, <1>5, <1>6, ListedIsLoose
  <2>3. \A j \in Pool : IsFreeList(j, L[j])'
    BY <2>1, <2>2, <1>2, <1>9 DEF Chains, IsFreeList
  <2> QED BY <2>1, <2>3 DEF Chains
<1>14. Members(L)'
  <2>1. \A b \in Buffer : Loose(b)' <=> Loose(b)
    BY <1>2, <1>7 DEF Loose, Pooled
  <2> QED BY <2>1, <1>2, <1>6 DEF FreeLists, Members, OnList
<1>15. ASSUME NEW j \in Pool, PLive(j)' PROVE PoolAccount(L, j)'
  <2>1. PLive(j) /\ PoolAccount(L, j)
    BY <1>2, <1>6, <1>15 DEF PLive, FreeLists
  <2>2. LetsGo(semaph, semaph', {SYSERR})
    BY <1>1, <1>2, NobodyLetGo, LetGoOne
  <2>3. bpsem[j] \notin {SYSERR} /\ {SYSERR} \cap Sem = {}
    BY <2>1, SemaphoresAssumption DEF PLive, SYSERR, Sem
  <2>4. p \notin Takers(j) \cup Freers(j)
    BY <1>2 DEF Takers, Freers
  <2> QED BY <2>1, <2>2, <2>3, <2>4, <1>1, <1>2, <1>3, <1>4, PoolAside
<1>16. PoolsInv'
  BY <1>13, <1>14, <1>15 DEF PoolsInv, FreeLists
<1> QED BY <1>7, <1>10, <1>11, <1>12, <1>16 DEF IInv

(* freebuf: the caller gives up a buffer that is stamped. *)
LEMMA FreebufKeeps ==
    ASSUME IInv, NEW p \in Proc, NEW buf \in Buffer, freebuf(p, buf), UNCHANGED <<portVars, load>>
    PROVE  IInv'
<1> DEFINE k == At("relink", word[buf], buf)
<1>1. /\ Types /\ TableOK(semaph) /\ ClearInv /\ SeqInv /\ OwnUsed /\ OwnApart /\ WaitInv
      /\ PortsInv /\ PoolPlaces /\ BufferInv /\ PoolsInv
  BY DEF IInv
<1>2. /\ pc[p].at = "user" /\ holder[buf] = p /\ word[buf] \in 0 .. nbpools - 1
      /\ UNCHANGED <<semaph, nextsem, nbpools, bpnext, bpsem, word, made, holder, poolVars, load>>
  BY DEF freebuf, InUser, semVars, poolVars
<1>3. Moves(p, k)
  BY <1>1, GotoMoves DEF freebuf
<1>4. k.at = "relink" /\ k.a = word[buf] /\ k.n = buf
  BY DEF At, Frame
<1>5. p \in Unqueued(semaph) /\ Nobody \notin Proc
  BY <1>1, <1>2, UserUnqueued, MessagesAssumption
<1> HIDE DEF k
<1>6. PICK L : FreeLists(L)
  BY <1>1 DEF PoolsInv
<1>7. /\ TableOK(semaph') /\ ClearInv' /\ SeqInv' /\ OwnUsed' /\ OwnApart' /\ WaitInv'
      /\ PortsInv'
      /\ \A t \in Port : \A j : Undisposed(t, j)' = Undisposed(t, j)
      /\ \A b : InPort(b)' = InPort(b)
  <2>1. LetGo(semaph, semaph', SYSERR) /\ \A u \in Sem : semaph'[u].used = semaph[u].used
    BY <1>1, <1>2, NobodyLetGo
  <2> QED BY <2>1, <1>2, <1>3, <1>4, <1>5, PoolStepLetsGo DEF PoolAt
<1>8. UNCHANGED <<ptstate, ptssem, ptrsem, ptmaxcnt, ptseq, ptq, ptfree, ptnextp>>
  BY DEF portVars
<1>9. Types'
  <2>1. \A q \in Proc : pc'[q].at \in Places
    BY <1>1, <1>3, <1>4 DEF Moves, Types, Places
  <2> QED BY <2>1, <1>1, <1>2, <1>3, <1>8 DEF Types, Moves
<1>10. PoolPlaces'
  BY <1>1, <1>2, <1>3, <1>4 DEF PoolPlaces, Pooled, Moves
<1>11. BufferInv' /\ \A b \in Buffer : Loose(b)' = Loose(b)
  BY <1>1, <1>2, <1>3, <1>5, <1>7, <1>8, BuffersStay
<1>12. ASSUME NEW j \in Pool, PLive(j) PROVE PoolAccount(L, j)'
  <2>1. PoolAccount(L, j)
    BY <1>6, <1>12 DEF FreeLists
  <2>2. LetsGo(semaph, semaph', {SYSERR})
    BY <1>1, <1>2, NobodyLetGo, LetGoOne
  <2>3. bpsem[j] \notin {SYSERR} /\ {SYSERR} \cap Sem = {}
    BY <1>12, SemaphoresAssumption DEF PLive, SYSERR, Sem
  <2>4. p \notin Takers(j) \cup Freers(j)
    BY <1>2 DEF Takers, Freers
  <2> QED BY <2>1, <2>2, <2>3, <2>4, <1>1, <1>2, <1>3, <1>4, <1>12, PoolAside
<1>13. PoolsInv'
  BY <1>2, <1>6, <1>11, <1>12, ListsSame DEF PoolsInv
<1> QED BY <1>7, <1>9, <1>10, <1>11, <1>13 DEF IInv

(* A buffer that was not loose comes back to the front of list i. *)
LEMMA RelinkLists ==
    ASSUME Types, NEW L, Chains(L), Members(L), NEW i \in Pool, NEW c \in Buffer,
           c <= made, ~ Loose(c), LinkFirst(i, c), UNCHANGED <<made, load>>,
           \A b \in Buffer : Loose(b)' <=> Loose(b) \/ b = c,
           NEW L2, L2 = Longer(L, i, c)
    PROVE  /\ Chains(L2)' /\ Members(L2)'
           /\ Len(L2[i]) = Len(L[i]) + 1
           /\ \A j \in Pool : j # i => L2[j] = L[j]
<1>1. ~ OnList(L, c)
  BY DEF Members
<1>2. bpnext \in [Pool -> Buffer \cup {NULL}] /\ word \in [Buffer -> Int]
  BY DEF Types
<1>3. /\ Chains(L2)'
      /\ \A b : OnList(L2, b) <=> OnList(L, b) \/ b = c
      /\ Len(L2[i]) = Len(L[i]) + 1
      /\ \A j \in Pool : j # i => L2[j] = L[j]
  BY <1>1, <1>2, ListAdd
<1>4. Members(L2)'
  BY <1>3 DEF Members, OnList
<1> QED BY <1>3, <1>4

(* The ports hold no buffer that a process has. *)
LEMMA HeldNotLoose ==
    ASSUME BufferInv, NEW b \in Buffer, holder[b] # Nobody
    PROVE  ~ Loose(b) /\ b <= made /\ (Pooled => ~ InPort(b))
BY DEF BufferInv, PoolsBasic, PostedInv, Loose, InPort

(* freebuf links the buffer; its semaphore still lacks it. *)
LEMMA FreebufRelinkKeeps ==
    ASSUME IInv, NEW p \in Proc, freebufRelink(p), UNCHANGED <<portVars, load>>
    PROVE  IInv'
<1>1. /\ Types /\ TableOK(semaph) /\ ClearInv /\ SeqInv /\ OwnUsed /\ OwnApart /\ WaitInv
      /\ PortsInv /\ PoolPlaces /\ BufferInv /\ PoolsInv
  BY DEF IInv
<1>a. /\ p \in Unqueued(semaph) /\ pc[p].at = "relink" /\ pc[p].a \in 0 .. nbpools - 1
      /\ pc[p].n \in Buffer /\ holder[pc[p].n] = p
  BY <1>1, RunsUnqueued DEF freebufRelink, Reached, PoolPlaces
<1>b. PICK i \in Pool : i = pc[p].a
  BY <1>1, <1>a, PoolsAssumption DEF Types, Pool
<1>c. PICK buf \in Buffer : buf = pc[p].n
  BY <1>a
<1> DEFINE k == At("release", i, 0)
<1>2. /\ p \in Unqueued(semaph) /\ pc[p].at = "relink" /\ i \in 0 .. nbpools - 1
      /\ holder[buf] = p
      /\ bpnext' = [bpnext EXCEPT ![i] = buf]
      /\ word' = [word EXCEPT ![buf] = bpnext[i]]
      /\ holder' = [holder EXCEPT ![buf] = Nobody]
      /\ UNCHANGED <<semaph, nextsem, nbpools, bpsem, made, load>>
  BY <1>a, <1>b, <1>c DEF freebufRelink, Relink, semVars
<1>3. Moves(p, k)
  BY <1>1, <1>b, GotoMoves DEF freebufRelink
<1>4. k.at = "release" /\ k.a = i
  BY DEF At, Frame
<1>5. Nobody \notin Proc /\ holder[buf] # Nobody
  BY <1>2, MessagesAssumption
<1> HIDE DEF k
<1>6. PICK L : FreeLists(L)
  BY <1>1 DEF PoolsInv
<1>7. /\ TableOK(semaph') /\ ClearInv' /\ SeqInv' /\ OwnUsed' /\ OwnApart' /\ WaitInv'
      /\ PortsInv'
      /\ \A t \in Port : \A j : Undisposed(t, j)' = Undisposed(t, j)
      /\ \A b : InPort(b)' = InPort(b)
  <2>1. LetGo(semaph, semaph', SYSERR) /\ \A u \in Sem : semaph'[u].used = semaph[u].used
    BY <1>1, <1>2, NobodyLetGo
  <2> QED BY <2>1, <1>2, <1>3, <1>4, PoolStepLetsGo DEF PoolAt
<1>8. UNCHANGED <<ptstate, ptssem, ptrsem, ptmaxcnt, ptseq, ptq, ptfree, ptnextp>>
  BY DEF portVars
<1>9. /\ holder'[buf] = Nobody
      /\ \A b \in Buffer : b # buf => holder'[b] = holder[b] /\ word'[b] = word[b]
  BY <1>1, <1>2 DEF Types
<1>10. buf <= made /\ ~ Loose(buf) /\ (Pooled => ~ InPort(buf))
  BY <1>1, <1>5, HeldNotLoose
<1>11. Types'
  <2>1. \A q \in Proc : pc'[q].at \in Places
    BY <1>1, <1>3, <1>4 DEF Moves, Types, Places
  <2>2. bpnext' \in [Pool -> Buffer \cup {NULL}] /\ word' \in [Buffer -> Int]
    BY <1>1, <1>2 DEF Types, Buffer, NULL
  <2>3. holder' \in [Buffer -> Proc \cup {Nobody}]
    BY <1>1, <1>2 DEF Types
  <2> QED BY <2>1, <2>2, <2>3, <1>1, <1>2, <1>3, <1>8 DEF Types, Moves
<1>12. PoolPlaces'
  <2>1. Pooled' = Pooled
    BY <1>2 DEF Pooled
  <2> SUFFICES ASSUME NEW q \in Proc
               PROVE  /\ pc'[q].at \in {"unlink", "stamp", "relink", "release"} =>
                            pc'[q].a \in 0 .. nbpools - 1
                      /\ pc'[q].at \in {"stamp", "relink"} =>
                            pc'[q].n \in Buffer /\ holder'[pc'[q].n] = q
                      /\ Pooled /\ pc'[q].at = "psend" =>
                            pc'[q].n \in Buffer /\ holder'[pc'[q].n] = q
    BY <2>1, <1>2 DEF PoolPlaces
  <2>2. CASE q = p
    BY <2>2, <1>2, <1>3, <1>4 DEF Moves
  <2>3. CASE q # p
    <3>1. pc'[q] = pc[q]
      BY <2>3, <1>3 DEF Moves
    <3> QED BY <3>1, <2>3, <1>1, <1>2, <1>9 DEF PoolPlaces
  <2> QED BY <2>2, <2>3
<1>13. BufferInv'
  <2>1. Pooled' = Pooled
    BY <1>2 DEF Pooled
  <2>2. PoolsBasic'
    BY <2>1, <1>1, <1>2, <1>9 DEF BufferInv, PoolsBasic, Types
  <2>3. PostedInv'
    <3>1. \A t \in Port : \A a \in 1 .. Len(ptq[t]) :
             Pooled /\ Undisposed(t, a) => ptq[t][a] \in Buffer /\ ptq[t][a] # buf
      BY <1>1, <1>5 DEF BufferInv, PostedInv
    <3> QED BY <3>1, <2>1, <1>1, <1>2, <1>7, <1>8, <1>9 DEF BufferInv, PostedInv
  <2>4. HeldInv'
    <3> SUFFICES ASSUME NEW b \in Buffer, holder'[b] \in Proc
                 PROVE  Stamped(b)'
      BY DEF HeldInv
    <3>1. b # buf
      BY <1>5, <1>9
    <3>2. Stamped(b) /\ word'[b] = word[b] /\ holder'[b] = holder[b]
      BY <3>1, <1>1, <1>9 DEF BufferInv, HeldInv
    <3>3. holder[b] = p => word[b] \in 0 .. nbpools - 1
      BY <3>2, <1>2 DEF Stamped
    <3>4. holder[b] # p => pc'[holder[b]] = pc[holder[b]]
      BY <3>2, <1>3 DEF Moves
    <3> QED BY <3>2, <3>3, <3>4, <1>2 DEF Stamped
  <2> QED BY <2>2, <2>3, <2>4 DEF BufferInv
<1> DEFINE L2 == Longer(L, i, buf)
<1>14. /\ Chains(L2)' /\ Members(L2)'
       /\ Len(L2[i]) = Len(L[i]) + 1
       /\ \A j \in Pool : j # i => L2[j] = L[j]
  <2>1. \A b \in Buffer : Loose(b)' <=> Loose(b) \/ b = buf
    BY <1>2, <1>7, <1>9, <1>10 DEF Loose, Pooled
  <2>2. LinkFirst(i, buf) /\ UNCHANGED <<made, load>>
    BY <1>2 DEF LinkFirst
  <2>3. Chains(L) /\ Members(L)
    BY <1>6 DEF FreeLists
  <2> HIDE DEF L2
  <2> QED BY <2>1, <2>2, <2>3, <1>1, <1>10, RelinkLists DEF L2
<1> HIDE DEF L2
<1>15. ASSUME NEW j \in Pool, PLive(j)' PROVE PoolAccount(L2, j)'
  <2>1. PLive(j) /\ PoolAccount(L, j)
    BY <1>2, <1>6, <1>15 DEF PLive, FreeLists
  <2>2. CASE j = i
    <3>1. Freers(i)' = Freers(i) \cup {p} /\ p \notin Freers(i)
      BY <1>2, <1>3, <1>4 DEF Freers, Moves
    <3>2. bpsem[i] \in Sem /\ Takers(i) \subseteq Proc /\ Freers(i) \subseteq Proc
      BY <2>1, <2>2, <1>1 DEF PLive, Types, Takers, Freers
    <3>3. /\ Cardinality(Freers(i)') = Cardinality(Freers(i)) + 1
          /\ Cardinality(Freers(i)) \in Nat
      BY <3>1, <3>2, ProcFinite, OneMore
    <3>4. Takers(i)' = Takers(i)
      BY <1>2, <1>3, <1>4 DEF Takers, Moves
    <3>5. /\ Promise(semaph', bpsem[i], Takers(i)') = Promise(semaph, bpsem[i], Takers(i))
          /\ Promise(semaph, bpsem[i], Takers(i)) \in Nat
      BY <3>2, <3>4, <1>1, <1>2, PromiseType
    <3>6. Len(L[i]) \in Nat
      BY <1>6 DEF FreeLists, Chains
    <3> QED BY <3>3, <3>5, <3>6, <2>1, <2>2, <1>2, <1>14 DEF PoolAccount, Killing
  <2>3. CASE j # i
    <3>1. LetsGo(semaph, semaph', {SYSERR})
      BY <1>1, <1>2, NobodyLetGo, LetGoOne
    <3>2. bpsem[j] \notin {SYSERR} /\ {SYSERR} \cap Sem = {}
      BY <2>1, SemaphoresAssumption DEF PLive, SYSERR, Sem
    <3>3. p \notin Takers(j) \cup Freers(j)
      BY <1>2 DEF Takers, Freers
    <3>4. Len(L2[j]) = Len(L[j])
      BY <2>3, <1>14
    <3> QED BY <3>1, <3>2, <3>3, <3>4, <2>1, <2>3, <1>1, <1>2, <1>3, <1>4, PoolAside
  <2> QED BY <2>2, <2>3
<1>16. PoolsInv'
  BY <1>14, <1>15 DEF PoolsInv, FreeLists
<1> QED BY <1>7, <1>11, <1>12, <1>13, <1>16 DEF IInv

(* freebuf signals: the pool's semaphore promises the buffer. *)
LEMMA FreebufSignalKeeps ==
    ASSUME IInv, NEW p \in Proc, freebufSignal(p), UNCHANGED <<portVars, load>>
    PROVE  IInv'
<1> DEFINE k == User
<1>1. /\ Types /\ TableOK(semaph) /\ ClearInv /\ SeqInv /\ OwnUsed /\ OwnApart /\ WaitInv
      /\ PortsInv /\ PoolPlaces /\ BufferInv /\ PoolsInv
  BY DEF IInv
<1>a. p \in Unqueued(semaph) /\ pc[p].at = "release" /\ pc[p].a \in 0 .. nbpools - 1
  BY <1>1, RunsUnqueued DEF freebufSignal, Reached, PoolPlaces
<1>b. PICK i \in Pool : i = pc[p].a
  BY <1>1, <1>a, PoolsAssumption DEF Types, Pool
<1>c. PICK s \in Sem \cup {SYSERR} : s = bpsem[i]
  BY <1>1 DEF Types
<1>2. /\ p \in Unqueued(semaph) /\ pc[p].at = "release" /\ pc[p].a = i /\ i \in 0 .. nbpools - 1
      /\ semaph' = signal(semaph, s)
      /\ UNCHANGED <<nextsem, nbpools, bpnext, bpsem, word, made, holder, poolVars, load>>
  BY <1>a, <1>b, <1>c DEF freebufSignal, AfterRelease, poolVars
<1>3. Moves(p, k)
  BY <1>1, GotoMoves DEF freebufSignal
<1>4. k.at = "user"
  BY DEF User, At, Frame
<1>5. Nobody \notin Proc
  BY MessagesAssumption
<1> HIDE DEF k
<1>6. PICK L : FreeLists(L)
  BY <1>1 DEF PoolsInv
<1>7. LetGo(semaph, semaph', s) /\ \A u \in Sem : semaph'[u].used = semaph[u].used
  BY <1>1, <1>2, SignalLetsGo
<1>8. s = SYSERR \/ PLive(i)
  BY <1>1, <1>2, <1>c DEF PLive, Types
<1>9. /\ TableOK(semaph') /\ ClearInv' /\ SeqInv' /\ OwnUsed' /\ OwnApart' /\ WaitInv'
      /\ PortsInv'
      /\ \A t \in Port : \A j : Undisposed(t, j)' = Undisposed(t, j)
      /\ \A b : InPort(b)' = InPort(b)
  BY <1>2, <1>3, <1>4, <1>7, <1>8, <1>c, PoolStepLetsGo DEF PoolAt
<1>10. UNCHANGED <<ptstate, ptssem, ptrsem, ptmaxcnt, ptseq, ptq, ptfree, ptnextp>>
  BY DEF portVars
<1>11. Types'
  <2>1. \A q \in Proc : pc'[q].at \in Places
    BY <1>1, <1>3, <1>4 DEF Moves, Types, Places
  <2> QED BY <2>1, <1>1, <1>2, <1>3, <1>10 DEF Types, Moves
<1>12. PoolPlaces'
  BY <1>1, <1>2, <1>3, <1>4 DEF PoolPlaces, Pooled, Moves
<1>13. BufferInv' /\ \A b \in Buffer : Loose(b)' = Loose(b)
  BY <1>1, <1>2, <1>3, <1>5, <1>9, <1>10, BuffersStay
<1>14. ASSUME NEW j \in Pool, PLive(j) PROVE PoolAccount(L, j)'
  <2>1. PoolAccount(L, j) /\ bpsem[j] \in Sem /\ SYSERR \notin Sem
    BY <1>1, <1>6, <1>14, SemaphoresAssumption DEF FreeLists, PLive, Types, SYSERR, Sem
  <2>2. CASE j = i
    <3>1. s \in Sem /\ s = bpsem[j] /\ semaph[s].used
      BY <1>14, <2>1, <2>2, <1>1, <1>c DEF OwnUsed
    <3>2. Waiting(semaph, s) \subseteq Takers(j)
      <4>1. \A q \in Waiting(semaph, s) : q \in Proc
        BY <3>1, <1>1 DEF TableOK, SemRec, Waiting
      <4> QED BY <4>1, <3>1, <1>14, <1>1 DEF WaitInv, Takers
    <3>3. Takers(j) \subseteq Proc /\ Freers(j) \subseteq Proc
      BY DEF Takers, Freers
    <3>4. /\ Promise(semaph', s, Takers(j)) = Promise(semaph, s, Takers(j)) + 1
          /\ Promise(semaph, s, Takers(j)) \in Nat
      BY <3>1, <3>2, <3>3, <1>1, <1>2, PromiseSignal, PromiseType
    <3>5. Takers(j)' = Takers(j)
      BY <1>2, <1>3, <1>4 DEF Takers, Moves
    <3>6. Freers(j)' = Freers(j) \ {p} /\ p \in Freers(j)
      BY <2>2, <1>2, <1>3, <1>4 DEF Freers, Moves
    <3>7. /\ Cardinality(Freers(j)') = Cardinality(Freers(j)) - 1
          /\ Cardinality(Freers(j)) \in Nat
      BY <3>3, <3>6, ProcFinite, OneLess
    <3>8. Len(L[j]) \in Nat
      BY <1>6 DEF FreeLists, Chains
    <3> QED BY <3>1, <3>4, <3>5, <3>7, <3>8, <2>1, <1>2 DEF PoolAccount, Killing
  <2>3. CASE j # i
    <3>1. LetsGo(semaph, semaph', {s})
      BY <1>7, LetGoOne
    <3>2. bpsem[j] \notin {s}
      BY <2>1, <2>3, <1>8, <1>14, <1>1, <1>c DEF OwnApart
    <3>3. p \notin Takers(j) \cup Freers(j)
      BY <2>3, <1>2 DEF Takers, Freers
    <3>4. \A q \in Takers(j), u \in {s} \cap Sem : q \notin Waiting(semaph, u)
      <4>1. s \in Sem => PLive(i)
        BY <2>1, <1>8
      <4> QED BY <4>1, <2>3, <1>1, <1>c DEF WaitInv, Takers
    <3> QED BY <3>1, <3>2, <3>3, <3>4, <2>1, <1>14, <1>1, <1>2, <1>3, <1>4, PoolAside
  <2> QED BY <2>2, <2>3
<1>15. PoolsInv'
  BY <1>2, <1>6, <1>13, <1>14, ListsSame DEF PoolsInv
<1> QED BY <1>9, <1>11, <1>12, <1>13, <1>15 DEF IInv

(* The list of a new pool: the buffers cut from memory, in their order. *)
CutPool(i, n) == /\ bpnext' = [bpnext EXCEPT ![i] = made + 1]
                 /\ made' = made + n
                 /\ word' = Linked(made + 1, made + n)
AsCut(L, i, n) == [L EXCEPT ![i] = [a \in 1 .. n |-> made + a]]

(* mkpool cuts buffers that were on no list into a list of a pool that was empty. *)
LEMMA ListNew ==
    ASSUME Types, PoolsBasic, NEW L, Chains(L), Members(L),
           NEW n \in Nat \ {0}, made + n <= NBUFS,
           NEW i \in Pool, i = nbpools, CutPool(i, n), UNCHANGED load,
           \A b \in Buffer : Loose(b)' = Loose(b),
           \A b \in Buffer : b > made => Loose(b),
           NEW L2, L2 = AsCut(L, i, n)
    PROVE  /\ Chains(L2)' /\ Members(L2)'
           /\ Len(L2[i]) = n
           /\ \A j \in Pool : j # i => L2[j] = L[j]
<1>a. PICK l : l = [a \in 1 .. n |-> made + a]
  OBVIOUS
<1>0. /\ bpnext' = [bpnext EXCEPT ![i] = made + 1] /\ made' = made + n
      /\ word' = Linked(made + 1, made + n)
      /\ L2 = [L EXCEPT ![i] = l]
  BY <1>a DEF CutPool, AsCut
<1>1. /\ made \in Nat /\ NBUFS \in Nat
      /\ \A a \in 1 .. n : made + a \in Buffer /\ made + a > made
      /\ made + 1 \in Buffer
  BY PoolsAssumption DEF Types, Buffer
<1>2. /\ l \in Seq(Buffer) /\ Len(l) = n /\ l # <<>>
      /\ \A a \in 1 .. n : l[a] = made + a
  <2>1. l \in [1 .. n -> Buffer] /\ DOMAIN l = 1 .. n
    BY <1>a, <1>1
  <2>2. l \in Seq(Buffer)
    BY <2>1
  <2>3. Len(l) = n
    BY <2>1, <2>2, LenProperties
  <2>4. l # <<>>
    BY <2>2, <2>3, EmptySeq
  <2> QED BY <2>2, <2>3, <2>4, <1>a
<1>3. /\ L \in [Pool -> Seq(Buffer)]
      /\ \A j \in Pool : L[j] \in Seq(Buffer) /\ IsFreeList(j, L[j])
      /\ \A j, h \in Pool : \A a \in 1 .. Len(L[j]), d \in 1 .. Len(L[h]) :
            L[j][a] = L[h][d] => j = h /\ a = d
  BY DEF Chains
<1>4. /\ L2 \in [Pool -> Seq(Buffer)]
      /\ L2[i] = l
      /\ \A j \in Pool : j # i => L2[j] = L[j]
  BY <1>0, <1>2, <1>3
<1>5. \A j \in Pool : \A a \in 1 .. Len(L[j]) : L[j][a] \in Buffer /\ L[j][a] <= made
  <2> SUFFICES ASSUME NEW j \in Pool, NEW a \in 1 .. Len(L[j])
               PROVE  L[j][a] \in Buffer /\ L[j][a] <= made
    OBVIOUS
  <2>1. L[j][a] \in Buffer
    BY <1>3
  <2>2. OnList(L, L[j][a])
    BY DEF OnList
  <2> QED BY <2>1, <2>2 DEF Members
<1>6. L[i] = <<>>
  <2>1. bpnext[i] = NULL
    <3>1. i >= nbpools
      BY DEF Types
    <3> QED BY <3>1 DEF PoolsBasic
  <2>2. L[i] # <<>> => 1 \in 1 .. Len(L[i])
    BY <1>3, EmptySeq, LenProperties
  <2>3. L[i] # <<>> => bpnext[i] \in Buffer
    BY <2>2, <1>3 DEF IsFreeList
  <2> QED BY <2>1, <2>3 DEF Buffer, NULL
<1>7. Len(L[i]) = 0
  BY <1>6
<1>8. \A b \in Buffer : b <= made => word'[b] = word[b]
  BY <1>0, <1>1 DEF Linked
<1>9. \A a \in 1 .. n : word'[made + a] = IF a = n THEN NULL ELSE made + (a + 1)
  <2> SUFFICES ASSUME NEW a \in 1 .. n
               PROVE  word'[made + a] = IF a = n THEN NULL ELSE made + (a + 1)
    OBVIOUS
  <2>1. word'[made + a] = IF made + a \in (made + 1) .. ((made + n) - 1) THEN (made + a) + 1
                          ELSE IF made + a = made + n THEN NULL ELSE word[made + a]
    BY <1>0, <1>1 DEF Linked
  <2> QED BY <2>1, <1>1
<1>10. IsFreeList(i, l)'
  <2>1. bpnext'[i] = IF l = <<>> THEN NULL ELSE l[1]
    <3>1. bpnext'[i] = made + 1
      BY <1>0 DEF Types
    <3> QED BY <3>1, <1>2
  <2>2. \A a \in 1 .. Len(l) : word'[l[a]] = IF a = Len(l) THEN NULL ELSE l[a + 1]
    <3> SUFFICES ASSUME NEW a \in 1 .. n
                 PROVE  word'[l[a]] = IF a = n THEN NULL ELSE l[a + 1]
      BY <1>2
    <3>1. a # n => a + 1 \in 1 .. n
      OBVIOUS
    <3> QED BY <3>1, <1>2, <1>9
  <2> QED BY <2>1, <2>2 DEF IsFreeList
<1>11. ASSUME NEW j \in Pool PROVE IsFreeList(j, L2[j])'
  <2>1. CASE j = i
    BY <2>1, <1>4, <1>10 DEF IsFreeList
  <2>2. CASE j # i
    <3>1. bpnext'[j] = bpnext[j] /\ L2[j] = L[j] /\ IsFreeList(j, L[j])
      BY <2>2, <1>0, <1>3, <1>4 DEF Types
    <3>2. \A a \in 1 .. Len(L[j]) : word'[L[j][a]] = word[L[j][a]]
      BY <1>5, <1>8
    <3> QED BY <3>1, <3>2 DEF IsFreeList
  <2> QED BY <2>1, <2>2
<1>12. \A j \in Pool : \A a \in 1 .. Len(L2[j]) :
          \/ j = i /\ a \in 1 .. n /\ L2[j][a] = made + a /\ L2[j][a] > made
          \/ j # i /\ a \in 1 .. Len(L[j]) /\ L2[j][a] = L[j][a] /\ L[j][a] <= made
  BY <1>1, <1>2, <1>4, <1>5
<1>13. \A j, h \in Pool : \A a \in 1 .. Len(L2[j]), d \in 1 .. Len(L2[h]) :
            L2[j][a] = L2[h][d] => j = h /\ a = d
  <2> SUFFICES ASSUME NEW j \in Pool, NEW h \in Pool,
                      NEW a \in 1 .. Len(L2[j]), NEW d \in 1 .. Len(L2[h]),
                      L2[j][a] = L2[h][d]
               PROVE  j = h /\ a = d
    OBVIOUS
  <2>1. CASE j = i
    <3>1. a \in 1 .. n /\ L2[j][a] = made + a /\ made + a > made
      BY <2>1, <1>1, <1>12
    <3>2. h = i /\ d \in 1 .. n /\ L2[h][d] = made + d
      <4>1. h # i => L2[h][d] <= made
        BY <1>12
      <4>2. h # i => FALSE
        BY <4>1, <3>1, <1>1
      <4> QED BY <4>2, <1>12
    <3>3. a \in Int /\ d \in Int
      BY <3>1, <3>2
    <3>4. made + a = made + d
      BY <3>1, <3>2
    <3> QED BY <3>2, <3>3, <3>4, <2>1, <1>1
  <2>2. CASE j # i
    <3>1. a \in 1 .. Len(L[j]) /\ L2[j][a] = L[j][a] /\ L[j][a] <= made
      BY <2>2, <1>12
    <3>2. h # i /\ d \in 1 .. Len(L[h]) /\ L2[h][d] = L[h][d]
      <4>1. h = i => d \in 1 .. n /\ L2[h][d] = made + d
        BY <1>12
      <4>2. h = i => FALSE
        BY <4>1, <3>1, <1>1
      <4> QED BY <4>2, <1>12
    <3>3. L[j][a] = L[h][d]
      BY <3>1, <3>2
    <3> QED BY <3>1, <3>2, <3>3, <1>3
  <2> QED BY <2>1, <2>2
<1>14. Chains(L2)'
  BY <1>4, <1>11, <1>13 DEF Chains
<1>15. \A b \in Buffer : OnList(L2, b) => OnList(L, b) \/ b > made
  <2> SUFFICES ASSUME NEW b \in Buffer, OnList(L2, b), ~ (b > made)
               PROVE  OnList(L, b)
    OBVIOUS
  <2>1. PICK j \in Pool : \E a \in 1 .. Len(L2[j]) : L2[j][a] = b
    BY DEF OnList
  <2>2. PICK a \in 1 .. Len(L2[j]) : L2[j][a] = b
    BY <2>1
  <2> QED BY <2>2, <1>12 DEF OnList
<1>16. \A b \in Buffer : OnList(L, b) => OnList(L2, b)
  <2> SUFFICES ASSUME NEW b \in Buffer, OnList(L, b)
               PROVE  OnList(L2, b)
    OBVIOUS
  <2>1. PICK j \in Pool : \E a \in 1 .. Len(L[j]) : L[j][a] = b
    BY DEF OnList
  <2>2. PICK a \in 1 .. Len(L[j]) : L[j][a] = b
    BY <2>1
  <2>3. j # i
    BY <2>2, <1>7
  <2> QED BY <2>2, <2>3, <1>4 DEF OnList
<1>17. \A b \in Buffer : b > made /\ b <= made + n => OnList(L2, b)
  <2> SUFFICES ASSUME NEW b \in Buffer, b > made, b <= made + n
               PROVE  OnList(L2, b)
    OBVIOUS
  <2>1. b - made \in 1 .. n /\ made + (b - made) = b
    BY <1>1 DEF Buffer
  <2>2. l[b - made] = b
    BY <2>1, <1>2
  <2>3. b - made \in 1 .. Len(L2[i]) /\ L2[i][b - made] = b
    BY <2>1, <2>2, <1>2, <1>4
  <2> QED BY <2>3 DEF OnList
<1>18. Members(L2)'
  <2>1. \A b \in Buffer : OnList(L2, b) => b <= made + n /\ Loose(b)
    <3> SUFFICES ASSUME NEW b \in Buffer, OnList(L2, b)
                 PROVE  b <= made + n /\ Loose(b)
      OBVIOUS
    <3>1. CASE OnList(L, b)
      <4>1. b <= made /\ Loose(b)
        BY <3>1 DEF Members
      <4> QED BY <4>1, <1>1 DEF Buffer
    <3>2. CASE ~ OnList(L, b)
      <4>1. b > made
        BY <3>2, <1>15
      <4>2. PICK j \in Pool : \E a \in 1 .. Len(L2[j]) : L2[j][a] = b
        BY DEF OnList
      <4>3. PICK a \in 1 .. Len(L2[j]) : L2[j][a] = b
        BY <4>2
      <4>4. ~ (L2[j][a] <= made)
        BY <4>1, <4>3, <1>1 DEF Buffer
      <4>5. a \in 1 .. n /\ b = made + a
        BY <4>3, <4>4, <1>12
      <4>6. b <= made + n
        BY <4>5, <1>1
      <4> QED BY <4>1, <4>6
    <3> QED BY <3>1, <3>2
  <2>2. ~ {"ports", "kill"} \subseteq load.calls =>
           \A b \in Buffer : b <= made + n /\ Loose(b) => OnList(L2, b)
    <3> SUFFICES ASSUME ~ {"ports", "kill"} \subseteq load.calls,
                        NEW b \in Buffer, b <= made + n, Loose(b)
                 PROVE  OnList(L2, b)
      OBVIOUS
    <3>1. b <= made \/ b > made
      BY <1>1 DEF Buffer
    <3> QED BY <3>1, <1>16, <1>17 DEF Members
  <2>3. \A b : OnList(L2, b)' = OnList(L2, b)
    BY DEF OnList
  <2> QED BY <2>1, <2>2, <2>3, <1>0 DEF Members
<1> QED BY <1>2, <1>4, <1>14, <1>18

(* mkpool: a new pool, whose semaphore promises all that was cut. *)
LEMMA MkpoolKeeps ==
    ASSUME IInv, Pooled, NEW p \in Proc, NEW n \in Nat \ {0}, mkpool(p, n),
           UNCHANGED <<portVars, load>>
    PROVE  IInv'
<1>1. /\ Types /\ TableOK(semaph) /\ ClearInv /\ SeqInv /\ OwnUsed /\ OwnApart /\ WaitInv
      /\ PortsInv /\ PoolPlaces /\ BufferInv /\ PoolsInv
  BY DEF IInv
<1>a. newsem(semaph, nextsem) \in Sem \cup {SYSERR} /\ SearchedTo(semaph, nextsem) \in Sem
  BY <1>1, NewSemUnused DEF Types
<1>b. PICK s \in Sem \cup {SYSERR} : s = newsem(semaph, nextsem)
  BY <1>a
<1>c. PICK i \in Pool : i = nbpools
  <2>1. nbpools \in 0 .. NBPOOLS /\ nbpools < NBPOOLS
    BY <1>1 DEF Types, mkpool
  <2> QED BY <2>1, PoolsAssumption DEF Pool
<1>2. /\ pc[p].at = "user" /\ made + n <= NBUFS
      /\ nbpools' = i + 1
      /\ bpnext' = [bpnext EXCEPT ![i] = made + 1]
      /\ bpsem' = [bpsem EXCEPT ![i] = s]
      /\ semaph' = screate(semaph, s, n)
      /\ nextsem' = SearchedTo(semaph, nextsem)
      /\ word' = Linked(made + 1, made + n)
      /\ made' = made + n
      /\ UNCHANGED <<holder, pc, load>>
  BY <1>b, <1>c DEF mkpool, InUser
<1>3. /\ Moves(p, pc[p])
      /\ \A q \in Proc : pc'[q] = pc[q]
  BY <1>1, <1>2, StaysMoves
<1>4. /\ i = nbpools /\ i \in Nat /\ made \in Nat /\ NBUFS \in Nat
      /\ SYSERR \notin Sem
  BY <1>1, <1>c, PoolsAssumption, SemaphoresAssumption DEF Types, SYSERR, Sem
<1>5. PICK L : FreeLists(L)
  BY <1>1 DEF PoolsInv
<1>6. UNCHANGED <<ptstate, ptssem, ptrsem, ptmaxcnt, ptseq, ptq, ptfree, ptnextp>>
  BY DEF portVars
<1>7. /\ TableOK(semaph')
      /\ Unqueued(semaph') = Unqueued(semaph)
      /\ \A u \in Sem : Waiting(semaph', u) = Waiting(semaph, u)
      /\ \A u \in Sem \ {s} : semaph'[u] = semaph[u]
      /\ s # SYSERR => /\ ~ semaph[s].used /\ semaph'[s].used
                       /\ semaph'[s].cnt = n
                       /\ Waiting(semaph', s) = {}
  <2>1. s # SYSERR => ~ semaph[s].used
    BY <1>1, <1>b, NewSemUnused DEF Types
  <2> QED BY <2>1, <1>1, <1>2, CreateEffect
<1>8. LetsGo(semaph, semaph', {s})
  BY <1>7 DEF LetsGo
(* The new semaphore was nobody's. *)
<1>9. /\ \A t \in Port : SLive(t) => ptssem[t] \in Sem /\ ptssem[t] # s
      /\ \A t \in Port : RLive(t) => ptrsem[t] \in Sem /\ ptrsem[t] # s
      /\ \A j \in Pool : PLive(j) => bpsem[j] \in Sem /\ bpsem[j] # s
  <2>1. /\ \A t \in Port : SLive(t) => ptssem[t] \in Sem /\ semaph[ptssem[t]].used
        /\ \A t \in Port : RLive(t) => ptrsem[t] \in Sem /\ semaph[ptrsem[t]].used
        /\ \A j \in Pool : PLive(j) => bpsem[j] \in Sem /\ semaph[bpsem[j]].used
    BY <1>1 DEF OwnUsed, SLive, RLive, PLive, Types
  <2> QED BY <2>1, <1>4, <1>7
<1>10. NotOfPort(s)
  BY <1>9 DEF NotOfPort
<1>11. /\ ClearInv' /\ SeqInv'
       /\ \A t \in Port : SLive(t)' = SLive(t) /\ RLive(t)' = RLive(t)
       /\ \A t \in Port : \A j : Undisposed(t, j)' = Undisposed(t, j)
       /\ \A b : InPort(b)' = InPort(b)
  BY <1>1, <1>2, <1>3, PoolStepPlaces DEF PoolAt
<1>12. PortsInv'
  <2>1. CallersWaitAsBefore
    BY <1>7 DEF CallersWaitAsBefore
  <2>2. \A u \in Sem : u # s => semaph'[u] = semaph[u]
    BY <1>7
  <2> QED BY <2>1, <2>2, <1>1, <1>2, <1>3, <1>10, PoolStepPorts DEF PoolAt
<1>13. /\ bpsem'[i] = s
       /\ \A j \in Pool : j # i => bpsem'[j] = bpsem[j]
       /\ \A j \in Pool : PLive(j)' => (j = i /\ s # SYSERR) \/ (j # i /\ PLive(j))
  <2>1. bpsem'[i] = s /\ \A j \in Pool : j # i => bpsem'[j] = bpsem[j]
    BY <1>1, <1>2 DEF Types
  <2>2. \A j \in Pool : j < i + 1 => j = i \/ j < i
    BY <1>4 DEF Pool
  <2> QED BY <2>1, <2>2, <1>2, <1>4 DEF PLive
<1>14. OwnUsed'
  <2>1. \A t \in Port : SLive(t)' => semaph'[ptssem'[t]].used
    BY <1>1, <1>6, <1>7, <1>9, <1>11 DEF OwnUsed
  <2>2. \A t \in Port : RLive(t)' => semaph'[ptrsem'[t]].used
    BY <1>1, <1>6, <1>7, <1>9, <1>11 DEF OwnUsed
  <2>3. \A j \in Pool : PLive(j)' => semaph'[bpsem'[j]].used
    BY <1>1, <1>7, <1>9, <1>13 DEF OwnUsed
  <2> QED BY <2>1, <2>2, <2>3 DEF OwnUsed
<1>15. OwnApart'
  <2>1. \A j, h \in Pool : PLive(j)' /\ PLive(h)' /\ bpsem'[j] = bpsem'[h] => j = h
    BY <1>1, <1>9, <1>13 DEF OwnApart
  <2>2. \A t \in Port, j \in Pool : SLive(t)' /\ PLive(j)' => ptssem'[t] # bpsem'[j]
    BY <1>1, <1>6, <1>9, <1>11, <1>13 DEF OwnApart
  <2>3. \A t \in Port, j \in Pool : RLive(t)' /\ PLive(j)' => ptrsem'[t] # bpsem'[j]
    BY <1>1, <1>6, <1>9, <1>11, <1>13 DEF OwnApart
  <2> QED BY <2>1, <2>2, <2>3, <1>1, <1>6, <1>11 DEF OwnApart
<1>16. WaitInv'
  <2>1. p \in Unqueued(semaph)
    BY <1>1, <1>2, UserUnqueued
  <2>2. \A u \in Sem : Waiting(semaph', u) \subseteq Waiting(semaph, u) \ {p}
    BY <2>1, <1>7 DEF Unqueued
  <2>3. \A j \in Pool : PLive(j)' =>
           \/ Waiting(semaph', bpsem'[j]) = {}
           \/ PLive(j) /\ bpsem'[j] = bpsem[j] /\ bpsem[j] \in Sem
    BY <1>7, <1>9, <1>13
  <2> QED BY <2>2, <2>3, <1>1, <1>3, <1>6, <1>9, <1>11, WaitersKeep
<1>17. Types'
  <2>1. i + 1 \in 0 .. NBPOOLS /\ made + n \in 0 .. NBUFS
    BY <1>2, <1>4, PoolsAssumption DEF Pool
  <2>2. bpnext' \in [Pool -> Buffer \cup {NULL}]
    <3>1. made + 1 \in Buffer
      BY <1>2, <1>4 DEF Buffer
    <3> QED BY <3>1, <1>1, <1>2 DEF Types
  <2>3. bpsem' \in [Pool -> Sem \cup {SYSERR}]
    BY <1>1, <1>2 DEF Types
  <2>4. word' \in [Buffer -> Int]
    BY <1>1, <1>2 DEF Types, Linked, Buffer, NULL
  <2> QED BY <2>1, <2>2, <2>3, <2>4, <1>1, <1>2, <1>6, <1>a DEF Types
<1>18. \A x \in 0 .. nbpools - 1 : x \in 0 .. nbpools' - 1
  BY <1>2, <1>4
<1>19. PoolPlaces'
  BY <1>1, <1>2, <1>3, <1>18 DEF PoolPlaces, Pooled
<1>20. \A b \in Buffer : b <= made => word'[b] = word[b] /\ b <= made'
  BY <1>2, <1>4 DEF Linked, Buffer
<1>21. BufferInv'
  <2>1. Pooled'
    BY <1>2 DEF Pooled
  <2>2. PoolsBasic'
    <3>1. \A b \in Buffer : holder'[b] # Nobody => b <= made'
      BY <1>1, <1>2, <1>20 DEF BufferInv, PoolsBasic
    <3>2. \A j \in Pool : j >= nbpools' => bpnext'[j] = NULL
      <4>1. \A j \in Pool : j >= i + 1 => j >= i /\ j # i
        BY <1>4 DEF Pool
      <4> QED BY <4>1, <1>1, <1>2, <1>4 DEF BufferInv, PoolsBasic, Types
    <3> QED BY <3>1, <3>2, <2>1 DEF PoolsBasic
  <2>3. PostedInv'
    <3>1. PostedInv /\ Pooled
      BY <1>1, <1>2 DEF BufferInv, Pooled
    <3>2. UNCHANGED <<ptq, holder>> /\ \A t \in Port : \A j : Undisposed(t, j)' = Undisposed(t, j)
      BY <1>2, <1>6, <1>11
    <3>3. \A t \in Port : \A k \in 1 .. Len(ptq[t]) : Undisposed(t, k) =>
             /\ ptq[t][k] \in Buffer /\ ptq[t][k] <= made'
             /\ holder[ptq[t][k]] = Nobody
             /\ word'[ptq[t][k]] \in 0 .. nbpools' - 1
      BY <3>1, <1>18, <1>20 DEF PostedInv
    <3>4. \A t, u \in Port : \A k \in 1 .. Len(ptq[t]), j \in 1 .. Len(ptq[u]) :
             Undisposed(t, k) /\ Undisposed(u, j) /\ ptq[t][k] = ptq[u][j] => t = u /\ k = j
      BY <3>1 DEF PostedInv
    <3> QED BY <3>2, <3>3, <3>4 DEF PostedInv
  <2>4. HeldInv'
    <3> SUFFICES ASSUME NEW b \in Buffer, holder'[b] \in Proc
                 PROVE  Stamped(b)'
      BY DEF HeldInv
    <3>1. holder[b] # Nobody /\ holder[b] \in Proc
      BY <1>2, MessagesAssumption
    <3>2. Stamped(b) /\ b <= made
      BY <3>1, <1>1 DEF BufferInv, HeldInv, PoolsBasic
    <3> QED BY <3>1, <3>2, <1>2, <1>18, <1>20 DEF Stamped
  <2> QED BY <2>2, <2>3, <2>4 DEF BufferInv
<1> DEFINE L2 == AsCut(L, i, n)
<1>22. PICK L3 : L3 = L2
  OBVIOUS
<1>23. /\ Chains(L3)' /\ Members(L3)'
       /\ Len(L3[i]) = n
       /\ \A j \in Pool : j # i => L3[j] = L[j]
  <2>1. \A b \in Buffer : Loose(b)' = Loose(b)
    BY <1>2, <1>11 DEF Loose, Pooled
  <2>2. \A b \in Buffer : b > made => Loose(b)
    <3>1. \A b \in Buffer : b > made => ~ (b <= made)
      BY <1>4 DEF Buffer
    <3>2. \A b \in Buffer : b > made => holder[b] = Nobody
      BY <3>1, <1>1 DEF BufferInv, PoolsBasic
    <3>3. \A b \in Buffer : b > made => ~ InPort(b)
      BY <3>1, <1>1 DEF BufferInv, PostedInv, InPort
    <3> QED BY <3>2, <3>3 DEF Loose
  <2>3. CutPool(i, n)
    BY <1>2 DEF CutPool
  <2>4. Chains(L) /\ Members(L) /\ PoolsBasic /\ UNCHANGED load
    BY <1>1, <1>2, <1>5 DEF FreeLists, BufferInv
  <2> QED BY <2>1, <2>2, <2>3, <2>4, <1>1, <1>2, <1>c, <1>22, ListNew
<1>24. ASSUME NEW j \in Pool, PLive(j)' PROVE PoolAccount(L3, j)'
  <2>1. CASE j = i
    <3>1. s \in Sem /\ s # SYSERR /\ bpsem'[j] = s
      BY <2>1, <1>13, <1>24
    <3>2. /\ \A q \in Proc : pc[q].at \in {"unlink", "release"} => pc[q].a # i
      BY <1>1, <1>4 DEF PoolPlaces
    <3>3. Takers(j)' = {} /\ Freers(j)' = {}
      BY <2>1, <3>2, <1>3 DEF Takers, Freers
    <3>4. Promise(semaph', bpsem'[j], Takers(j)') = n
      BY <3>1, <3>3, <1>7, PromiseFresh
    <3>5. Cardinality(Freers(j)') = 0
      BY <3>3, FS_EmptySet
    <3> QED BY <3>4, <3>5, <2>1, <1>23 DEF PoolAccount
  <2>2. CASE j # i
    <3>1. PLive(j) /\ bpsem'[j] = bpsem[j] /\ bpsem[j] \notin {s}
      BY <2>2, <1>9, <1>13, <1>24
    <3>2. PoolAccount(L, j) /\ Len(L3[j]) = Len(L[j])
      BY <2>2, <3>1, <1>5, <1>23 DEF FreeLists
    <3>3. \A q \in Takers(j), u \in {s} \cap Sem : q \notin Waiting(semaph, u)
      BY <1>4, <1>7
    <3>4. p \notin Takers(j) \cup Freers(j)
      BY <1>2 DEF Takers, Freers
    <3> QED BY <3>1, <3>2, <3>3, <3>4, <1>1, <1>2, <1>3, <1>8, PoolAside
  <2> QED BY <2>1, <2>2
<1>25. PoolsInv'
  BY <1>23, <1>24 DEF PoolsInv, FreeLists
<1> QED BY <1>7, <1>11, <1>12, <1>14, <1>15, <1>16, <1>17, <1>19, <1>21, <1>25 DEF IInv

-----------------------------------------------------------------------------
(* The calls of a port change nothing of the other ports. *)

(* No other port than t has to do with the semaphores S. *)
AsideFrom(S, t) ==
    \A s \in S \cap Sem :
       /\ \A u \in Port \ {t} : (SLive(u) => ptssem[u] # s) /\ (RLive(u) => ptrsem[u] # s)
       /\ \A q \in Waiting(semaph, s) :
             pc[q].at \in {"psend", "preceive"} => pc[q].a \notin Port \ {t}

(* p does something at port t. *)
AtPort(p, k, t) ==
    /\ Moves(p, k)
    /\ pc[p].at \in CallAt \cup ClearAt /\ k.at \in CallAt \cup ClearAt
    /\ pc[p].at # "user" => pc[p].a = t
    /\ k.at # "user" => k.a = t
    /\ \A u \in Port \ {t} : SamePort(u) /\ ptq'[u] = ptq[u]
    /\ \A q \in Proc \ {p} : ~ Clearing(q, t)
    /\ UNCHANGED load

(* A step at one port changes neither the account nor the callers of another. *)
LEMMA PortStepOthers ==
    ASSUME IInv, NEW p \in Proc, NEW k, NEW t \in Port, AtPort(p, k, t),
           NEW S, AsideFrom(S, t), LetsGo(semaph, semaph', S)
    PROVE  /\ \A u \in Port \ {t} :
                 /\ SLive(u)' = SLive(u) /\ RLive(u)' = RLive(u)
                 /\ \A j : Undisposed(u, j)' = Undisposed(u, j)
                 /\ SLive(u) => ptssem[u] \in Sem /\ semaph'[ptssem[u]] = semaph[ptssem[u]]
                 /\ RLive(u) => ptrsem[u] \in Sem /\ semaph'[ptrsem[u]] = semaph[ptrsem[u]]
                 /\ ptstate'[u] = "PTALLOC" /\ ptssem'[u] # SYSERR => SendAccount(u)'
                 /\ ptstate'[u] = "PTALLOC" /\ ptrsem'[u] # SYSERR => TakeAccount(u)'
           /\ \A q \in Proc \ {p} : pc'[q].to = "PTALLOC" =>
                 /\ pc'[q].at \in {"freeReceivers", "ptclearEnd"} /\ ptssem'[pc'[q].a] # SYSERR =>
                       semaph'[ptssem'[pc'[q].a]].cnt = ptmaxcnt'[pc'[q].a]
                 /\ pc'[q].at = "ptclearEnd" /\ ptrsem'[pc'[q].a] # SYSERR =>
                       semaph'[ptrsem'[pc'[q].a]].cnt = 0
<1>1. Types /\ TableOK(semaph) /\ ClearInv /\ PortsInv
  BY DEF IInv
<1>2. /\ Moves(p, k) /\ UNCHANGED load
      /\ \A u \in Port \ {t} : SamePort(u) /\ ptq'[u] = ptq[u]
  BY DEF AtPort
<1>3. \A q \in Proc : \A u \in Port \ {t} :
         (\/ pc[q].at # "user" /\ pc[q].a = u
          \/ pc'[q].at # "user" /\ pc'[q].a = u) => pc'[q] = pc[q]
  BY DEF AtPort, Moves
<1>a. \A q \in Proc : \A u \in Port \ {t} : Clearing(q, u) \/ Clearing(q, u)' => pc'[q] = pc[q]
  BY <1>3 DEF Clearing
<1>4. ASSUME NEW u \in Port \ {t}
      PROVE  /\ SLive(u)' = SLive(u) /\ RLive(u)' = RLive(u)
             /\ \A j : Undisposed(u, j)' = Undisposed(u, j)
             /\ Comers("psend", u)' = Comers("psend", u)
             /\ Comers("preceive", u)' = Comers("preceive", u)
  <2>1. /\ ptstate'[u] = ptstate[u] /\ ptssem'[u] = ptssem[u] /\ ptrsem'[u] = ptrsem[u]
        /\ ptseq'[u] = ptseq[u] /\ ptq'[u] = ptq[u]
    BY <1>2 DEF SamePort
  <2>2. \A q \in Proc : Clearing(q, u)' = Clearing(q, u)
    BY <1>a DEF Clearing
  <2>3. SLive(u)' = SLive(u) /\ RLive(u)' = RLive(u)
    BY <1>a, <2>1, <2>2 DEF SLive, RLive
  <2>4. \A j : Undisposed(u, j)' = Undisposed(u, j)
    <3>1. \A q \in Proc : (pc'[q].at = "dispose" /\ pc'[q].a = u) \/ (pc[q].at = "dispose" /\ pc[q].a = u)
                             => pc'[q] = pc[q]
      BY <1>3
    <3> QED BY <2>1, <3>1 DEF Undisposed
  <2>5. \A place \in {"psend", "preceive"} : Comers(place, u)' = Comers(place, u)
    <3>1. \A q \in Proc : \A place \in {"psend", "preceive"} :
             (pc'[q].at = place /\ pc'[q].a = u) \/ (pc[q].at = place /\ pc[q].a = u)
                             => pc'[q] = pc[q]
      BY <1>3
    <3> QED BY <2>1, <3>1 DEF Comers
  <2> QED BY <2>3, <2>4, <2>5
<1>5. ASSUME NEW u \in Port \ {t}
      PROVE  /\ SLive(u) => ptssem[u] \in Sem /\ semaph'[ptssem[u]] = semaph[ptssem[u]]
             /\ RLive(u) => ptrsem[u] \in Sem /\ semaph'[ptrsem[u]] = semaph[ptrsem[u]]
  <2>1. SLive(u) => ptssem[u] \in Sem \ S
    BY <1>1 DEF SLive, Types, AsideFrom
  <2>2. RLive(u) => ptrsem[u] \in Sem \ S
    BY <1>1 DEF RLive, Types, AsideFrom
  <2> QED BY <2>1, <2>2 DEF LetsGo
<1>6. ASSUME NEW u \in Port \ {t}, NEW place \in {"psend", "preceive"}
      PROVE  Comers(place, u) \cap Unqueued(semaph') = Comers(place, u) \cap Unqueued(semaph)
  <2>1. \A q \in Comers(place, u) : \A s \in S \cap Sem : q \notin Waiting(semaph, s)
    BY DEF Comers, AsideFrom
  <2> QED BY <2>1 DEF LetsGo
<1>7. ASSUME NEW u \in Port \ {t}, ptstate'[u] = "PTALLOC", ptssem'[u] # SYSERR
      PROVE  SendAccount(u)'
  <2>1. SamePort(u) /\ ptq'[u] = ptq[u]
    BY <1>2
  <2>2. SLive(u) /\ SendAccount(u)
    BY <2>1, <1>1, <1>7 DEF SLive, PortsInv, SamePort
  <2>3. Promise(semaph', ptssem[u], Comers("psend", u)) = Promise(semaph, ptssem[u], Comers("psend", u))
    <3>1. Comers("psend", u) \cap Unqueued(semaph') = Comers("psend", u) \cap Unqueued(semaph)
      BY <1>6
    <3> QED BY <3>1, <2>2, <1>5, PromiseSame
  <2>4. ptssem'[u] = ptssem[u] /\ Comers("psend", u)' = Comers("psend", u)
    BY <2>1, <1>4 DEF SamePort
  <2> QED BY <2>1, <2>2, <2>3, <2>4, <1>2, SendAccountSame
<1>8. ASSUME NEW u \in Port \ {t}, ptstate'[u] = "PTALLOC", ptrsem'[u] # SYSERR
      PROVE  TakeAccount(u)'
  <2>1. SamePort(u) /\ ptq'[u] = ptq[u]
    BY <1>2
  <2>2. RLive(u) /\ TakeAccount(u)
    BY <2>1, <1>1, <1>8 DEF RLive, PortsInv, SamePort
  <2>3. Promise(semaph', ptrsem[u], Comers("preceive", u)) = Promise(semaph, ptrsem[u], Comers("preceive", u))
    <3>1. Comers("preceive", u) \cap Unqueued(semaph') = Comers("preceive", u) \cap Unqueued(semaph)
      BY <1>6
    <3> QED BY <3>1, <2>2, <1>5, PromiseSame
  <2>4. ptrsem'[u] = ptrsem[u] /\ Comers("preceive", u)' = Comers("preceive", u)
    BY <2>1, <1>4 DEF SamePort
  <2> QED BY <2>1, <2>2, <2>3, <2>4, <1>2, TakeAccountSame
<1>9. ASSUME NEW q \in Proc \ {p}, pc'[q].to = "PTALLOC",
             pc'[q].at \in {"freeReceivers", "ptclearEnd"}
      PROVE  /\ ptssem'[pc'[q].a] # SYSERR => semaph'[ptssem'[pc'[q].a]].cnt = ptmaxcnt'[pc'[q].a]
             /\ pc'[q].at = "ptclearEnd" /\ ptrsem'[pc'[q].a] # SYSERR =>
                   semaph'[ptrsem'[pc'[q].a]].cnt = 0
  <2>1. pc'[q] = pc[q]
    BY <1>2 DEF Moves
  <2>2. PICK u \in Port : u = pc[q].a
    BY <2>1, <1>1, <1>9 DEF ClearInv
  <2>3. Clearing(q, u) /\ u # t
    BY <2>1, <2>2, <1>9 DEF Clearing, AtPort
  <2>4. /\ ptssem[u] # SYSERR => SLive(u) /\ semaph[ptssem[u]].cnt = ptmaxcnt[u]
        /\ pc[q].at = "ptclearEnd" /\ ptrsem[u] # SYSERR =>
              RLive(u) /\ semaph[ptrsem[u]].cnt = 0
    BY <2>1, <2>2, <2>3, <1>1, <1>9 DEF SLive, RLive, PortsInv, ResetInv
  <2>5. SamePort(u)
    BY <2>3, <1>2
  <2> QED BY <2>1, <2>2, <2>3, <2>4, <2>5, <1>5 DEF SamePort
<1> QED BY <1>4, <1>5, <1>7, <1>8, <1>9

(* The owners and the waiters after a step at port t. *)
LEMMA PortStepOwners ==
    ASSUME IInv, NEW p \in Proc, NEW k, NEW t \in Port, AtPort(p, k, t), p \in Unqueued(semaph),
           NEW S, AsideFrom(S, t), LetsGo(semaph, semaph', S), UNCHANGED <<bpsem, nbpools>>,
           \A i \in Pool : PLive(i) => semaph'[bpsem[i]].used,
           SLive(t)' => SLive(t) /\ ptssem'[t] = ptssem[t] /\ semaph'[ptssem[t]].used,
           RLive(t)' => RLive(t) /\ ptrsem'[t] = ptrsem[t] /\ semaph'[ptrsem[t]].used,
           ptstate'[t] = "PTALLOC" =>
              \/ ptstate[t] = "PTALLOC" /\ ptseq'[t] = ptseq[t]
              \/ /\ SLive(t) => Waiting(semaph', ptssem[t]) = {}
                 /\ RLive(t) => Waiting(semaph', ptrsem[t]) = {}
    PROVE  OwnUsed' /\ OwnApart' /\ WaitInv'
<1>1. Types /\ OwnUsed /\ OwnApart /\ WaitInv
  BY DEF IInv
<1>2. /\ \A u \in Port \ {t} :
                 /\ SLive(u)' = SLive(u) /\ RLive(u)' = RLive(u)
                 /\ SLive(u) => ptssem[u] \in Sem /\ semaph'[ptssem[u]] = semaph[ptssem[u]]
                 /\ RLive(u) => ptrsem[u] \in Sem /\ semaph'[ptrsem[u]] = semaph[ptrsem[u]]
  BY PortStepOthers
<1>3. \A u \in Port \ {t} : SamePort(u)
  BY DEF AtPort
<1>4. \A u \in Port : SLive(u)' =>
         SLive(u) /\ ptssem'[u] = ptssem[u] /\ semaph'[ptssem[u]].used
  BY <1>1, <1>2, <1>3 DEF OwnUsed, SamePort
<1>5. \A u \in Port : RLive(u)' =>
         RLive(u) /\ ptrsem'[u] = ptrsem[u] /\ semaph'[ptrsem[u]].used
  BY <1>1, <1>2, <1>3 DEF OwnUsed, SamePort
<1>6. \A i \in Pool : PLive(i)' =>
         PLive(i) /\ bpsem'[i] = bpsem[i] /\ bpsem[i] \in Sem /\ semaph'[bpsem[i]].used
  BY <1>1 DEF PLive, Types
<1>7. OwnUsed' /\ OwnApart'
  BY <1>1, <1>4, <1>5, <1>6, OwnersKeep
<1>8. \A u \in Sem : Waiting(semaph', u) \subseteq Waiting(semaph, u) \ {p}
  BY DEF LetsGo, Unqueued
<1>9. \A u \in Port : /\ SLive(u) => ptssem[u] \in Sem
                      /\ RLive(u) => ptrsem[u] \in Sem
  BY <1>1 DEF SLive, RLive, Types
<1>10. \A u \in Port : ptstate'[u] = "PTALLOC" =>
          \/ ptstate[u] = "PTALLOC" /\ ptseq'[u] = ptseq[u]
          \/ /\ SLive(u) => Waiting(semaph', ptssem[u]) = {}
             /\ RLive(u) => Waiting(semaph', ptrsem[u]) = {}
  BY <1>3 DEF SamePort
<1>11. \A u \in Port : SLive(u)' =>
              \/ Waiting(semaph', ptssem'[u]) = {}
              \/ /\ SLive(u) /\ ptssem'[u] = ptssem[u] /\ ptssem[u] \in Sem
                 /\ ptstate'[u] = "PTALLOC" => ptstate[u] = "PTALLOC" /\ ptseq'[u] = ptseq[u]
  BY <1>4, <1>9, <1>10
<1>12. \A u \in Port : RLive(u)' =>
              \/ Waiting(semaph', ptrsem'[u]) = {}
              \/ /\ RLive(u) /\ ptrsem'[u] = ptrsem[u] /\ ptrsem[u] \in Sem
                 /\ ptstate'[u] = "PTALLOC" => ptstate[u] = "PTALLOC" /\ ptseq'[u] = ptseq[u]
  BY <1>5, <1>9, <1>10
<1>13. Moves(p, k)
  BY DEF AtPort
<1>14. WaitInv'
  BY <1>1, <1>6, <1>8, <1>11, <1>12, <1>13, WaitersKeep
<1> QED BY <1>7, <1>14

(* Semaphores that no pool has to do with. *)
AsideFromPools(S) ==
    \A s \in S \cap Sem :
       /\ \A i \in Pool : PLive(i) => bpsem[i] # s
       /\ \A q \in Waiting(semaph, s) : pc[q].at # "unlink"

OwnedBy(s, t) == \/ s = SYSERR
                 \/ SLive(t) /\ s = ptssem[t]
                 \/ RLive(t) /\ s = ptrsem[t]

(* Semaphores of a port are no other port's and no pool's. *)
LEMMA PortSemaphores ==
    ASSUME IInv, NEW t \in Port, NEW S, \A s \in S : OwnedBy(s, t)
    PROVE  AsideFrom(S, t) /\ AsideFromPools(S)
<1>1. Types /\ TableOK(semaph) /\ OwnApart /\ WaitInv /\ SYSERR \notin Sem
  BY SemaphoresAssumption DEF IInv, SYSERR, Sem
<1>2. \A s \in S \cap Sem : (SLive(t) /\ s = ptssem[t]) \/ (RLive(t) /\ s = ptrsem[t])
  BY <1>1 DEF OwnedBy
<1>3. \A s \in S \cap Sem : \A q \in Waiting(semaph, s) :
         q \in Proc /\ pc[q].at # "unlink" /\ pc[q].a = t
  <2>1. \A s \in S \cap Sem : \A q \in Waiting(semaph, s) : q \in Proc
    BY <1>1 DEF TableOK, SemRec, Waiting
  <2> QED BY <2>1, <1>1, <1>2 DEF WaitInv, CalledAt
<1>4. AsideFrom(S, t)
  BY <1>1, <1>2, <1>3 DEF AsideFrom, OwnApart
<1>5. AsideFromPools(S)
  BY <1>1, <1>2, <1>3 DEF AsideFromPools, OwnApart
<1> QED BY <1>4, <1>5

LEMMA NoSemaphores ==
    ASSUME NEW t \in Port
    PROVE  AsideFrom({SYSERR}, t) /\ AsideFromPools({SYSERR})
BY SemaphoresAssumption DEF AsideFrom, AsideFromPools, SYSERR, Sem

(* What the pools promise when a step concerns none of them. *)
LEMMA ListsBeside ==
    ASSUME IInv, NEW p \in Proc, NEW k, Moves(p, k),
           pc[p].at \in CallAt \cup ClearAt \cup {"dead"}, k.at \in CallAt \cup ClearAt,
           NEW S, LetsGo(semaph, semaph', S), AsideFromPools(S),
           UNCHANGED <<nbpools, bpnext, bpsem, word, made, load>>,
           \A b \in Buffer : Loose(b)' = Loose(b)
    PROVE  /\ PoolsInv'
           /\ \A i \in Pool : PLive(i) => semaph'[bpsem[i]].used
<1>1. Types /\ OwnUsed /\ PoolsInv
  BY DEF IInv
<1>2. PICK L : FreeLists(L)
  BY <1>1 DEF PoolsInv
<1>3. ASSUME NEW j \in Pool, PLive(j) PROVE PoolAccount(L, j)'
  <2>1. PoolAccount(L, j) /\ bpsem[j] \in Sem
    BY <1>1, <1>2, <1>3 DEF FreeLists, PLive, Types
  <2>2. bpsem[j] \notin S
    BY <2>1, <1>3 DEF AsideFromPools
  <2>3. \A q \in Takers(j), s \in S \cap Sem : q \notin Waiting(semaph, s)
    BY DEF AsideFromPools, Takers
  <2>4. p \notin Takers(j) \cup Freers(j)
    BY DEF Takers, Freers, CallAt, ClearAt
  <2>5. k.at \notin {"unlink", "release"}
    BY DEF CallAt, ClearAt
  <2> QED BY <2>1, <2>2, <2>3, <2>4, <2>5, <1>1, <1>3, PoolAside
<1>4. PoolsInv'
  BY <1>2, <1>3, ListsSame DEF PoolsInv
<1>5. \A i \in Pool : PLive(i) => semaph'[bpsem[i]].used
  <2>1. \A i \in Pool : PLive(i) => bpsem[i] \in Sem \ S /\ semaph[bpsem[i]].used
    BY <1>1 DEF AsideFromPools, PLive, Types, OwnUsed
  <2> QED BY <2>1 DEF LetsGo
<1> QED BY <1>4, <1>5

(* A step of the ports leaves the processes in the pools where they were. *)
LEMMA PlacesBeside ==
    ASSUME PoolPlaces, NEW p \in Proc, NEW k, Moves(p, k), k.at \in CallAt \cup ClearAt,
           UNCHANGED <<nbpools, load>>,
           \A b \in Buffer : holder[b] \in Proc \ {p} => holder'[b] = holder[b],
           Pooled /\ k.at = "psend" => k.n \in Buffer /\ holder'[k.n] = p
    PROVE  PoolPlaces'
<1>1. Pooled' = Pooled
  BY DEF Pooled
<1> SUFFICES ASSUME NEW q \in Proc
             PROVE  /\ pc'[q].at \in {"unlink", "stamp", "relink", "release"} =>
                          pc'[q].a \in 0 .. nbpools - 1
                    /\ pc'[q].at \in {"stamp", "relink"} =>
                          pc'[q].n \in Buffer /\ holder'[pc'[q].n] = q
                    /\ Pooled /\ pc'[q].at = "psend" =>
                          pc'[q].n \in Buffer /\ holder'[pc'[q].n] = q
  BY <1>1 DEF PoolPlaces
<1>2. CASE q = p
  BY <1>2 DEF Moves, CallAt, ClearAt
<1>3. CASE q # p
  <2>1. pc'[q] = pc[q] /\ q \in Proc \ {p}
    BY <1>3 DEF Moves
  <2> QED BY <2>1 DEF PoolPlaces
<1> QED BY <1>2, <1>3

(* The messages that are not disposed of yet are the same. *)
PostedSame ==
    Pooled =>
       \A t \in Port : \A j : /\ Undisposed(t, j)' = Undisposed(t, j)
                              /\ Undisposed(t, j) => ptq'[t][j] = ptq[t][j]

(* The messages stay where they were. *)
LEMMA PostedStay ==
    ASSUME PostedInv, PostedSame, UNCHANGED <<nbpools, word, made, holder, load>>
    PROVE  /\ PostedInv'
           /\ \A b \in Buffer : Loose(b)' = Loose(b)
<1>1. Pooled' = Pooled
  BY DEF Pooled
<1>2. \A t \in Port : \A j : Undisposed(t, j) => j \in 1 .. Len(ptq[t])
  BY DEF Undisposed
<1>3. \A t \in Port : \A j : Undisposed(t, j)' => j \in 1 .. Len(ptq'[t])
  BY DEF Undisposed
<1>4. PostedInv'
  BY <1>1, <1>2, <1>3 DEF PostedInv, PostedSame
<1>5. Pooled => \A b : InPort(b)' = InPort(b)
  BY <1>2, <1>3 DEF PostedSame, InPort
<1> QED BY <1>1, <1>4, <1>5 DEF Loose

(* A step that moves no buffer and no message keeps what is said of them. *)
LEMMA BuffersBeside ==
    ASSUME BufferInv, UNCHANGED <<poolVars, load>>, NEW p \in Proc, NEW k, Moves(p, k),
           pc[p].at \notin {"dead", "stamp"}, PostedSame
    PROVE  /\ BufferInv'
           /\ \A b \in Buffer : Loose(b)' = Loose(b)
<1>1. UNCHANGED <<nbpools, bpnext, bpsem, word, made, holder>> /\ Pooled' = Pooled
  BY DEF poolVars, Pooled
<1>2. PoolsBasic'
  BY <1>1 DEF BufferInv, PoolsBasic
<1>3. PostedInv' /\ \A b \in Buffer : Loose(b)' = Loose(b)
  BY <1>1, PostedStay DEF BufferInv
<1>4. HeldInv'
  <2> SUFFICES ASSUME NEW b \in Buffer, holder[b] \in Proc
               PROVE  Stamped(b)'
    BY <1>1 DEF HeldInv
  <2>1. Stamped(b)
    BY DEF BufferInv, HeldInv
  <2>2. CASE holder[b] = p
    BY <2>1, <2>2, <1>1 DEF Stamped
  <2>3. CASE holder[b] # p
    BY <2>1, <2>3, <1>1 DEF Stamped, Moves
  <2> QED BY <2>2, <2>3
<1> QED BY <1>2, <1>3, <1>4 DEF BufferInv

-----------------------------------------------------------------------------
(* Two calls on semaphores before anything else runs *)

(* From t to t1 only the count of s has changed. *)
OnlyCountOf(t, t1, s) ==
    /\ TableOK(t1)
    /\ Unqueued(t1) = Unqueued(t)
    /\ \A u \in Sem : Waiting(t1, u) = Waiting(t, u) /\ t1[u].used = t[u].used
    /\ \A u \in Sem \ {s} : t1[u] = t[u]

(* wait() that does not block changes the count and nothing else. *)
LEMMA PassingCounts ==
    ASSUME NEW t, TableOK(t), NEW s \in Sem, t[s].used, t[s].cnt > 0, NEW p \in Unqueued(t)
    PROVE  OnlyCountOf(t, wait(t, s, p), s)
<1>1. /\ TableOK(wait(t, s, p)) /\ wait(t, s, p)[s].used
      /\ \A u \in Sem \ {s} : /\ wait(t, s, p)[u] = t[u]
                              /\ Waiting(wait(t, s, p), u) = Waiting(t, u)
      /\ Unqueued(wait(t, s, p)) = Unqueued(t) /\ Waiting(wait(t, s, p), s) = {}
  BY WaitEffect
<1>2. Waiting(t, s) = {}
  <2>1. t[s].cnt \in Int /\ Len(t[s].queue) = QueueLength(t[s].cnt)
    BY DEF TableOK, SemRec
  <2>2. Len(t[s].queue) = 0
    BY <2>1 DEF QueueLength
  <2> QED BY <2>2 DEF Waiting
<1> DEFINE t1 == wait(t, s, p)
<1> HIDE DEF t1
<1>3. t1[s].used \in BOOLEAN /\ t[s].used \in BOOLEAN
  BY <1>1 DEF TableOK, SemRec, t1
<1>4. \A u \in Sem : t1[u].used = t[u].used
  BY <1>1, <1>3 DEF t1
<1>5. \A u \in Sem : Waiting(t1, u) = Waiting(t, u)
  BY <1>1, <1>2 DEF t1
<1>6. TableOK(t1) /\ Unqueued(t1) = Unqueued(t) /\ \A u \in Sem \ {s} : t1[u] = t[u]
  BY <1>1 DEF t1
<1>7. OnlyCountOf(t, t1, s)
  BY <1>4, <1>5, <1>6 DEF OnlyCountOf
<1> QED BY <1>7 DEF t1

LEMMA NothingCounts ==
    ASSUME NEW t, TableOK(t), NEW s
    PROVE  OnlyCountOf(t, t, s)
BY DEF OnlyCountOf

(* From t to t1 only the count of s changes; then r is signalled.  K1 come   *)
(* for s, and K2 for r.                                                      *)
Across(t, t1, t2, s, r, K1, K2) ==
    /\ TableOK(t)
    /\ s \in Sem \cup {SYSERR} /\ r \in Sem \cup {SYSERR}
    /\ r # SYSERR => r # s /\ t[r].used
    /\ OnlyCountOf(t, t1, s)
    /\ K1 \subseteq Proc /\ K2 \subseteq Proc
    /\ r \in Sem => Waiting(t, r) \subseteq K2 /\ Waiting(t, r) \cap K1 = {}
    /\ t2 = signal(t1, r)

Crossed(t, t1, t2, s, r, K1, K2) ==
    /\ LetsGo(t, t2, {s, r})
    /\ \A u \in Sem : t2[u].used = t[u].used
    /\ s # SYSERR => Promise(t2, s, K1) = Promise(t1, s, K1)
    /\ r # SYSERR => Promise(t2, r, K2) = Promise(t, r, K2) + 1

(* Taking a passage of one semaphore and signalling the other of the port. *)
LEMMA SignalAcross ==
    ASSUME NEW t, NEW t1, NEW t2, NEW s, NEW r, NEW K1, NEW K2, Across(t, t1, t2, s, r, K1, K2)
    PROVE  Crossed(t, t1, t2, s, r, K1, K2)
<1>0. /\ TableOK(t)
      /\ s \in Sem \cup {SYSERR} /\ r \in Sem \cup {SYSERR}
      /\ r # SYSERR => r # s /\ t[r].used
      /\ OnlyCountOf(t, t1, s)
      /\ K1 \subseteq Proc /\ K2 \subseteq Proc
      /\ r \in Sem => Waiting(t, r) \subseteq K2 /\ Waiting(t, r) \cap K1 = {}
      /\ t2 = signal(t1, r)
  BY DEF Across
<1>1. LetGo(t1, t2, r) /\ \A u \in Sem : t2[u].used = t1[u].used
  BY <1>0, SignalLetsGo DEF OnlyCountOf
<1>2. LetGo(t, t1, s)
  BY <1>0 DEF OnlyCountOf, LetGo
<1>3. LetsGo(t, t2, {s, r})
  BY <1>1, <1>2, LetGoTwo
<1>4. \A u \in Sem : t2[u].used = t[u].used
  BY <1>0, <1>1 DEF OnlyCountOf
<1>5. ASSUME s # SYSERR
      PROVE  Promise(t2, s, K1) = Promise(t1, s, K1)
  <2>1. t2[s].cnt = t1[s].cnt
    BY <1>0, <1>1, <1>5 DEF LetGo
  <2>2. K1 \cap Unqueued(t2) = K1 \cap Unqueued(t1)
    BY <1>0, <1>1 DEF LetGo, OnlyCountOf
  <2> QED BY <1>0, <2>1, <2>2, PromiseSame
<1>6. ASSUME r # SYSERR
      PROVE  Promise(t2, r, K2) = Promise(t, r, K2) + 1
  <2>1. r \in Sem /\ t1[r].used /\ t1[r] = t[r] /\ Waiting(t1, r) \subseteq K2
    BY <1>0, <1>6 DEF OnlyCountOf
  <2>2. Promise(t2, r, K2) = Promise(t1, r, K2) + 1
    BY <1>0, <2>1, PromiseSignal DEF OnlyCountOf
  <2>3. Promise(t1, r, K2) = Promise(t, r, K2)
    BY <1>0, <2>1, PromiseSame DEF OnlyCountOf
  <2> QED BY <2>2, <2>3
<1> QED BY <1>3, <1>4, <1>5, <1>6 DEF Crossed

-----------------------------------------------------------------------------
(* The message nodes *)

(* What a node is. *)
LEMMA NodeIn ==
    ASSUME NEW x
    PROVE  /\ x \in Nodes <=> \E t \in Port : \E j \in 1 .. Len(ptq[t]) : x = <<t, j>>
           /\ x \in Nodes' <=> \E t \in Port : \E j \in 1 .. Len(ptq'[t]) : x = <<t, j>>
BY DEF Nodes

(* A queue that gets longer by one takes one node. *)
LEMMA NodesMore ==
    ASSUME NodesInv, NEW t \in Port, \A u \in Port \ {t} : ptq'[u] = ptq[u],
           Len(ptq[t]) \in Nat, Len(ptq'[t]) = Len(ptq[t]) + 1,
           ptfree \in Nat, ptfree' = ptfree - 1
    PROVE  NodesInv'
<1> DEFINE x == <<t, Len(ptq[t]) + 1>>
<1>0. PICK n \in Nat : n = Len(ptq[t])
  OBVIOUS
<1>1. PICK y : y = <<t, n + 1>>
  OBVIOUS
<1>2. y \notin Nodes
  BY <1>0, <1>1 DEF Nodes
<1>3. Nodes' = Nodes \cup {y}
  <2>1. \A j : j \in 1 .. n + 1 <=> j \in 1 .. n \/ j = n + 1
    BY <1>0
  <2>2. \A z : z \in Nodes' <=> z \in Nodes \/ z = y
    <3> SUFFICES ASSUME NEW z PROVE z \in Nodes' <=> z \in Nodes \/ z = y
      OBVIOUS
    <3>1. z \in Nodes' => z \in Nodes \/ z = y
      <4> SUFFICES ASSUME z \in Nodes' PROVE z \in Nodes \/ z = y
        OBVIOUS
      <4>1. PICK u \in Port : \E j \in 1 .. Len(ptq'[u]) : z = <<u, j>>
        BY NodeIn
      <4>2. PICK j \in 1 .. Len(ptq'[u]) : z = <<u, j>>
        BY <4>1
      <4>3. u = t => j \in 1 .. Len(ptq[u]) \/ z = y
        BY <4>2, <2>1, <1>0, <1>1
      <4>4. u # t => j \in 1 .. Len(ptq[u])
        BY <4>2
      <4> QED BY <4>2, <4>3, <4>4, NodeIn
    <3>2. z \in Nodes => z \in Nodes'
      <4> SUFFICES ASSUME z \in Nodes PROVE z \in Nodes'
        OBVIOUS
      <4>1. PICK u \in Port : \E j \in 1 .. Len(ptq[u]) : z = <<u, j>>
        BY NodeIn
      <4>2. PICK j \in 1 .. Len(ptq[u]) : z = <<u, j>>
        BY <4>1
      <4>3. j \in 1 .. Len(ptq'[u])
        BY <4>2, <2>1, <1>0
      <4> QED BY <4>2, <4>3, NodeIn
    <3>3. y \in Nodes'
      <4>1. n + 1 \in 1 .. Len(ptq'[t])
        BY <1>0
      <4> QED BY <4>1, <1>1, NodeIn
    <3> QED BY <3>1, <3>2, <3>3
  <2> QED BY <2>2
<1>4. /\ IsFiniteSet(Nodes') /\ Cardinality(Nodes') = Cardinality(Nodes) + 1
      /\ Cardinality(Nodes) \in Nat
  BY <1>2, <1>3, OneMore DEF NodesInv
<1>5. MAXMSGS \in Nat /\ ptfree + Cardinality(Nodes) = MAXMSGS
  BY PortsAssumption DEF NodesInv, NodesConserved
<1>6. ptfree' + Cardinality(Nodes') = MAXMSGS
  BY <1>4, <1>5
<1> QED BY <1>4, <1>6 DEF NodesInv, NodesConserved

(* A queue that gets shorter by d gives back d nodes. *)
LEMMA NodesLess ==
    ASSUME NodesInv, NEW t \in Port, \A u \in Port \ {t} : ptq'[u] = ptq[u],
           Len(ptq[t]) \in Nat, NEW d \in 0 .. Len(ptq[t]), Len(ptq'[t]) = Len(ptq[t]) - d,
           ptfree \in Nat, ptfree' = ptfree + d
    PROVE  NodesInv'
<1>0. PICK n \in Nat : n = Len(ptq[t])
  OBVIOUS
<1>a. PICK m \in Nat : m = n - d
  BY <1>0
<1>b. PICK D : D = {<<t, j>> : j \in m + 1 .. n}
  OBVIOUS
<1>1. IsFiniteSet(D) /\ Cardinality(D) = d
  <2> DEFINE f == [j \in m + 1 .. n |-> <<t, j>>]
  <2>1. f \in Bijection(m + 1 .. n, D)
    BY <1>b DEF Bijection, Injection, Surjection, IsInjective
  <2>2. ExistsBijection(m + 1 .. n, D)
    BY <2>1 DEF ExistsBijection
  <2>0. m + 1 \in Int /\ n \in Int
    BY <1>0, <1>a
  <2>3. IsFiniteSet(m + 1 .. n) /\ Cardinality(m + 1 .. n) = IF m + 1 > n THEN 0 ELSE n - (m + 1) + 1
    BY <2>0, FS_Interval
  <2>4. Cardinality(m + 1 .. n) = d
    BY <2>3, <1>0, <1>a
  <2> QED BY <2>2, <2>3, <2>4, FS_Bijection
<1>2. Nodes = Nodes' \cup D /\ Nodes' \cap D = {}
  <2>1. \A j : /\ j \in 1 .. n <=> j \in 1 .. m \/ j \in m + 1 .. n
               /\ ~ (j \in 1 .. m /\ j \in m + 1 .. n)
    BY <1>0, <1>a
  <2>2. Len(ptq'[t]) = m
    BY <1>0, <1>a
  <2>3. \A z : z \in Nodes' => z \in Nodes /\ z \notin D
    <3> SUFFICES ASSUME NEW z, z \in Nodes' PROVE z \in Nodes /\ z \notin D
      OBVIOUS
    <3>1. PICK u \in Port : \E j \in 1 .. Len(ptq'[u]) : z = <<u, j>>
      BY NodeIn
    <3>2. PICK j \in 1 .. Len(ptq'[u]) : z = <<u, j>>
      BY <3>1
    <3>3. j \in 1 .. Len(ptq[u])
      BY <3>2, <2>1, <2>2, <1>0
    <3>4. z \notin D
      BY <3>2, <2>1, <2>2, <1>b
    <3> QED BY <3>2, <3>3, <3>4, NodeIn
  <2>4. \A z \in D : z \in Nodes
    <3> SUFFICES ASSUME NEW j \in m + 1 .. n PROVE <<t, j>> \in Nodes
      BY <1>b
    <3>1. j \in 1 .. Len(ptq[t])
      BY <2>1, <1>0
    <3> QED BY <3>1, NodeIn
  <2>5. \A z \in Nodes : z \in Nodes' \/ z \in D
    <3> SUFFICES ASSUME NEW z, z \in Nodes PROVE z \in Nodes' \/ z \in D
      OBVIOUS
    <3>1. PICK u \in Port : \E j \in 1 .. Len(ptq[u]) : z = <<u, j>>
      BY NodeIn
    <3>2. PICK j \in 1 .. Len(ptq[u]) : z = <<u, j>>
      BY <3>1
    <3>3. u = t => j \in 1 .. Len(ptq'[u]) \/ z \in D
      BY <3>2, <2>1, <2>2, <1>0, <1>b
    <3>4. u # t => j \in 1 .. Len(ptq'[u])
      BY <3>2
    <3> QED BY <3>2, <3>3, <3>4, NodeIn
  <2> QED BY <2>3, <2>4, <2>5
<1>3. IsFiniteSet(Nodes)
  BY DEF NodesInv
<1>4. IsFiniteSet(Nodes')
  BY <1>2, <1>3, FS_Subset
<1>5. Cardinality(Nodes) = Cardinality(Nodes') + Cardinality(D) - Cardinality(Nodes' \cap D)
  BY <1>1, <1>2, <1>4, FS_Union
<1>6. Cardinality(Nodes' \cap D) = 0 /\ Cardinality(Nodes') \in Nat
  BY <1>2, <1>4, FS_EmptySet, FS_CardinalityType
<1>7. Cardinality(Nodes) = Cardinality(Nodes') + d
  BY <1>1, <1>5, <1>6
<1>8. MAXMSGS \in Nat /\ ptfree + Cardinality(Nodes) = MAXMSGS
  BY PortsAssumption DEF NodesInv, NodesConserved
<1>9. ptfree' + Cardinality(Nodes') = MAXMSGS
  BY <1>6, <1>7, <1>8
<1> QED BY <1>4, <1>9 DEF NodesInv, NodesConserved

-----------------------------------------------------------------------------
(* psend and preceive, once the semaphore lets them through *)

(* Who waits at a semaphore of a port in use has come for the port as it is. *)
LEMMA WaitersAreComers ==
    ASSUME IInv, NEW t \in Port, ptstate[t] = "PTALLOC"
    PROVE  /\ ptssem[t] # SYSERR =>
                 /\ SLive(t) /\ ptssem[t] \in Sem /\ semaph[ptssem[t]].used
                 /\ Waiting(semaph, ptssem[t]) \subseteq Comers("psend", t)
                 /\ SendAccount(t)
           /\ ptrsem[t] # SYSERR =>
                 /\ RLive(t) /\ ptrsem[t] \in Sem /\ semaph[ptrsem[t]].used
                 /\ Waiting(semaph, ptrsem[t]) \subseteq Comers("preceive", t)
                 /\ TakeAccount(t)
           /\ ptssem[t] # SYSERR => ptssem[t] # ptrsem[t]
           /\ ptssem[t] \in Sem \cup {SYSERR} /\ ptrsem[t] \in Sem \cup {SYSERR}
           /\ SYSERR \notin Sem
           /\ \A q \in Proc : ~ Clearing(q, t)
<1>1. /\ Types /\ TableOK(semaph) /\ OwnUsed /\ OwnApart /\ WaitInv /\ PortsInv /\ ClearInv
      /\ SYSERR \notin Sem
  BY SemaphoresAssumption DEF IInv, SYSERR, Sem
<1>2. \A s \in Sem : Waiting(semaph, s) \subseteq Proc
  BY <1>1 DEF TableOK, SemRec, Waiting
<1>3. ASSUME ptssem[t] # SYSERR
      PROVE  /\ SLive(t) /\ ptssem[t] \in Sem /\ semaph[ptssem[t]].used
             /\ Waiting(semaph, ptssem[t]) \subseteq Comers("psend", t)
             /\ SendAccount(t)
  <2>1. SLive(t) /\ ptssem[t] \in Sem /\ semaph[ptssem[t]].used /\ SendAccount(t)
    BY <1>1, <1>3 DEF SLive, Types, OwnUsed, PortsInv
  <2>2. \A q \in Waiting(semaph, ptssem[t]) : q \in Proc /\ CalledAt(q, "psend", t)
    BY <1>1, <1>2, <2>1 DEF WaitInv
  <2> QED BY <2>1, <2>2 DEF CalledAt, Comers
<1>4. ASSUME ptrsem[t] # SYSERR
      PROVE  /\ RLive(t) /\ ptrsem[t] \in Sem /\ semaph[ptrsem[t]].used
             /\ Waiting(semaph, ptrsem[t]) \subseteq Comers("preceive", t)
             /\ TakeAccount(t)
  <2>1. RLive(t) /\ ptrsem[t] \in Sem /\ semaph[ptrsem[t]].used /\ TakeAccount(t)
    BY <1>1, <1>4 DEF RLive, Types, OwnUsed, PortsInv
  <2>2. \A q \in Waiting(semaph, ptrsem[t]) : q \in Proc /\ CalledAt(q, "preceive", t)
    BY <1>1, <1>2, <2>1 DEF WaitInv
  <2> QED BY <2>1, <2>2 DEF CalledAt, Comers
<1>5. ptssem[t] # SYSERR => ptssem[t] # ptrsem[t]
  BY <1>1, <1>3, <1>4 DEF OwnApart
<1>6. ptssem[t] \in Sem \cup {SYSERR} /\ ptrsem[t] \in Sem \cup {SYSERR}
  BY <1>1 DEF Types
<1>7. \A q \in Proc : ~ Clearing(q, t)
  BY <1>1 DEF ClearInv, Clearing
<1> QED BY <1>1, <1>3, <1>4, <1>5, <1>6, <1>7

portSettings == <<ptstate, ptssem, ptrsem, ptmaxcnt, ptseq>>

(* A call of an open port returns, and has at most changed its queue. *)
LEMMA CallEnds ==
    ASSUME IInv, NEW p \in Proc, NEW t \in Port, ptstate[t] = "PTALLOC", NEW k, Moves(p, k), k.at = "user",
           pc[p].at \in CallAt, pc[p].at # "user" => pc[p].a = t,
           UNCHANGED <<portSettings, load>>,
           \A u \in Port \ {t} : ptq'[u] = ptq[u]
    PROVE  /\ AtPort(p, k, t) /\ ClearInv' /\ SeqInv'
           /\ SLive(t)' = SLive(t) /\ RLive(t)' = RLive(t)
           /\ \A place \in {"psend", "preceive"} :
                 Comers(place, t)' = Comers(place, t) \ {p}
<1>1. /\ ClearInv /\ SeqInv /\ \A q \in Proc : ~ Clearing(q, t)
  BY WaitersAreComers DEF IInv
<1>2. UNCHANGED <<ptstate, ptssem, ptrsem, ptmaxcnt, ptseq>>
  BY DEF portSettings
<1>3. /\ \A q \in Proc : q # p => pc'[q] = pc[q]
      /\ pc'[p].at = "user"
  BY <1>1 DEF Moves
<1>4. AtPort(p, k, t)
  BY <1>1, <1>2 DEF AtPort, SamePort, CallAt
<1>5. \A q \in Proc : \A u \in Port : Clearing(q, u)' = Clearing(q, u)
  BY <1>3 DEF Clearing, CallAt
<1>6. ClearInv'
  <2>1. \A q \in Proc : pc'[q].at \in ClearAt => pc'[q] = pc[q] /\ pc[q].at \in ClearAt
    BY <1>3 DEF ClearAt
  <2>2. \A q \in Proc : pc'[q].at \in ClearAt => pc[q].a \in Port \ {t}
    BY <1>1, <2>1 DEF ClearInv, ClearAt
  <2>3. \A u \in Port : ptstate'[u] = "PTFREE" => ptq'[u] = <<>>
    BY <1>1, <1>2 DEF ClearInv
  <2>4. \A q \in Proc : pc'[q].at \in ClearAt =>
          /\ "ports" \in load.calls
          /\ pc'[q].a \in Port /\ ptstate'[pc'[q].a] = "PTLIMBO"
          /\ pc'[q].to \in {"PTFREE", "PTALLOC"}
          /\ pc'[q].at = "dispose" => pc'[q].n \in Nat \ {0} 
          /\ pc'[q].at # "dispose" => ptq'[pc'[q].a] = <<>>
    <3> SUFFICES ASSUME NEW q \in Proc, pc'[q].at \in ClearAt
                 PROVE  /\ "ports" \in load.calls
                        /\ pc[q].a \in Port /\ ptstate[pc[q].a] = "PTLIMBO"
                        /\ pc[q].to \in {"PTFREE", "PTALLOC"}
                        /\ pc[q].at = "dispose" => pc[q].n \in Nat \ {0}
                        /\ pc[q].at # "dispose" => ptq[pc[q].a] = <<>>
      BY <1>2, <2>1, <2>2
    <3> QED BY <1>1, <2>1 DEF ClearInv, ClearAt
  <2> QED BY <1>1, <1>2, <1>5, <2>3, <2>4 DEF ClearInv, ClearAt
<1>7. SeqInv'
  <2>1. \A q \in Proc : pc'[q].at \in {"psend", "preceive"} => pc'[q] = pc[q]
    BY <1>3
  <2> QED BY <1>1, <1>2, <2>1 DEF SeqInv
<1>8. SLive(t)' = SLive(t) /\ RLive(t)' = RLive(t)
  BY <1>2 DEF SLive, RLive
<1>9. ASSUME NEW place \in {"psend", "preceive"}
      PROVE  Comers(place, t)' = Comers(place, t) \ {p}
  BY <1>2, <1>3 DEF Comers
<1> QED BY <1>4, <1>6, <1>7, <1>8, <1>9

(* The buffer of p goes to the end of port t. *)
LEMMA MessagePosted ==
    ASSUME IInv, NEW p \in Proc, NEW t \in Port, NEW k, AtPort(p, k, t),
           ptstate[t] = "PTALLOC", ptstate'[t] = "PTALLOC",
           \A u \in Port \ {t} : \A j : Undisposed(u, j)' = Undisposed(u, j),
           NEW m \in Msgs, ptq'[t] = Append(ptq[t], m),
           Pooled => m \in Buffer /\ holder[m] = p, Give(m, Nobody),
           UNCHANGED poolFixed
    PROVE  /\ BufferInv'
           /\ \A b \in Buffer : Loose(b)' = Loose(b)
           /\ \A b \in Buffer : holder[b] \in Proc \ {p} => holder'[b] = holder[b]
           /\ holder' \in [Buffer -> Proc \cup {Nobody}]
<1>1. /\ Types /\ BufferInv /\ Nobody \notin Proc
      /\ UNCHANGED <<nbpools, bpnext, bpsem, word, made, load>> /\ Pooled' = Pooled
  BY MessagesAssumption DEF IInv, AtPort, poolFixed, Pooled
<1>2. /\ \A u \in Port \ {t} : ptq'[u] = ptq[u]
      /\ Moves(p, k) /\ pc[p].at \notin {"dead", "stamp"}
  BY DEF AtPort, CallAt, ClearAt
<1>3. /\ Len(ptq[t]) \in Nat /\ Len(ptq'[t]) = Len(ptq[t]) + 1
      /\ \A j \in 1 .. Len(ptq[t]) : ptq'[t][j] = ptq[t][j]
      /\ ptq'[t][Len(ptq[t]) + 1] = m
  BY <1>1, AppendProperties DEF Types
<1>a. PICK n \in Nat : n = Len(ptq[t])
  BY <1>3
<1>4. /\ \A j : Undisposed(t, j) <=> j \in 1 .. n
      /\ \A j : Undisposed(t, j)' <=> j \in 1 .. n + 1
  BY <1>a, <1>3 DEF Undisposed
<1>5. \A j : j \in 1 .. n + 1 <=> j \in 1 .. n \/ j = n + 1
  OBVIOUS
<1>6. \A u \in Port : \A j : Undisposed(u, j) => /\ Undisposed(u, j)'
                                                 /\ ptq'[u][j] = ptq[u][j]
  BY <1>a, <1>2, <1>3, <1>4, <1>5
<1>7. \A u \in Port : \A j : Undisposed(u, j)' => \/ Undisposed(u, j) /\ ptq'[u][j] = ptq[u][j]
                                                  \/ u = t /\ j = n + 1 /\ ptq'[u][j] = m
  BY <1>a, <1>2, <1>3, <1>4, <1>5, <1>6
<1>8. Undisposed(t, n + 1)' /\ ptq'[t][n + 1] = m /\ ~ Undisposed(t, n + 1)
  BY <1>a, <1>3, <1>4, <1>5
<1>9. \A u \in Port : \A j : /\ Undisposed(u, j) => j \in 1 .. Len(ptq[u])
                             /\ Undisposed(u, j)' => j \in 1 .. Len(ptq'[u])
  BY DEF Undisposed
<1>10. \A b : InPort(b)' <=> InPort(b) \/ b = m
  <2>1. \A b : InPort(b) => InPort(b)'
    BY <1>6, <1>9 DEF InPort
  <2>2. InPort(m)'
    BY <1>8, <1>9 DEF InPort
  <2>3. \A b : InPort(b)' => InPort(b) \/ b = m
    BY <1>7, <1>9 DEF InPort
  <2> QED BY <2>1, <2>2, <2>3
<1>11. CASE ~ Pooled
  <2>1. UNCHANGED holder
    BY <1>11 DEF Give
  <2>2. UNCHANGED poolVars /\ PostedSame
    BY <2>1, <1>1, <1>11 DEF poolVars, PostedSame
  <2>3. BufferInv' /\ \A b \in Buffer : Loose(b)' = Loose(b)
    BY <2>2, <1>1, <1>2, BuffersBeside
  <2> QED BY <2>1, <2>3, <1>1 DEF Types
<1>12. CASE Pooled
  <2>1. /\ m \in Buffer /\ holder[m] = p /\ holder' = [holder EXCEPT ![m] = Nobody]
        /\ holder' \in [Buffer -> Proc \cup {Nobody}]
    BY <1>1, <1>12 DEF Give, Types
  <2>2. /\ holder'[m] = Nobody
        /\ \A b \in Buffer : b # m => holder'[b] = holder[b]
    BY <2>1, <1>1 DEF Types
  <2>3. m <= made /\ word[m] \in 0 .. nbpools - 1
    BY <2>1, <1>1, <1>2 DEF BufferInv, PoolsBasic, HeldInv, Stamped
  <2>4. PoolsBasic'
    BY <1>1, <1>12, <2>1, <2>2 DEF BufferInv, PoolsBasic
  <2>5. PostedInv'
    <3>1. ASSUME NEW u \in Port, NEW j \in 1 .. Len(ptq'[u]), Undisposed(u, j)'
          PROVE  /\ ptq'[u][j] \in Buffer /\ ptq'[u][j] <= made
                 /\ holder'[ptq'[u][j]] = Nobody
                 /\ word[ptq'[u][j]] \in 0 .. nbpools - 1
      <4>1. CASE Undisposed(u, j) /\ ptq'[u][j] = ptq[u][j]
        <5>1. /\ ptq[u][j] \in Buffer /\ ptq[u][j] <= made
              /\ holder[ptq[u][j]] = Nobody
              /\ word[ptq[u][j]] \in 0 .. nbpools - 1
          BY <4>1, <1>1, <1>9, <1>12 DEF BufferInv, PostedInv
        <5> QED BY <5>1, <4>1, <2>2
      <4>2. CASE ptq'[u][j] = m
        BY <4>2, <2>1, <2>2, <2>3
      <4> QED BY <4>1, <4>2, <3>1, <1>7
    <3>2. ASSUME NEW u \in Port, NEW j, Undisposed(u, j)
          PROVE  ptq[u][j] # m
      BY <3>2, <1>1, <1>9, <1>12, <2>1 DEF BufferInv, PostedInv
    <3>3. ASSUME NEW u \in Port, NEW v \in Port,
                 NEW j \in 1 .. Len(ptq'[u]), NEW i \in 1 .. Len(ptq'[v]),
                 Undisposed(u, j)', Undisposed(v, i)', ptq'[u][j] = ptq'[v][i]
          PROVE  u = v /\ j = i
      <4>1. CASE Undisposed(u, j) /\ Undisposed(v, i)
        BY <4>1, <3>3, <1>1, <1>6, <1>9, <1>12 DEF BufferInv, PostedInv
      <4>2. CASE Undisposed(u, j) /\ ~ Undisposed(v, i)
        BY <4>2, <3>2, <3>3, <1>7
      <4>3. CASE ~ Undisposed(u, j) /\ Undisposed(v, i)
        BY <4>3, <3>2, <3>3, <1>7
      <4>4. CASE ~ Undisposed(u, j) /\ ~ Undisposed(v, i)
        BY <4>4, <3>3, <1>7
      <4> QED BY <4>1, <4>2, <4>3, <4>4
    <3> QED BY <3>1, <3>3, <1>1 DEF PostedInv
  <2>6. HeldInv'
    <3> SUFFICES ASSUME NEW b \in Buffer, holder'[b] \in Proc
                 PROVE  Stamped(b)'
      BY DEF HeldInv
    <3>1. b # m /\ holder'[b] = holder[b] /\ Stamped(b)
      BY <2>2, <1>1 DEF BufferInv, HeldInv
    <3>2. CASE holder[b] = p
      BY <3>1, <3>2, <1>1, <1>2 DEF Stamped
    <3>3. CASE holder[b] # p
      BY <3>1, <3>3, <1>1, <1>2 DEF Stamped, Moves
    <3> QED BY <3>2, <3>3
  <2>7. \A b \in Buffer : Loose(b)' = Loose(b)
    BY <1>1, <1>10, <1>12, <2>1, <2>2 DEF Loose
  <2> QED BY <2>1, <2>2, <2>4, <2>5, <2>6, <2>7 DEF BufferInv
<1> QED BY <1>11, <1>12

(* What a step at port t, by p, has to see to there. *)
PortSide(p, t) ==
    /\ SLive(t)' => SLive(t) /\ ptssem'[t] = ptssem[t] /\ semaph'[ptssem[t]].used
    /\ RLive(t)' => RLive(t) /\ ptrsem'[t] = ptrsem[t] /\ semaph'[ptrsem[t]].used
    /\ ptstate'[t] = "PTALLOC" =>
          \/ ptstate[t] = "PTALLOC" /\ ptseq'[t] = ptseq[t]
          \/ /\ SLive(t) => Waiting(semaph', ptssem[t]) = {}
             /\ RLive(t) => Waiting(semaph', ptrsem[t]) = {}
    /\ ptstate'[t] = "PTALLOC" /\ ptssem'[t] # SYSERR => SendAccount(t)'
    /\ ptstate'[t] = "PTALLOC" /\ ptrsem'[t] # SYSERR => TakeAccount(t)'
    /\ pc'[p].to = "PTALLOC" =>
          /\ pc'[p].at \in {"freeReceivers", "ptclearEnd"} /\ ptssem'[pc'[p].a] # SYSERR =>
                semaph'[ptssem'[pc'[p].a]].cnt = ptmaxcnt'[pc'[p].a]
          /\ pc'[p].at = "ptclearEnd" /\ ptrsem'[pc'[p].a] # SYSERR =>
                semaph'[ptrsem'[pc'[p].a]].cnt = 0
    /\ NodesInv'

(* The rest is as it was at the other ports. *)
LEMMA PortStepRest ==
    ASSUME IInv, NEW p \in Proc, NEW k, NEW t \in Port, AtPort(p, k, t), p \in Unqueued(semaph),
           NEW S, AsideFrom(S, t), LetsGo(semaph, semaph', S), UNCHANGED <<bpsem, nbpools>>,
           \A i \in Pool : PLive(i) => semaph'[bpsem[i]].used,
           PortSide(p, t)
    PROVE  TableOK(semaph') /\ OwnUsed' /\ OwnApart' /\ WaitInv' /\ PortsInv'
<1>1. /\ \A u \in Port \ {t} :
            /\ ptstate'[u] = "PTALLOC" /\ ptssem'[u] # SYSERR => SendAccount(u)'
            /\ ptstate'[u] = "PTALLOC" /\ ptrsem'[u] # SYSERR => TakeAccount(u)'
      /\ \A q \in Proc \ {p} : pc'[q].to = "PTALLOC" =>
            /\ pc'[q].at \in {"freeReceivers", "ptclearEnd"} /\ ptssem'[pc'[q].a] # SYSERR =>
                  semaph'[ptssem'[pc'[q].a]].cnt = ptmaxcnt'[pc'[q].a]
            /\ pc'[q].at = "ptclearEnd" /\ ptrsem'[pc'[q].a] # SYSERR =>
                  semaph'[ptrsem'[pc'[q].a]].cnt = 0
  BY PortStepOthers
<1>2. OwnUsed' /\ OwnApart' /\ WaitInv'
  BY PortStepOwners DEF PortSide
<1>3. ResetInv'
  BY <1>1 DEF ResetInv, PortSide
<1>4. PortsInv'
  <2>1. \A u \in Port : ptstate'[u] = "PTALLOC" /\ ptssem'[u] # SYSERR => SendAccount(u)'
    BY <1>1 DEF PortSide
  <2>2. \A u \in Port : ptstate'[u] = "PTALLOC" /\ ptrsem'[u] # SYSERR => TakeAccount(u)'
    BY <1>1 DEF PortSide
  <2>3. NodesInv'
    BY DEF PortSide
  <2> QED BY <2>1, <2>2, <2>3, <1>3 DEF PortsInv
<1>5. TableOK(semaph')
  BY DEF LetsGo
<1> QED BY <1>2, <1>4, <1>5

(* A step at port t that leaves the pools alone. *)
PortEffect(p, t) ==
    /\ ClearInv' /\ SeqInv' /\ Types' /\ PoolPlaces' /\ BufferInv'
    /\ \A b \in Buffer : Loose(b)' = Loose(b)
    /\ UNCHANGED <<nbpools, bpnext, bpsem, word, made>>
    /\ PortSide(p, t)

(* A step at one port keeps the invariant if it keeps the account of that port. *)
LEMMA PortStepKeeps ==
    ASSUME IInv, NEW p \in Proc, NEW k, NEW t \in Port, AtPort(p, k, t), p \in Unqueued(semaph),
           NEW S, AsideFrom(S, t), AsideFromPools(S), LetsGo(semaph, semaph', S),
           PortEffect(p, t)
    PROVE  IInv'
<1>1. /\ Moves(p, k) /\ UNCHANGED load
      /\ pc[p].at \in CallAt \cup ClearAt /\ k.at \in CallAt \cup ClearAt
  BY DEF AtPort
<1>2. PoolsInv' /\ \A i \in Pool : PLive(i) => semaph'[bpsem[i]].used
  BY <1>1, ListsBeside DEF PortEffect
<1>3. TableOK(semaph') /\ OwnUsed' /\ OwnApart' /\ WaitInv' /\ PortsInv'
  BY <1>2, PortStepRest DEF PortEffect
<1> QED BY <1>2, <1>3 DEF IInv, PortEffect

(* A sender that wait() let through posts its message. *)
LEMMA EnqueueKeeps ==
    ASSUME IInv, NEW p \in Proc, NEW t \in Port, NEW k, Moves(p, k), k.at = "user", p \in Unqueued(semaph),
           \/ pc[p].at = "user"
           \/ pc[p].at = "psend" /\ pc[p].a = t,
           ptstate[t] = "PTALLOC", ptssem[t] # SYSERR,
           NEW m \in Msgs, Pooled => m \in Buffer /\ holder[m] = p,
           NEW t1, OnlyCountOf(semaph, t1, ptssem[t]),
           Promise(t1, ptssem[t], Comers("psend", t) \ {p})
              = Promise(semaph, ptssem[t], Comers("psend", t)) - 1,
           Enqueue(t, m, t1), Give(m, Nobody), UNCHANGED <<poolFixed, portFixed, load>>
    PROVE  IInv'
<1> DEFINE s == ptssem[t]
           r == ptrsem[t]
           S == {s, r}
<1>1. /\ Types /\ TableOK(semaph) /\ PortsInv /\ PoolPlaces /\ BufferInv /\ OwnUsed
  BY DEF IInv
<1>2. /\ s \in Sem /\ SLive(t) /\ semaph[s].used /\ SendAccount(t) /\ s # r
      /\ r \in Sem \cup {SYSERR} /\ SYSERR \notin Sem
      /\ r # SYSERR => /\ RLive(t) /\ r \in Sem /\ semaph[r].used
                       /\ Waiting(semaph, r) \subseteq Comers("preceive", t)
                       /\ TakeAccount(t)
  BY WaitersAreComers
<1>3. /\ UNCHANGED <<portSettings, ptnextp, nextsem>>
      /\ UNCHANGED <<ptstate, ptssem, ptrsem, ptmaxcnt, ptseq>>
      /\ UNCHANGED <<nbpools, bpnext, bpsem, word, made>>
  BY DEF portFixed, portSettings, poolFixed
<1>4. /\ ptq' = [ptq EXCEPT ![t] = Append(ptq[t], m)]
      /\ ptfree > 0 /\ ptfree' = ptfree - 1
      /\ semaph' = signal(t1, r)
  BY DEF Enqueue, Enqueued
<1>5. /\ ptq'[t] = Append(ptq[t], m)
      /\ \A u \in Port \ {t} : ptq'[u] = ptq[u]
      /\ ptq' \in [Port -> Seq(Msgs)]
      /\ Len(ptq[t]) \in Nat /\ Len(ptq'[t]) = Len(ptq[t]) + 1
  BY <1>1, <1>4 DEF Types
<1>6. /\ AtPort(p, k, t) /\ ClearInv' /\ SeqInv'
      /\ SLive(t)' = SLive(t) /\ RLive(t)' = RLive(t)
      /\ Comers("psend", t)' = Comers("psend", t) \ {p}
      /\ Comers("preceive", t)' = Comers("preceive", t)
  <2>1. pc[p].at \in CallAt /\ pc[p].at # "preceive" /\ (pc[p].at # "user" => pc[p].a = t)
    BY DEF CallAt
  <2>2. p \notin Comers("preceive", t)
    BY <2>1 DEF Comers
  <2>3. /\ AtPort(p, k, t) /\ ClearInv' /\ SeqInv'
        /\ SLive(t)' = SLive(t) /\ RLive(t)' = RLive(t)
        /\ \A place \in {"psend", "preceive"} :
              Comers(place, t)' = Comers(place, t) \ {p}
    BY <2>1, <1>3, <1>5, CallEnds
  <2> QED BY <2>2, <2>3
<1>7. /\ LetsGo(semaph, semaph', S)
      /\ \A u \in Sem : semaph'[u].used = semaph[u].used
      /\ Promise(semaph', s, Comers("psend", t)') = Promise(semaph, s, Comers("psend", t)) - 1
      /\ r # SYSERR => Promise(semaph', r, Comers("preceive", t)')
                          = Promise(semaph, r, Comers("preceive", t)) + 1
  <2>1. Comers("psend", t) \ {p} \subseteq Proc /\ Comers("preceive", t) \subseteq Proc
    BY DEF Comers
  <2>2. r \in Sem => /\ Waiting(semaph, r) \subseteq Comers("preceive", t)
                     /\ Waiting(semaph, r) \cap (Comers("psend", t) \ {p}) = {}
    BY <1>2 DEF Comers
  <2>3. s \in Sem \cup {SYSERR} /\ s # SYSERR /\ (r # SYSERR => r # s /\ semaph[r].used)
    BY <1>2
  <2>4. /\ LetsGo(semaph, semaph', {s, r})
        /\ \A u \in Sem : semaph'[u].used = semaph[u].used
        /\ Promise(semaph', s, Comers("psend", t) \ {p}) = Promise(t1, s, Comers("psend", t) \ {p})
        /\ r # SYSERR => Promise(semaph', r, Comers("preceive", t))
                            = Promise(semaph, r, Comers("preceive", t)) + 1
    <3>1. Across(semaph, t1, semaph', s, r, Comers("psend", t) \ {p}, Comers("preceive", t))
      BY <2>1, <2>2, <2>3, <1>1, <1>2, <1>4 DEF Across
    <3>2. Crossed(semaph, t1, semaph', s, r, Comers("psend", t) \ {p}, Comers("preceive", t))
      BY <3>1, SignalAcross
    <3> QED BY <2>3, <3>2 DEF Crossed
  <2> QED BY <2>4, <1>6
<1>8. AsideFrom(S, t) /\ AsideFromPools(S)
  <2>1. \A u \in S : OwnedBy(u, t)
    BY <1>2 DEF OwnedBy
  <2> QED BY <2>1, PortSemaphores
<1>9. \A u \in Port \ {t} : \A j : Undisposed(u, j)' = Undisposed(u, j)
  BY <1>6, <1>7, <1>8, PortStepOthers
<1>10. /\ BufferInv'
       /\ \A b \in Buffer : Loose(b)' = Loose(b)
       /\ \A b \in Buffer : holder[b] \in Proc \ {p} => holder'[b] = holder[b]
       /\ holder' \in [Buffer -> Proc \cup {Nobody}]
  BY <1>3, <1>5, <1>6, <1>9, MessagePosted
<1>11. PoolPlaces'
  <2>1. k.at \in CallAt \cup ClearAt
    BY DEF CallAt
  <2> QED BY <2>1, <1>1, <1>3, <1>10, PlacesBeside
<1>12. SLive(t)' => SLive(t) /\ ptssem'[t] = ptssem[t] /\ semaph'[ptssem[t]].used
  BY <1>2, <1>3, <1>6, <1>7
<1>13. RLive(t)' => RLive(t) /\ ptrsem'[t] = ptrsem[t] /\ semaph'[ptrsem[t]].used
  <2>1. RLive(t) => r # SYSERR
    BY DEF RLive
  <2> QED BY <2>1, <1>2, <1>3, <1>6, <1>7
<1>14. SendAccount(t)'
  <2>1. Promise(semaph, s, Comers("psend", t)) \in Nat /\ ptmaxcnt[t] \in Nat
    BY <1>1, <1>2, PromiseType DEF Types, Comers
  <2> QED BY <2>1, <1>2, <1>3, <1>5, <1>7 DEF SendAccount, Killing
<1>15. ptrsem'[t] # SYSERR => TakeAccount(t)'
  <2>1. r # SYSERR => Promise(semaph, r, Comers("preceive", t)) \in Nat
    BY <1>1, <1>2, PromiseType DEF Comers
  <2> QED BY <2>1, <1>2, <1>3, <1>5, <1>7 DEF TakeAccount, Killing
<1>16. pc'[p].at = "user"
  BY DEF Moves
<1>17. NodesInv'
  BY <1>1, <1>4, <1>5, NodesMore DEF PortsInv, Types
<1>18. Types'
  <2>1. /\ pc' = [q \in Proc |-> pc'[q]] /\ \A q \in Proc : pc'[q].at \in Places
    BY <1>1 DEF Moves, Types, Places
  <2>2. ptfree' \in Nat
    BY <1>1, <1>4 DEF Types
  <2> QED BY <2>1, <2>2, <1>1, <1>3, <1>5, <1>10 DEF Types
<1>19. PortEffect(p, t)
  BY <1>3, <1>6, <1>10, <1>11, <1>12, <1>13, <1>14, <1>15, <1>16, <1>17, <1>18 DEF PortEffect, PortSide
<1> QED BY <1>6, <1>7, <1>8, <1>19, PortStepKeeps

(* psend, when wait() returns at once ... *)
LEMMA PsendKeeps ==
    ASSUME IInv, "ports" \in load.calls, NEW p \in Proc, NEW t \in Port, NEW m \in Msgs,
           MayHold(p, m), psend(p, t, m), Give(m, Nobody), UNCHANGED <<poolFixed, load>>
    PROVE  IInv'
<1>1. /\ Types /\ TableOK(semaph) /\ WaitInv /\ pc[p].at = "user"
      /\ ptstate[t] = "PTALLOC" /\ WaitPasses(ptssem[t])
      /\ Enqueue(t, m, wait(semaph, ptssem[t], p)) /\ UNCHANGED <<portFixed, pc>>
  BY DEF IInv, psend, InUser
<1>2. p \in Unqueued(semaph) /\ Moves(p, pc[p])
  BY <1>1, UserUnqueued, StaysMoves
<1>3. /\ ptssem[t] \in Sem /\ ptssem[t] # SYSERR
      /\ semaph[ptssem[t]].used /\ semaph[ptssem[t]].cnt > 0
  BY <1>1, SemaphoresAssumption DEF WaitPasses, Used, Sem, SYSERR
<1>4. Pooled => m \in Buffer /\ holder[m] = p
  BY MessagesAssumption, <1>1 DEF MayHold, Pooled, Types
<1>5. PICK t1 : t1 = wait(semaph, ptssem[t], p)
  OBVIOUS
<1>6. OnlyCountOf(semaph, t1, ptssem[t])
  BY <1>1, <1>2, <1>3, <1>5, PassingCounts
<1>7. Promise(t1, ptssem[t], Comers("psend", t))
         = Promise(semaph, ptssem[t], Comers("psend", t)) - 1
  <2>1. Comers("psend", t) \subseteq Proc
    BY DEF Comers
  <2> QED BY <2>1, <1>1, <1>2, <1>3, <1>5, PromiseTaken
<1>8. Comers("psend", t) \ {p} = Comers("psend", t)
  BY <1>1 DEF Comers
<1> QED BY <1>1, <1>2, <1>3, <1>4, <1>5, <1>6, <1>7, <1>8, EnqueueKeeps

(* ... and when it had blocked. *)
LEMMA PsendGoKeeps ==
    ASSUME IInv, "ports" \in load.calls, NEW p \in Proc, psendGo(p), Give(pc[p].n, Nobody),
           UNCHANGED <<poolFixed, load>>
    PROVE  IInv'
<1>1. /\ Types /\ TableOK(semaph) /\ SeqInv /\ PoolPlaces /\ pc[p].at = "psend" /\ Runs(p)
      /\ StillValid(pc[p].a, pc[p].seq)
      /\ Enqueue(pc[p].a, pc[p].n, semaph) /\ UNCHANGED portFixed /\ Goto(p, User)
  BY DEF IInv, psendGo, SendAccepted, Reached
<1>2. PICK t \in Port : t = pc[p].a
  BY <1>1 DEF SeqInv
<1>3. PICK m \in Msgs : m = pc[p].n
  BY <1>1 DEF SeqInv
<1>4. ptstate[t] = "PTALLOC" /\ ptssem[t] # SYSERR /\ p \in Comers("psend", t)
  BY <1>1, <1>2 DEF SeqInv, StillValid, Comers
<1>5. p \in Unqueued(semaph) /\ Moves(p, User) /\ User.at = "user"
  BY <1>1, GotoMoves, RunsUnqueued DEF User, At, Frame
<1>6. Pooled => m \in Buffer /\ holder[m] = p
  BY <1>1, <1>3 DEF PoolPlaces
<1>7. OnlyCountOf(semaph, semaph, ptssem[t])
  BY <1>1, NothingCounts
<1>8. Promise(semaph, ptssem[t], Comers("psend", t) \ {p})
         = Promise(semaph, ptssem[t], Comers("psend", t)) - 1
  <2>1. Comers("psend", t) \subseteq Proc /\ ptssem[t] \in Sem
    BY <1>4, WaitersAreComers DEF Comers
  <2> QED BY <2>1, <1>1, <1>4, <1>5, PromiseUsed
<1> QED BY <1>1, <1>2, <1>3, <1>4, <1>5, <1>6, <1>7, <1>8, EnqueueKeeps

(* The first message of port t goes to p. *)
LEMMA MessageTaken ==
    ASSUME IInv, NEW p \in Proc, NEW t \in Port, NEW k, AtPort(p, k, t),
           ptstate[t] = "PTALLOC", ptstate'[t] = "PTALLOC",
           \A u \in Port \ {t} : \A j : Undisposed(u, j)' = Undisposed(u, j),
           ptq[t] # <<>>, ptq'[t] = Tail(ptq[t]), Give(Head(ptq[t]), p),
           UNCHANGED poolFixed
    PROVE  /\ BufferInv'
           /\ \A b \in Buffer : Loose(b)' = Loose(b)
           /\ \A b \in Buffer : holder[b] \in Proc \ {p} => holder'[b] = holder[b]
           /\ holder' \in [Buffer -> Proc \cup {Nobody}]
<1>1. /\ Types /\ BufferInv /\ Nobody \notin Proc
      /\ UNCHANGED <<nbpools, bpnext, bpsem, word, made, load>> /\ Pooled' = Pooled
  BY MessagesAssumption DEF IInv, AtPort, poolFixed, Pooled
<1>2. /\ \A u \in Port \ {t} : ptq'[u] = ptq[u]
      /\ Moves(p, k) /\ pc[p].at \notin {"dead", "stamp"}
  BY DEF AtPort, CallAt, ClearAt
<1>0. PICK m : m = Head(ptq[t])
  OBVIOUS
<1>3. /\ Len(ptq[t]) \in Nat \ {0} /\ Len(ptq'[t]) = Len(ptq[t]) - 1
      /\ \A j \in 1 .. Len(ptq[t]) - 1 : ptq'[t][j] = ptq[t][j + 1]
      /\ ptq[t][1] = m
  <2>1. ptq[t] \in Seq(Msgs)
    BY <1>1 DEF Types
  <2> QED BY <2>1, <1>0, EmptySeq, LenProperties, HeadTailProperties
<1>a. PICK n \in Nat : Len(ptq[t]) = n + 1 /\ Len(ptq'[t]) = n
  <2>1. Len(ptq[t]) - 1 \in Nat /\ Len(ptq[t]) = (Len(ptq[t]) - 1) + 1
    BY <1>3
  <2> QED BY <2>1, <1>3
<1>4. /\ \A j : Undisposed(t, j) <=> j \in 1 .. n + 1
      /\ \A j : Undisposed(t, j)' <=> j \in 1 .. n
  BY <1>a DEF Undisposed
<1>5. /\ \A j : j \in 1 .. n => j + 1 \in 1 .. n + 1 /\ j + 1 # 1 /\ j \in Int
      /\ \A j : j \in 1 .. n + 1 => j = 1 \/ (j - 1 \in 1 .. n /\ (j - 1) + 1 = j)
      /\ 1 \in 1 .. n + 1
  OBVIOUS
<1>6. \A j \in 1 .. n : ptq'[t][j] = ptq[t][j + 1]
  BY <1>3, <1>a
<1>7. \A u \in Port : \A j : Undisposed(u, j)' =>
         \E i : Undisposed(u, i) /\ ptq'[u][j] = ptq[u][i] /\ (u = t => i = j + 1) /\ (u # t => i = j)
  <2> SUFFICES ASSUME NEW u \in Port, NEW j, Undisposed(u, j)'
               PROVE  \E i : /\ Undisposed(u, i) /\ ptq'[u][j] = ptq[u][i]
                             /\ (u = t => i = j + 1) /\ (u # t => i = j)
    OBVIOUS
  <2>1. CASE u # t
    <3>1. Undisposed(u, j) /\ ptq'[u][j] = ptq[u][j]
      BY <2>1, <1>2
    <3> QED BY <2>1, <3>1
  <2>2. CASE u = t
    <3>1. j \in 1 .. n /\ j + 1 \in 1 .. n + 1
      BY <2>2, <1>4, <1>5
    <3>2. Undisposed(t, j + 1) /\ ptq'[t][j] = ptq[t][j + 1]
      BY <3>1, <1>4, <1>6
    <3> QED BY <2>2, <3>2
  <2> QED BY <2>1, <2>2
<1>8. \A u \in Port : \A j : Undisposed(u, j) =>
         \/ u = t /\ j = 1 /\ ptq[u][j] = m
         \/ \E i : Undisposed(u, i)' /\ ptq'[u][i] = ptq[u][j]
  <2> SUFFICES ASSUME NEW u \in Port, NEW j, Undisposed(u, j)
               PROVE  \/ u = t /\ j = 1 /\ ptq[u][j] = m
                      \/ \E i : Undisposed(u, i)' /\ ptq'[u][i] = ptq[u][j]
    OBVIOUS
  <2>1. CASE u # t
    <3>1. Undisposed(u, j)' /\ ptq'[u][j] = ptq[u][j]
      BY <2>1, <1>2
    <3> QED BY <3>1
  <2>2. CASE u = t /\ j = 1
    BY <2>2, <1>3
  <2>3. CASE u = t /\ j # 1
    <3>1. j - 1 \in 1 .. n /\ (j - 1) + 1 = j
      BY <2>3, <1>4, <1>5
    <3>2. Undisposed(t, j - 1)' /\ ptq'[t][j - 1] = ptq[t][j]
      BY <3>1, <1>4, <1>6
    <3> QED BY <3>2, <2>3
  <2> QED BY <2>1, <2>2, <2>3
<1>9. \A u \in Port : \A j : /\ Undisposed(u, j) => j \in 1 .. Len(ptq[u])
                             /\ Undisposed(u, j)' => j \in 1 .. Len(ptq'[u])
  BY DEF Undisposed
<1>b. Undisposed(t, 1) /\ ptq[t][1] = m
  BY <1>3, <1>4, <1>5
<1>11. CASE ~ Pooled
  <2>1. UNCHANGED holder
    BY <1>11 DEF Give
  <2>2. UNCHANGED poolVars /\ PostedSame
    BY <2>1, <1>1, <1>11 DEF poolVars, PostedSame
  <2>3. BufferInv' /\ \A b \in Buffer : Loose(b)' = Loose(b)
    BY <2>2, <1>1, <1>2, BuffersBeside
  <2> QED BY <2>1, <2>3, <1>1 DEF Types
<1>12. CASE Pooled
  <2>1. /\ m \in Buffer /\ m <= made /\ holder[m] = Nobody /\ word[m] \in 0 .. nbpools - 1
    BY <1>1, <1>9, <1>12, <1>b DEF BufferInv, PostedInv
  <2>2. /\ holder' = [holder EXCEPT ![m] = p]
        /\ holder' \in [Buffer -> Proc \cup {Nobody}]
        /\ holder'[m] = p
        /\ \A b \in Buffer : b # m => holder'[b] = holder[b]
    BY <2>1, <1>0, <1>1, <1>12 DEF Give, Types
  <2>3. \A u, v \in Port : \A i, j : Undisposed(u, i) /\ Undisposed(v, j) /\ ptq[u][i] = ptq[v][j]
           => u = v /\ i = j
    BY <1>1, <1>9, <1>12 DEF BufferInv, PostedInv
  <2>4. \A u \in Port : \A j : Undisposed(u, j)' => ptq'[u][j] # m
    <3> SUFFICES ASSUME NEW u \in Port, NEW j, Undisposed(u, j)'
                 PROVE  ptq'[u][j] # m
      OBVIOUS
    <3>1. PICK i : Undisposed(u, i) /\ ptq'[u][j] = ptq[u][i] /\ (u = t => i = j + 1)
      BY <1>7
    <3>2. u = t => i # 1
      BY <3>1, <1>4, <1>5
    <3> QED BY <3>1, <3>2, <2>3, <1>b
  <2>5. PoolsBasic'
    BY <1>1, <1>12, <2>1, <2>2 DEF BufferInv, PoolsBasic
  <2>6. PostedInv'
    <3>1. ASSUME NEW u \in Port, NEW j \in 1 .. Len(ptq'[u]), Undisposed(u, j)'
          PROVE  /\ ptq'[u][j] \in Buffer /\ ptq'[u][j] <= made
                 /\ holder'[ptq'[u][j]] = Nobody
                 /\ word[ptq'[u][j]] \in 0 .. nbpools - 1
      <4>1. PICK i : Undisposed(u, i) /\ ptq'[u][j] = ptq[u][i]
        BY <3>1, <1>7
      <4>2. /\ ptq[u][i] \in Buffer /\ ptq[u][i] <= made
            /\ holder[ptq[u][i]] = Nobody
            /\ word[ptq[u][i]] \in 0 .. nbpools - 1
        BY <4>1, <1>1, <1>9, <1>12 DEF BufferInv, PostedInv
      <4> QED BY <4>1, <4>2, <3>1, <2>2, <2>4
    <3>2. ASSUME NEW u \in Port, NEW v \in Port,
                 NEW j \in 1 .. Len(ptq'[u]), NEW i \in 1 .. Len(ptq'[v]),
                 Undisposed(u, j)', Undisposed(v, i)', ptq'[u][j] = ptq'[v][i]
          PROVE  u = v /\ j = i
      <4>1. PICK x : Undisposed(u, x) /\ ptq'[u][j] = ptq[u][x] /\ (u = t => x = j + 1) /\ (u # t => x = j)
        BY <3>2, <1>7
      <4>2. PICK y : Undisposed(v, y) /\ ptq'[v][i] = ptq[v][y] /\ (v = t => y = i + 1) /\ (v # t => y = i)
        BY <3>2, <1>7
      <4>3. u = v /\ x = y
        <5>1. Undisposed(u, x) /\ Undisposed(v, y) /\ ptq[u][x] = ptq[v][y]
          BY <4>1, <4>2, <3>2
        <5> QED BY <5>1, <2>3
      <4>4. j \in Int /\ i \in Int
        OBVIOUS
      <4>5. j + 1 = i + 1 => j = i
        BY <4>4
      <4> QED BY <4>1, <4>2, <4>3, <4>5
    <3> QED BY <3>1, <3>2, <1>1 DEF PostedInv
  <2>7. HeldInv'
    <3> SUFFICES ASSUME NEW b \in Buffer, holder'[b] \in Proc
                 PROVE  Stamped(b)'
      BY DEF HeldInv
    <3>0. CASE b = m
      BY <3>0, <2>1, <1>1 DEF Stamped
    <3>1. ASSUME b # m PROVE holder'[b] = holder[b] /\ Stamped(b)
      BY <3>1, <2>2, <1>1 DEF BufferInv, HeldInv
    <3>2. CASE b # m /\ holder[b] = p
      BY <3>1, <3>2, <1>1, <1>2 DEF Stamped
    <3>3. CASE b # m /\ holder[b] # p
      BY <3>1, <3>3, <1>1, <1>2 DEF Stamped, Moves
    <3> QED BY <3>0, <3>2, <3>3
  <2>8. \A b \in Buffer : b # m => InPort(b)' = InPort(b)
    <3>1. ASSUME NEW b \in Buffer, b # m, InPort(b) PROVE InPort(b)'
      <4>1. PICK u \in Port : \E j \in 1 .. Len(ptq[u]) : Undisposed(u, j) /\ ptq[u][j] = b
        BY <3>1 DEF InPort
      <4>2. PICK j \in 1 .. Len(ptq[u]) : Undisposed(u, j) /\ ptq[u][j] = b
        BY <4>1
      <4>3. PICK i : Undisposed(u, i)' /\ ptq'[u][i] = b
        BY <4>2, <3>1, <1>8
      <4> QED BY <4>3, <1>9 DEF InPort
    <3>2. ASSUME NEW b \in Buffer, InPort(b)' PROVE InPort(b)
      <4>1. PICK u \in Port : \E j \in 1 .. Len(ptq'[u]) : Undisposed(u, j)' /\ ptq'[u][j] = b
        BY <3>2 DEF InPort
      <4>2. PICK j \in 1 .. Len(ptq'[u]) : Undisposed(u, j)' /\ ptq'[u][j] = b
        BY <4>1
      <4>3. PICK i : Undisposed(u, i) /\ ptq[u][i] = b
        BY <4>2, <1>7
      <4> QED BY <4>3, <1>9 DEF InPort
    <3>3. \A b : InPort(b) \in BOOLEAN /\ InPort(b)' \in BOOLEAN
      BY DEF InPort
    <3> QED BY <3>1, <3>2, <3>3
  <2>9. InPort(m)
    BY <1>b, <1>9 DEF InPort
  <2>10. \A b \in Buffer : Loose(b)' = Loose(b)
    BY <1>1, <1>12, <2>1, <2>2, <2>8, <2>9 DEF Loose
  <2> QED BY <2>1, <2>2, <2>5, <2>6, <2>7, <2>10, <1>1 DEF BufferInv
<1> QED BY <1>11, <1>12

(* A receiver that wait() let through takes the first message. *)
LEMMA DequeueKeeps ==
    ASSUME IInv, NEW p \in Proc, NEW t \in Port, NEW k, Moves(p, k), k.at = "user", p \in Unqueued(semaph),
           \/ pc[p].at = "user"
           \/ pc[p].at = "preceive" /\ pc[p].a = t,
           ptstate[t] = "PTALLOC", ptrsem[t] # SYSERR,
           NEW t1, OnlyCountOf(semaph, t1, ptrsem[t]),
           Promise(t1, ptrsem[t], Comers("preceive", t) \ {p})
              = Promise(semaph, ptrsem[t], Comers("preceive", t)) - 1,
           Promise(semaph, ptrsem[t], Comers("preceive", t)) >= 1,
           Dequeue(t, t1), Give(Head(ptq[t]), p), UNCHANGED <<poolFixed, portFixed, load>>
    PROVE  IInv'
<1> DEFINE s == ptrsem[t]
           r == ptssem[t]
           S == {s, r}
<1>1. /\ Types /\ TableOK(semaph) /\ PortsInv /\ PoolPlaces /\ BufferInv /\ OwnUsed
  BY DEF IInv
<1>2. /\ s \in Sem /\ RLive(t) /\ semaph[s].used /\ TakeAccount(t) /\ s # r
      /\ r \in Sem \cup {SYSERR} /\ SYSERR \notin Sem
      /\ r # SYSERR => /\ SLive(t) /\ r \in Sem /\ semaph[r].used
                       /\ Waiting(semaph, r) \subseteq Comers("psend", t)
                       /\ SendAccount(t)
  BY WaitersAreComers
<1>3. /\ UNCHANGED <<portSettings, ptnextp, nextsem>>
      /\ UNCHANGED <<ptstate, ptrsem, ptssem, ptmaxcnt, ptseq>>
      /\ UNCHANGED <<nbpools, bpnext, bpsem, word, made>>
  BY DEF portFixed, portSettings, poolFixed
<1>4. /\ ptq' = [ptq EXCEPT ![t] = Tail(ptq[t])]
      /\ ptfree' = ptfree + 1
      /\ semaph' = signal(t1, r)
  <2>1. ptq' = [ptq EXCEPT ![t] = Tail(@)] /\ [ptq EXCEPT ![t] = Tail(@)] = [ptq EXCEPT ![t] = Tail(ptq[t])]
    BY DEF Dequeue
  <2> QED BY <2>1 DEF Dequeue
<1>5. /\ ptq'[t] = Tail(ptq[t])
      /\ \A u \in Port \ {t} : ptq'[u] = ptq[u]
      /\ ptq' \in [Port -> Seq(Msgs)]
      /\ Len(ptq[t]) \in Nat /\ Len(ptq'[t]) = Len(ptq[t]) - 1
      /\ 1 \in 0 .. Len(ptq[t]) /\ ptq[t] # <<>>
  <2>1. ptq[t] \in Seq(Msgs)
    BY <1>1 DEF Types
  <2>2. Promise(semaph, s, Comers("preceive", t)) <= Len(ptq[t])
    BY <1>2 DEF TakeAccount
  <2>3. Len(ptq[t]) \in Nat /\ Len(ptq[t]) >= 1
    <3>1. Promise(semaph, s, Comers("preceive", t)) \in Nat
      BY <1>1, <1>2, PromiseType DEF Comers
    <3> QED BY <2>1, <2>2, <3>1, LenProperties
  <2>4. ptq[t] # <<>>
    BY <2>1, <2>3, EmptySeq
  <2>5. Tail(ptq[t]) \in Seq(Msgs) /\ Len(Tail(ptq[t])) = Len(ptq[t]) - 1
    BY <2>1, <2>4, HeadTailProperties
  <2> QED BY <2>3, <2>4, <2>5, <1>1, <1>4 DEF Types
<1>6. /\ AtPort(p, k, t) /\ ClearInv' /\ SeqInv'
      /\ RLive(t)' = RLive(t) /\ SLive(t)' = SLive(t)
      /\ Comers("preceive", t)' = Comers("preceive", t) \ {p}
      /\ Comers("psend", t)' = Comers("psend", t)
  <2>1. pc[p].at \in CallAt /\ pc[p].at # "psend" /\ (pc[p].at # "user" => pc[p].a = t)
    BY DEF CallAt
  <2>2. p \notin Comers("psend", t)
    BY <2>1 DEF Comers
  <2>3. /\ AtPort(p, k, t) /\ ClearInv' /\ SeqInv'
        /\ RLive(t)' = RLive(t) /\ SLive(t)' = SLive(t)
        /\ \A place \in {"preceive", "psend"} :
              Comers(place, t)' = Comers(place, t) \ {p}
    BY <2>1, <1>3, <1>5, CallEnds
  <2> QED BY <2>2, <2>3
<1>7. /\ LetsGo(semaph, semaph', S)
      /\ \A u \in Sem : semaph'[u].used = semaph[u].used
      /\ Promise(semaph', s, Comers("preceive", t)') = Promise(semaph, s, Comers("preceive", t)) - 1
      /\ r # SYSERR => Promise(semaph', r, Comers("psend", t)')
                          = Promise(semaph, r, Comers("psend", t)) + 1
  <2>1. Comers("preceive", t) \ {p} \subseteq Proc /\ Comers("psend", t) \subseteq Proc
    BY DEF Comers
  <2>2. r \in Sem => /\ Waiting(semaph, r) \subseteq Comers("psend", t)
                     /\ Waiting(semaph, r) \cap (Comers("preceive", t) \ {p}) = {}
    BY <1>2 DEF Comers
  <2>3. s \in Sem \cup {SYSERR} /\ s # SYSERR /\ (r # SYSERR => r # s /\ semaph[r].used)
    BY <1>2
  <2>4. /\ LetsGo(semaph, semaph', {s, r})
        /\ \A u \in Sem : semaph'[u].used = semaph[u].used
        /\ Promise(semaph', s, Comers("preceive", t) \ {p}) = Promise(t1, s, Comers("preceive", t) \ {p})
        /\ r # SYSERR => Promise(semaph', r, Comers("psend", t))
                            = Promise(semaph, r, Comers("psend", t)) + 1
    <3>1. Across(semaph, t1, semaph', s, r, Comers("preceive", t) \ {p}, Comers("psend", t))
      BY <2>1, <2>2, <2>3, <1>1, <1>2, <1>4 DEF Across
    <3>2. Crossed(semaph, t1, semaph', s, r, Comers("preceive", t) \ {p}, Comers("psend", t))
      BY <3>1, SignalAcross
    <3> QED BY <2>3, <3>2 DEF Crossed
  <2> QED BY <2>4, <1>6
<1>8. AsideFrom(S, t) /\ AsideFromPools(S)
  <2>1. \A u \in S : OwnedBy(u, t)
    BY <1>2 DEF OwnedBy
  <2> QED BY <2>1, PortSemaphores
<1>9. \A u \in Port \ {t} : \A j : Undisposed(u, j)' = Undisposed(u, j)
  BY <1>6, <1>7, <1>8, PortStepOthers
<1>10. /\ BufferInv'
       /\ \A b \in Buffer : Loose(b)' = Loose(b)
       /\ \A b \in Buffer : holder[b] \in Proc \ {p} => holder'[b] = holder[b]
       /\ holder' \in [Buffer -> Proc \cup {Nobody}]
  BY <1>3, <1>5, <1>6, <1>9, MessageTaken
<1>11. PoolPlaces'
  <2>1. k.at \in CallAt \cup ClearAt
    BY DEF CallAt
  <2> QED BY <2>1, <1>1, <1>3, <1>10, PlacesBeside
<1>12. RLive(t)' => RLive(t) /\ ptrsem'[t] = ptrsem[t] /\ semaph'[ptrsem[t]].used
  BY <1>2, <1>3, <1>6, <1>7
<1>13. SLive(t)' => SLive(t) /\ ptssem'[t] = ptssem[t] /\ semaph'[ptssem[t]].used
  <2>1. SLive(t) => r # SYSERR
    BY DEF SLive
  <2> QED BY <2>1, <1>2, <1>3, <1>6, <1>7
<1>14. TakeAccount(t)'
  <2>1. Promise(semaph, s, Comers("preceive", t)) \in Nat
    BY <1>1, <1>2, PromiseType DEF Comers
  <2> QED BY <2>1, <1>2, <1>3, <1>5, <1>7 DEF TakeAccount, Killing
<1>15. ptssem'[t] # SYSERR => SendAccount(t)'
  <2>1. /\ r # SYSERR => Promise(semaph, r, Comers("psend", t)) \in Nat
        /\ ptmaxcnt[t] \in Nat
    BY <1>1, <1>2, PromiseType DEF Types, Comers
  <2> QED BY <2>1, <1>2, <1>3, <1>5, <1>7 DEF SendAccount, Killing
<1>16. pc'[p].at = "user"
  BY DEF Moves
<1>17. NodesInv'
  BY <1>1, <1>4, <1>5, NodesLess DEF PortsInv, Types
<1>18. Types'
  <2>1. /\ pc' = [q \in Proc |-> pc'[q]] /\ \A q \in Proc : pc'[q].at \in Places
    BY <1>1 DEF Moves, Types, Places
  <2>2. ptfree' \in Nat
    BY <1>1, <1>4 DEF Types
  <2> QED BY <2>1, <2>2, <1>1, <1>3, <1>5, <1>10 DEF Types
<1>19. PortEffect(p, t)
  BY <1>3, <1>6, <1>10, <1>11, <1>12, <1>13, <1>14, <1>15, <1>16, <1>17, <1>18 DEF PortEffect, PortSide
<1> QED BY <1>6, <1>7, <1>8, <1>19, PortStepKeeps

(* preceive, when wait() returns at once ... *)
LEMMA PreceiveKeeps ==
    ASSUME IInv, "ports" \in load.calls, NEW p \in Proc, NEW t \in Port,
           preceive(p, t), Give(Head(ptq[t]), p), UNCHANGED <<poolFixed, load>>
    PROVE  IInv'
<1>1. /\ Types /\ TableOK(semaph) /\ WaitInv /\ pc[p].at = "user"
      /\ ptstate[t] = "PTALLOC" /\ WaitPasses(ptrsem[t])
      /\ Dequeue(t, wait(semaph, ptrsem[t], p)) /\ UNCHANGED <<portFixed, pc>>
  BY DEF IInv, preceive, InUser
<1>2. p \in Unqueued(semaph) /\ Moves(p, pc[p])
  BY <1>1, UserUnqueued, StaysMoves
<1>3. /\ ptrsem[t] \in Sem /\ ptrsem[t] # SYSERR
      /\ semaph[ptrsem[t]].used /\ semaph[ptrsem[t]].cnt > 0
  BY <1>1, SemaphoresAssumption DEF WaitPasses, Used, Sem, SYSERR
<1>4. PICK t1 : t1 = wait(semaph, ptrsem[t], p)
  OBVIOUS
<1>5. OnlyCountOf(semaph, t1, ptrsem[t])
  BY <1>1, <1>2, <1>3, <1>4, PassingCounts
<1>6. /\ Promise(t1, ptrsem[t], Comers("preceive", t))
            = Promise(semaph, ptrsem[t], Comers("preceive", t)) - 1
      /\ Promise(semaph, ptrsem[t], Comers("preceive", t)) >= 1
  <2>1. Comers("preceive", t) \subseteq Proc
    BY DEF Comers
  <2> QED BY <2>1, <1>1, <1>2, <1>3, <1>4, PromiseTaken
<1>7. Comers("preceive", t) \ {p} = Comers("preceive", t)
  BY <1>1 DEF Comers
<1> QED BY <1>1, <1>2, <1>3, <1>4, <1>5, <1>6, <1>7, DequeueKeeps

(* ... and when it had blocked. *)
LEMMA PreceiveGoKeeps ==
    ASSUME IInv, "ports" \in load.calls, NEW p \in Proc, preceiveGo(p),
           StillValid(pc[p].a, pc[p].seq), Give(Head(ptq[pc[p].a]), p),
           UNCHANGED <<poolFixed, load>>
    PROVE  IInv'
<1>1. /\ Types /\ TableOK(semaph) /\ SeqInv /\ pc[p].at = "preceive" /\ Runs(p)
      /\ Dequeue(pc[p].a, semaph) /\ UNCHANGED portFixed /\ Goto(p, User)
  BY DEF IInv, preceiveGo, Reached
<1>2. PICK t \in Port : t = pc[p].a
  BY <1>1 DEF SeqInv
<1>3. ptstate[t] = "PTALLOC" /\ ptrsem[t] # SYSERR /\ p \in Comers("preceive", t)
  BY <1>1, <1>2 DEF SeqInv, StillValid, Comers
<1>4. p \in Unqueued(semaph) /\ Moves(p, User) /\ User.at = "user"
  BY <1>1, GotoMoves, RunsUnqueued DEF User, At, Frame
<1>5. OnlyCountOf(semaph, semaph, ptrsem[t])
  BY <1>1, NothingCounts
<1>6. /\ Promise(semaph, ptrsem[t], Comers("preceive", t) \ {p})
            = Promise(semaph, ptrsem[t], Comers("preceive", t)) - 1
      /\ Promise(semaph, ptrsem[t], Comers("preceive", t)) >= 1
  <2>1. Comers("preceive", t) \subseteq Proc /\ ptrsem[t] \in Sem
    BY <1>3, WaitersAreComers DEF Comers
  <2> QED BY <2>1, <1>1, <1>3, <1>4, PromiseUsed
<1> QED BY <1>1, <1>2, <1>3, <1>4, <1>5, <1>6, DequeueKeeps

(* A call that finds another port than it waited for returns: it was none of *)
(* those that the port counts.                                               *)
LEMMA StaleKeeps ==
    ASSUME IInv, NEW p \in Proc, Runs(p), pc[p].at \in {"psend", "preceive"},
           ~ StillValid(pc[p].a, pc[p].seq), Goto(p, User),
           UNCHANGED <<semVars, portVars, poolVars, load>>
    PROVE  IInv'
<1>1. /\ Types /\ TableOK(semaph) /\ ClearInv /\ SeqInv /\ PortsInv /\ PoolPlaces /\ BufferInv
      /\ OwnUsed /\ OwnApart /\ WaitInv /\ User.at = "user"
  BY DEF IInv, User, At, Frame
<1>2. PICK t \in Port : t = pc[p].a
  BY <1>1 DEF SeqInv
<1>3. p \in Unqueued(semaph) /\ Moves(p, User)
  BY <1>1, GotoMoves, RunsUnqueued
<1>4. /\ UNCHANGED <<semaph, nextsem, load>>
      /\ UNCHANGED <<ptstate, ptssem, ptrsem, ptmaxcnt, ptseq, ptq, ptfree, ptnextp>>
      /\ UNCHANGED <<nbpools, bpnext, bpsem, word, made, holder>>
  BY DEF semVars, portVars, poolVars
<1>5. /\ \A q \in Proc : pc'[q].at # "user" => pc'[q] = pc[q]
      /\ \A q \in Proc : pc[q].at \in ClearAt => pc'[q] = pc[q]
  BY <1>1, <1>3 DEF Moves, ClearAt
<1>6. \A q \in Proc : \A u \in Port : Clearing(q, u)' = Clearing(q, u)
  <2>1. \A q \in Proc : pc'[q].at \in ClearAt \/ pc[q].at \in ClearAt => pc'[q] = pc[q]
    BY <1>5 DEF ClearAt
  <2> QED BY <2>1 DEF Clearing, ClearAt
<1>7. ClearInv'
  <2>1. \A q \in Proc : pc'[q].at \in {"dispose", "freeReceivers", "ptclearEnd"} => pc'[q] = pc[q]
    BY <1>5
  <2> QED BY <2>1, <1>1, <1>4, <1>6 DEF ClearInv
<1>8. SeqInv'
  <2>1. \A q \in Proc : pc'[q].at \in {"psend", "preceive"} => pc'[q] = pc[q]
    BY <1>5
  <2> QED BY <2>1, <1>1, <1>4 DEF SeqInv
<1>9. PostedSame
  <2>1. \A q \in Proc : pc'[q].at = "dispose" \/ pc[q].at = "dispose" => pc'[q] = pc[q]
    BY <1>5 DEF ClearAt
  <2>2. \A u \in Port : \A j : Undisposed(u, j)' = Undisposed(u, j)
    BY <2>1, <1>4 DEF Undisposed
  <2> QED BY <2>2, <1>4 DEF PostedSame
<1>10. BufferInv' /\ \A b \in Buffer : Loose(b)' = Loose(b)
  BY <1>1, <1>3, <1>4, <1>9, BuffersBeside DEF poolVars
<1>11. \A u \in Port : SLive(u)' = SLive(u) /\ RLive(u)' = RLive(u)
  <2>1. \A q \in Proc : \A u \in Port : Clearing(q, u) => pc'[q] = pc[q]
    BY <1>5 DEF Clearing, ClearAt
  <2> QED BY <2>1, <1>4, <1>6 DEF SLive, RLive
<1>12. OwnUsed' /\ OwnApart'
  BY <1>1, <1>4, <1>11, OwnersSame
<1>13. WaitInv'
  <2>1. \A u \in Sem : Waiting(semaph', u) \subseteq Waiting(semaph, u) \ {p}
    BY <1>3, <1>4 DEF Unqueued
  <2>2. \A u \in Port : (SLive(u) => ptssem[u] \in Sem) /\ (RLive(u) => ptrsem[u] \in Sem)
    BY <1>1 DEF SLive, RLive, Types
  <2>3. \A i \in Pool : PLive(i)' => PLive(i) /\ bpsem'[i] = bpsem[i] /\ bpsem[i] \in Sem
    BY <1>1, <1>4 DEF PLive, Types
  <2> QED BY <2>1, <2>2, <2>3, <1>1, <1>3, <1>4, <1>11, WaitersKeep
<1>14. \A u \in Port : ptstate[u] = "PTALLOC" =>
          /\ Comers("psend", u)' = Comers("psend", u)
          /\ Comers("preceive", u)' = Comers("preceive", u)
  <2>1. ASSUME NEW u \in Port, ptstate[u] = "PTALLOC", NEW place \in {"psend", "preceive"}
        PROVE  p \notin Comers(place, u) /\ p \notin Comers(place, u)'
    BY <2>1, <1>1, <1>3 DEF Comers, StillValid, Moves
  <2>2. ASSUME NEW u \in Port, ptstate[u] = "PTALLOC", NEW place \in {"psend", "preceive"}
        PROVE  Comers(place, u)' = Comers(place, u)
    <3>1. \A q \in Proc \ {p} : q \in Comers(place, u)' <=> q \in Comers(place, u)
      BY <1>3, <1>4 DEF Comers, Moves
    <3>2. p \notin Comers(place, u) /\ p \notin Comers(place, u)'
      BY <2>1, <2>2
    <3> QED BY <3>1, <3>2 DEF Comers
  <2> QED BY <2>2
<1>15. PortsInv'
  <2>1. \A u \in Port : ptstate'[u] = "PTALLOC" /\ ptssem'[u] # SYSERR => SendAccount(u)'
    BY <1>1, <1>4, <1>14 DEF PortsInv, SendAccount, Killing
  <2>2. \A u \in Port : ptstate'[u] = "PTALLOC" /\ ptrsem'[u] # SYSERR => TakeAccount(u)'
    BY <1>1, <1>4, <1>14 DEF PortsInv, TakeAccount, Killing
  <2>3. ResetInv'
    BY <1>1, <1>4, <1>5 DEF PortsInv, ResetInv
  <2>4. NodesInv'
    BY <1>1, <1>4 DEF PortsInv, NodesInv, NodesConserved, Nodes
  <2> QED BY <2>1, <2>2, <2>3, <2>4 DEF PortsInv
<1>16. User.at \in CallAt \cup ClearAt /\ pc[p].at \in CallAt \cup ClearAt \cup {"dead"}
  BY <1>1 DEF CallAt
<1>17. PoolPlaces'
  BY <1>1, <1>3, <1>4, <1>16, PlacesBeside
<1>18. PoolsInv'
  <2>1. LetsGo(semaph, semaph', {SYSERR})
    BY <1>1, <1>4, NobodyLetGo, LetGoOne
  <2> QED BY <2>1, <1>2, <1>3, <1>4, <1>10, <1>16, NoSemaphores, ListsBeside
<1>19. Types'
  <2>1. pc' = [q \in Proc |-> pc'[q]] /\ \A q \in Proc : pc'[q].at \in Places
    BY <1>1, <1>3 DEF Moves, Types, Places
  <2> QED BY <2>1, <1>1, <1>4 DEF Types
<1>20. TableOK(semaph')
  BY <1>1, <1>4
<1> QED BY <1>7, <1>8, <1>10, <1>12, <1>13, <1>15, <1>17, <1>18, <1>19, <1>20 DEF IInv

(* A call that blocks joins those who came for the port as it is. *)
LEMMA BlockKeeps ==
    ASSUME IInv, NEW p \in Proc, NEW t \in Port, NEW place \in {"psend", "preceive"},
           NEW s, place = "psend" => s = ptssem[t], place = "preceive" => s = ptrsem[t],
           NEW m, Block(p, t, s, place, m),
           place = "psend" => m \in Msgs /\ (Pooled => m \in Buffer /\ holder[m] = p),
           UNCHANGED <<poolVars, load>>
    PROVE  IInv'
<1>1. /\ Types /\ TableOK(semaph) /\ ClearInv /\ SeqInv /\ PortsInv /\ PoolPlaces /\ BufferInv
      /\ OwnUsed /\ OwnApart /\ WaitInv
  BY DEF IInv
<1>2. /\ pc[p].at = "user" /\ ptstate[t] = "PTALLOC"
      /\ ~ WaitPasses(s) /\ ~ WaitFails(s) /\ semaph' = wait(semaph, s, p)
      /\ Goto(p, Frame(place, t, m, ptseq[t], ""))
      /\ UNCHANGED <<portFixed, ptq, ptfree>>
  BY DEF Block, InUser
<1>3. PICK k : k = Frame(place, t, m, ptseq[t], "")
  OBVIOUS
<1>4. /\ Moves(p, k) /\ k.at = place /\ k.a = t /\ k.n = m /\ k.seq = ptseq[t] /\ k.to = ""
      /\ p \in Unqueued(semaph)
  <2>1. Moves(p, k)
    BY <1>1, <1>2, <1>3, GotoMoves
  <2>2. k.at = place /\ k.a = t /\ k.n = m /\ k.seq = ptseq[t] /\ k.to = ""
    BY <1>3 DEF Frame
  <2>3. p \in Unqueued(semaph)
    BY <1>1, <1>2, UserUnqueued
  <2> QED BY <2>1, <2>2, <2>3
<1>5. /\ UNCHANGED <<nextsem, load>>
      /\ UNCHANGED <<ptstate, ptssem, ptrsem, ptmaxcnt, ptseq, ptq, ptfree, ptnextp>>
      /\ UNCHANGED <<nbpools, bpnext, bpsem, word, made, holder>>
  BY <1>2 DEF portFixed, poolVars
<1>6. s \in Sem /\ semaph[s].used /\ semaph[s].cnt <= 0 /\ s # SYSERR
  <2>1. s \in Sem /\ semaph[s].used
    BY <1>2 DEF WaitFails, Used
  <2>2. semaph[s].cnt \in Int
    BY <1>1, <2>1 DEF TableOK, SemRec
  <2>3. ~ (semaph[s].cnt > 0)
    BY <1>2, <2>1 DEF WaitPasses, Used
  <2> QED BY <2>1, <2>2, <2>3, SemaphoresAssumption DEF Sem, SYSERR
<1>7. /\ TableOK(semaph') /\ semaph'[s].used
      /\ \A u \in Sem \ {s} : semaph'[u] = semaph[u] /\ Waiting(semaph', u) = Waiting(semaph, u)
      /\ Unqueued(semaph') = Unqueued(semaph) \ {p}
      /\ Waiting(semaph', s) = Waiting(semaph, s) \cup {p}
  <2>1. /\ TableOK(semaph) /\ s \in Sem /\ semaph[s].used /\ p \in Unqueued(semaph)
        /\ semaph' = wait(semaph, s, p)
    BY <1>1, <1>2, <1>4, <1>6
  <2>2. semaph[s].cnt <= 0
    BY <1>6
  <2> QED BY <2>1, <2>2, WaitEffect
<1>8. /\ \A q \in Proc : pc'[q].at \in ClearAt \/ pc[q].at \in ClearAt => pc'[q] = pc[q]
      /\ \A q \in Proc : pc'[q].at \in PoolAt \/ pc[q].at \in PoolAt => pc'[q] = pc[q] \/ q = p
      /\ \A q \in Proc : pc'[q].at \in {"psend", "preceive"} => pc'[q] = pc[q] \/ q = p
  BY <1>2, <1>4 DEF Moves, ClearAt, PoolAt
<1>9. \A q \in Proc : \A u \in Port : Clearing(q, u)' = Clearing(q, u)
  BY <1>8 DEF Clearing, ClearAt
<1>10. ClearInv'
  <2>1. \A q \in Proc : pc'[q].at \in {"dispose", "freeReceivers", "ptclearEnd"} => pc'[q] = pc[q]
    BY <1>8 DEF ClearAt
  <2> QED BY <2>1, <1>1, <1>5, <1>9 DEF ClearInv
<1>11. SeqInv'
  <2> SUFFICES ASSUME NEW q \in Proc, pc'[q].at \in {"psend", "preceive"}
               PROVE  /\ pc'[q].a \in Port
                      /\ pc'[q].seq \in 0 .. ptseq[pc'[q].a]
                      /\ pc'[q].seq = ptseq[pc'[q].a] =>
                            /\ ptstate[pc'[q].a] = "PTALLOC"
                            /\ pc'[q].at = "psend" => ptssem[pc'[q].a] # SYSERR
                            /\ pc'[q].at = "preceive" => ptrsem[pc'[q].a] # SYSERR
                      /\ pc'[q].at = "psend" => pc'[q].n \in Msgs
    BY <1>5 DEF SeqInv
  <2>1. CASE q # p
    <3>1. pc'[q] = pc[q]
      BY <2>1, <1>8
    <3> QED BY <3>1, <1>1 DEF SeqInv
  <2>2. CASE q = p
    <3>1. pc'[q] = k
      BY <2>2, <1>4 DEF Moves
    <3>2. ptseq[t] \in 0 .. ptseq[t]
      BY <1>1, PortsAssumption DEF Types
    <3> QED BY <3>1, <3>2, <1>2, <1>4, <1>6
  <2> QED BY <2>1, <2>2
<1>12. \A u \in Port : SLive(u)' = SLive(u) /\ RLive(u)' = RLive(u)
  <2>1. \A q \in Proc : \A u \in Port : Clearing(q, u) => pc'[q] = pc[q]
    BY <1>8 DEF Clearing, ClearAt
  <2> QED BY <2>1, <1>5, <1>9 DEF SLive, RLive
<1>13. /\ place = "psend" => SLive(t) /\ s = ptssem[t]
       /\ place = "preceive" => RLive(t) /\ s = ptrsem[t]
  BY <1>2, <1>6 DEF SLive, RLive
<1>14. /\ \A u \in Port : SLive(u) /\ ptssem[u] = s => u = t /\ place = "psend"
       /\ \A u \in Port : RLive(u) /\ ptrsem[u] = s => u = t /\ place = "preceive"
       /\ \A i \in Pool : PLive(i) => bpsem[i] # s
  BY <1>1, <1>13 DEF OwnApart
<1>15. OwnUsed' /\ OwnApart'
  <2>1. \A u \in Sem : semaph[u].used => semaph'[u].used
    BY <1>7
  <2> QED BY <2>1, <1>1, <1>5, <1>12, OwnersSame
<1>16. WaitInv'
  <2>1. pc'[p].at = place /\ pc'[p].a = t /\ pc'[p].seq = ptseq[t]
    BY <1>4 DEF Moves
  <2>2. \A u \in Sem : u # s => Waiting(semaph', u) \subseteq Waiting(semaph, u) \ {p}
    <3>1. \A u \in Sem : p \notin Waiting(semaph, u)
      BY <1>4 DEF Unqueued
    <3>2. \A u \in Sem : u # s => Waiting(semaph', u) = Waiting(semaph, u)
      BY <1>7
    <3> QED BY <3>1, <3>2
  <2>3. /\ \A u \in Port : SLive(u) /\ ptssem[u] = s => CalledAt(p, "psend", u)'
        /\ \A u \in Port : RLive(u) /\ ptrsem[u] = s => CalledAt(p, "preceive", u)'
    BY <2>1, <1>5, <1>14 DEF CalledAt
  <2>4. Waiting(semaph', s) \subseteq Waiting(semaph, s) \cup {p}
    BY <1>7
  <2>5. \A i \in Pool : PLive(i) /\ bpsem[i] = s => k.at = "unlink" /\ k.a = i
    BY <1>14
  <2>6. k.at \in {"psend", "preceive", "unlink"}
    BY <1>4
  <2>7. UNCHANGED <<ptstate, ptssem, ptrsem, ptseq, bpsem, nbpools>>
    BY <1>5
  <2>8. Moves(p, k) /\ s \in Sem /\ WaitInv
    BY <1>1, <1>4, <1>6
  <2> QED BY <2>2, <2>3, <2>4, <2>5, <2>6, <2>7, <2>8, <1>12, WaitersJoin
<1>17. ASSUME NEW u \in Port, NEW c \in {"psend", "preceive"}, u # t \/ c # place
       PROVE  /\ Comers(c, u)' = Comers(c, u)
              /\ Comers(c, u) \cap Unqueued(semaph') = Comers(c, u) \cap Unqueued(semaph)
  <2>1. p \notin Comers(c, u) /\ p \notin Comers(c, u)'
    BY <1>2, <1>4, <1>17 DEF Comers, Moves
  <2>2. \A q \in Proc \ {p} : q \in Comers(c, u)' <=> q \in Comers(c, u)
    BY <1>4, <1>5 DEF Comers, Moves
  <2> QED BY <2>1, <2>2, <1>7 DEF Comers
<1>18. /\ Comers(place, t)' = Comers(place, t) \cup {p} /\ p \notin Comers(place, t)
       /\ Promise(semaph', s, Comers(place, t)') = Promise(semaph, s, Comers(place, t))
  <2>1. Comers(place, t)' = Comers(place, t) \cup {p} /\ p \notin Comers(place, t)
    <3>1. \A q \in Proc \ {p} : q \in Comers(place, t)' <=> q \in Comers(place, t)
      BY <1>4, <1>5 DEF Comers, Moves
    <3>2. p \in Comers(place, t)' /\ p \notin Comers(place, t)
      BY <1>2, <1>4, <1>5 DEF Comers, Moves
    <3> QED BY <3>1, <3>2 DEF Comers
  <2>2. Comers(place, t) \subseteq Proc
    BY DEF Comers
  <2>3. Promise(wait(semaph, s, p), s, Comers(place, t) \cup {p}) = Promise(semaph, s, Comers(place, t))
    <3>1. /\ TableOK(semaph) /\ s \in Sem /\ semaph[s].used /\ p \in Unqueued(semaph)
      BY <1>1, <1>4, <1>6
    <3> QED BY <2>1, <2>2, <3>1, PromiseEnter
  <2> QED BY <2>1, <2>3, <1>2
<1>19. ASSUME NEW u \in Port, ptstate'[u] = "PTALLOC", ptssem'[u] # SYSERR
       PROVE  SendAccount(u)'
  <2>1. SLive(u) /\ SendAccount(u) /\ ptssem[u] \in Sem /\ SamePort(u)
    BY <1>1, <1>5, <1>19 DEF SLive, PortsInv, Types, SamePort
  <2>2. CASE u = t /\ place = "psend"
    BY <2>1, <2>2, <1>5, <1>13, <1>18, SendAccountSame
  <2>3. CASE ~ (u = t /\ place = "psend")
    <3>1. semaph'[ptssem[u]] = semaph[ptssem[u]]
      BY <2>1, <2>3, <1>7, <1>14
    <3>2. /\ Comers("psend", u)' = Comers("psend", u)
          /\ Comers("psend", u) \cap Unqueued(semaph') = Comers("psend", u) \cap Unqueued(semaph)
      BY <2>3, <1>17
    <3>3. Promise(semaph', ptssem[u], Comers("psend", u)) = Promise(semaph, ptssem[u], Comers("psend", u))
      BY <3>1, <3>2, PromiseSame
    <3> QED BY <2>1, <3>2, <3>3, <1>5, SendAccountSame
  <2> QED BY <2>2, <2>3
<1>20. ASSUME NEW u \in Port, ptstate'[u] = "PTALLOC", ptrsem'[u] # SYSERR
       PROVE  TakeAccount(u)'
  <2>1. RLive(u) /\ TakeAccount(u) /\ ptrsem[u] \in Sem /\ SamePort(u)
    BY <1>1, <1>5, <1>20 DEF RLive, PortsInv, Types, SamePort
  <2>2. CASE u = t /\ place = "preceive"
    BY <2>1, <2>2, <1>5, <1>13, <1>18, TakeAccountSame
  <2>3. CASE ~ (u = t /\ place = "preceive")
    <3>1. semaph'[ptrsem[u]] = semaph[ptrsem[u]]
      BY <2>1, <2>3, <1>7, <1>14
    <3>2. /\ Comers("preceive", u)' = Comers("preceive", u)
          /\ Comers("preceive", u) \cap Unqueued(semaph') = Comers("preceive", u) \cap Unqueued(semaph)
      BY <2>3, <1>17
    <3>3. Promise(semaph', ptrsem[u], Comers("preceive", u)) = Promise(semaph, ptrsem[u], Comers("preceive", u))
      BY <3>1, <3>2, PromiseSame
    <3> QED BY <2>1, <3>2, <3>3, <1>5, TakeAccountSame
  <2> QED BY <2>2, <2>3
<1>21. ResetInv'
  <2> SUFFICES ASSUME NEW q \in Proc, pc'[q].to = "PTALLOC",
                      pc'[q].at \in {"freeReceivers", "ptclearEnd"}
               PROVE  /\ ptssem[pc'[q].a] # SYSERR =>
                            semaph'[ptssem[pc'[q].a]].cnt = ptmaxcnt[pc'[q].a]
                      /\ pc'[q].at = "ptclearEnd" /\ ptrsem[pc'[q].a] # SYSERR =>
                            semaph'[ptrsem[pc'[q].a]].cnt = 0
    BY <1>5 DEF ResetInv
  <2>1. pc'[q] = pc[q]
    BY <1>8 DEF ClearAt
  <2>2. PICK u \in Port : u = pc[q].a /\ ptstate[u] = "PTLIMBO"
    BY <2>1, <1>1 DEF ClearInv
  <2>3. /\ ptssem[u] # SYSERR => SLive(u) /\ ptssem[u] \in Sem
        /\ pc[q].at = "ptclearEnd" /\ ptrsem[u] # SYSERR => RLive(u) /\ ptrsem[u] \in Sem
    BY <2>1, <2>2, <1>1 DEF SLive, RLive, Clearing, Types
  <2>4. u # t
    BY <2>2, <1>2
  <2>5. /\ ptssem[u] # SYSERR => semaph'[ptssem[u]] = semaph[ptssem[u]]
        /\ pc[q].at = "ptclearEnd" /\ ptrsem[u] # SYSERR => semaph'[ptrsem[u]] = semaph[ptrsem[u]]
    BY <2>3, <2>4, <1>7, <1>14
  <2> QED BY <2>1, <2>2, <2>5, <1>1 DEF PortsInv, ResetInv
<1>22. PortsInv'
  <2>1. NodesInv'
    BY <1>1, <1>5 DEF PortsInv, NodesInv, NodesConserved, Nodes
  <2> QED BY <2>1, <1>19, <1>20, <1>21 DEF PortsInv
<1>23. PostedSame
  <2>1. \A q \in Proc : pc'[q].at = "dispose" \/ pc[q].at = "dispose" => pc'[q] = pc[q]
    BY <1>8 DEF ClearAt
  <2>2. \A u \in Port : \A j : Undisposed(u, j)' = Undisposed(u, j)
    BY <2>1, <1>5 DEF Undisposed
  <2> QED BY <2>2, <1>5 DEF PostedSame
<1>24. BufferInv' /\ \A b \in Buffer : Loose(b)' = Loose(b)
  BY <1>1, <1>2, <1>4, <1>5, <1>23, BuffersBeside DEF poolVars
<1>25. PoolPlaces'
  <2>1. k.at \in CallAt \cup ClearAt
    BY <1>4 DEF CallAt
  <2>2. Pooled /\ k.at = "psend" => k.n \in Buffer /\ holder'[k.n] = p
    BY <1>4, <1>5
  <2> QED BY <2>1, <2>2, <1>1, <1>4, <1>5, PlacesBeside
<1>26. PoolsInv'
  <2>1. PICK L : FreeLists(L)
    BY DEF IInv, PoolsInv
  <2>2. ASSUME NEW i \in Pool, PLive(i) PROVE PoolAccount(L, i)'
    <3>1. PoolAccount(L, i) /\ bpsem[i] \in Sem /\ bpsem[i] # s
      BY <2>1, <2>2, <1>1, <1>14 DEF FreeLists, PLive, Types
    <3>2. Takers(i)' = Takers(i) /\ Freers(i)' = Freers(i) /\ p \notin Takers(i)
      <4>1. \A q \in Proc : pc'[q].at \in {"unlink", "release"} \/ pc[q].at \in {"unlink", "release"}
               => pc'[q] = pc[q] /\ q # p
        BY <1>2, <1>4 DEF Moves
      <4> QED BY <4>1 DEF Takers, Freers
    <3>3. Takers(i) \cap Unqueued(semaph') = Takers(i) \cap Unqueued(semaph)
      BY <3>2, <1>7
    <3>4. semaph'[bpsem[i]] = semaph[bpsem[i]]
      BY <3>1, <1>7
    <3>5. Promise(semaph', bpsem[i], Takers(i)) = Promise(semaph, bpsem[i], Takers(i))
      BY <3>3, <3>4, PromiseSame
    <3> QED BY <3>1, <3>2, <3>5, <1>5, PoolAccountSame
  <2> QED BY <2>1, <2>2, <1>5, <1>24, ListsSame DEF PoolsInv
<1>27. Types'
  <2>1. pc' = [q \in Proc |-> pc'[q]] /\ \A q \in Proc : pc'[q].at \in Places
    BY <1>1, <1>4 DEF Moves, Types, Places
  <2> QED BY <2>1, <1>1, <1>5 DEF Types
<1> QED BY <1>7, <1>10, <1>11, <1>15, <1>16, <1>22, <1>24, <1>25, <1>26, <1>27 DEF IInv

-----------------------------------------------------------------------------
(* preset and pdelete *)

(* _ptclear resets or deletes a semaphore of the port. *)
LEMMA ClearedEffect ==
    ASSUME TableOK(semaph), NEW s \in Sem \cup {SYSERR}, NEW to, NEW count \in Nat
    PROVE  /\ LetGo(semaph, Cleared(s, to, count), s)
           /\ to = "PTALLOC" =>
                 /\ \A u \in Sem : Cleared(s, to, count)[u].used = semaph[u].used
                 /\ Used(semaph, s) => Cleared(s, to, count)[s].cnt = count
<1>1. CASE to = "PTALLOC"
  <2>1. Cleared(s, to, count) = sreset(semaph, s, count)
    BY <1>1 DEF Cleared
  <2> QED BY <2>1, <1>1, ResetLetsGo
<1>2. CASE to # "PTALLOC"
  <2>1. Cleared(s, to, count) = sdelete(semaph, s)
    BY <1>2 DEF Cleared
  <2> QED BY <2>1, <1>2, DeleteLetsGo
<1> QED BY <1>1, <1>2

(* p clears port t: it begins to, or it is at it. *)
ClearsPort(p, t) ==
    /\ "ports" \in load.calls
    /\ \/ pc[p].at = "user" /\ ptstate[t] = "PTALLOC"
       \/ Clearing(p, t)

(* Who takes up or continues the clearing of a port is alone in it. *)
LEMMA ClearsAlone ==
    ASSUME IInv, NEW p \in Proc, NEW t \in Port, ClearsPort(p, t)
    PROVE  /\ \A q \in Proc \ {p} : ~ Clearing(q, t)
           /\ ptstate[t] \in {"PTALLOC", "PTLIMBO"}
           /\ pc[p].at # "user" => ptstate[t] = "PTLIMBO"
           /\ pc[p].at \in CallAt \cup ClearAt
           /\ pc[p].at # "user" => pc[p].a = t
           /\ p \in Unqueued(semaph)
<1>1. TableOK(semaph) /\ ClearInv /\ WaitInv
  BY DEF IInv
<1>2. p \in Unqueued(semaph)
  <2>1. pc[p].at \notin {"psend", "preceive", "unlink"}
    BY DEF ClearsPort, Clearing
  <2> QED BY <2>1, <1>1, UserUnqueued
<1>3. CASE pc[p].at = "user" /\ ptstate[t] = "PTALLOC"
  <2>1. \A q \in Proc : ~ Clearing(q, t)
    BY <1>1, <1>3 DEF ClearInv, Clearing
  <2> QED BY <2>1, <1>2, <1>3 DEF CallAt
<1>4. CASE Clearing(p, t)
  <2>1. \A q \in Proc \ {p} : ~ Clearing(q, t)
    BY <1>1, <1>4 DEF ClearInv
  <2>2. ptstate[t] = "PTLIMBO" /\ pc[p].at \in ClearAt /\ pc[p].a = t
    BY <1>1, <1>4 DEF ClearInv, Clearing, ClearAt
  <2> QED BY <2>1, <2>2, <1>2
<1> QED BY <1>3, <1>4 DEF ClearsPort

(* Clearing goes on at k: the port is in limbo, and nobody waits for it as   *)
(* it is.                                                                    *)
GoesOn(p, k, t) ==
    /\ Moves(p, k)
    /\ k.at \in ClearAt /\ k.a = t /\ k.to \in {"PTFREE", "PTALLOC"}
    /\ k.at = "dispose" => k.n \in Nat \ {0}
    /\ ptstate' = [ptstate EXCEPT ![t] = "PTLIMBO"]
    /\ ptseq' = IF ptstate[t] = "PTALLOC" THEN [ptseq EXCEPT ![t] = @ + 1] ELSE ptseq
    /\ ptstate[t] = "PTALLOC" => ptseq[t] < MaxSeq
    /\ ptq' \in [Port -> Seq(Msgs)]
    /\ \A u \in Port \ {t} : ptq'[u] = ptq[u]
    /\ k.at # "dispose" => ptq'[t] = <<>>
    /\ UNCHANGED <<ptssem, ptrsem, ptmaxcnt, ptnextp, nextsem, load>>

(* A step of _ptclear keeps what is said of the port and of its callers. *)
LEMMA ClearingGoesOn ==
    ASSUME IInv, NEW p \in Proc, NEW t \in Port, ClearsPort(p, t), NEW k, GoesOn(p, k, t)
    PROVE  /\ AtPort(p, k, t) /\ ClearInv' /\ SeqInv'
           /\ ptstate'[t] = "PTLIMBO"
           /\ \A q \in Proc : Clearing(q, t)' <=> q = p
           /\ ptstate' \in [Port -> {"PTFREE", "PTLIMBO", "PTALLOC"}]
           /\ ptseq' \in [Port -> 0 .. MaxSeq]
           /\ pc' = [q \in Proc |-> pc'[q]] /\ \A q \in Proc : pc'[q].at \in Places
           /\ \A j : Undisposed(t, j)' <=> j \in 1 .. Len(ptq'[t]) /\ k.at = "dispose" /\ k.n <= j
           /\ SLive(t)' <=> ptssem[t] # SYSERR /\ (k.at = "dispose" \/ k.to = "PTALLOC")
           /\ RLive(t)' <=> ptrsem[t] # SYSERR /\ (k.at # "ptclearEnd" \/ k.to = "PTALLOC")
<1>1. /\ Types /\ ClearInv /\ SeqInv /\ MaxSeq \in Nat
      /\ Moves(p, k)
      /\ k.at \in ClearAt /\ k.a = t /\ k.to \in {"PTFREE", "PTALLOC"}
      /\ UNCHANGED <<ptssem, ptrsem, ptmaxcnt, load>>
  BY PortsAssumption DEF IInv, GoesOn
<1>2. /\ \A q \in Proc \ {p} : ~ Clearing(q, t)
      /\ ptstate[t] \in {"PTALLOC", "PTLIMBO"}
      /\ pc[p].at \in CallAt \cup ClearAt
      /\ pc[p].at # "user" => pc[p].a = t
  BY ClearsAlone
<1>3. /\ ptstate'[t] = "PTLIMBO" /\ \A u \in Port \ {t} : ptstate'[u] = ptstate[u]
      /\ ptstate' \in [Port -> {"PTFREE", "PTLIMBO", "PTALLOC"}]
  BY <1>1 DEF GoesOn, Types
<1>4. /\ \A u \in Port \ {t} : ptseq'[u] = ptseq[u]
      /\ ptseq' \in [Port -> 0 .. MaxSeq]
      /\ ptstate[t] = "PTALLOC" => ptseq'[t] = ptseq[t] + 1
      /\ ptstate[t] # "PTALLOC" => ptseq'[t] = ptseq[t]
      /\ ptseq[t] \in 0 .. MaxSeq
  <2>1. CASE ptstate[t] = "PTALLOC"
    <3>1. ptseq' = [ptseq EXCEPT ![t] = ptseq[t] + 1] /\ ptseq[t] < MaxSeq
      BY <2>1 DEF GoesOn
    <3>2. ptseq[t] \in 0 .. MaxSeq /\ ptseq[t] + 1 \in 0 .. MaxSeq
      BY <3>1, <1>1 DEF Types
    <3> QED BY <2>1, <3>1, <3>2, <1>1 DEF Types
  <2>2. CASE ptstate[t] # "PTALLOC"
    BY <2>2, <1>1 DEF GoesOn, Types
  <2> QED BY <2>1, <2>2
<1>5. /\ \A u \in Port \ {t} : ptq'[u] = ptq[u]
      /\ k.at # "dispose" => ptq'[t] = <<>>
  BY DEF GoesOn
<1>6. AtPort(p, k, t)
  BY <1>1, <1>2, <1>3, <1>4, <1>5 DEF AtPort, SamePort
<1>7. \A q \in Proc \ {p} : pc'[q] = pc[q]
  BY <1>1 DEF Moves
<1>8. pc'[p] = k
  BY <1>1 DEF Moves
<1>9. /\ \A q \in Proc \ {p} : \A u \in Port : Clearing(q, u)' = Clearing(q, u)
      /\ \A u \in Port : Clearing(p, u)' <=> u = t
  BY <1>1, <1>7, <1>8 DEF Clearing, ClearAt
<1>10. ClearInv'
  <2>1. \A q \in Proc : pc'[q].at \in ClearAt =>
          /\ "ports" \in load.calls
          /\ pc'[q].a \in Port /\ ptstate'[pc'[q].a] = "PTLIMBO"
          /\ pc'[q].to \in {"PTFREE", "PTALLOC"}
          /\ pc'[q].at = "dispose" => pc'[q].n \in Nat \ {0} 
          /\ pc'[q].at # "dispose" => ptq'[pc'[q].a] = <<>>
    <3> SUFFICES ASSUME NEW q \in Proc, pc'[q].at \in ClearAt
                 PROVE  /\ "ports" \in load.calls
                        /\ pc'[q].a \in Port /\ ptstate'[pc'[q].a] = "PTLIMBO"
                        /\ pc'[q].to \in {"PTFREE", "PTALLOC"}
                        /\ pc'[q].at = "dispose" => pc'[q].n \in Nat \ {0} 
                        /\ pc'[q].at # "dispose" => ptq'[pc'[q].a] = <<>>
      OBVIOUS
    <3>1. CASE q = p
      <4>1. /\ "ports" \in load.calls
            /\ k.at = "dispose" => k.n \in Nat \ {0}
        BY DEF ClearsPort, GoesOn
      <4> QED BY <4>1, <3>1, <1>1, <1>3, <1>5, <1>8
    <3>2. CASE q # p
      <4>1. pc'[q] = pc[q]
        BY <3>2, <1>7
      <4>2. pc[q].a # t
        BY <3>2, <4>1, <1>2 DEF Clearing, ClearAt
      <4>3. /\ "ports" \in load.calls
            /\ pc[q].a \in Port /\ ptstate[pc[q].a] = "PTLIMBO"
            /\ pc[q].to \in {"PTFREE", "PTALLOC"}
            /\ pc[q].at = "dispose" => pc[q].n \in Nat \ {0} 
            /\ pc[q].at # "dispose" => ptq[pc[q].a] = <<>>
        BY <4>1, <1>1 DEF ClearInv, ClearAt
      <4> QED BY <4>1, <4>2, <4>3, <1>3, <1>5
    <3> QED BY <3>1, <3>2
  <2>2. \A q, r \in Proc : \A u \in Port : Clearing(q, u)' /\ Clearing(r, u)' => q = r
    <3> SUFFICES ASSUME NEW q \in Proc, NEW r \in Proc, NEW u \in Port,
                        Clearing(q, u)', Clearing(r, u)'
                 PROVE  q = r
      OBVIOUS
    <3>1. CASE q # p /\ r # p
      BY <3>1, <1>1, <1>9 DEF ClearInv
    <3>2. CASE q = p \/ r = p
      BY <3>2, <1>2, <1>9
    <3> QED BY <3>1, <3>2
  <2>3. \A u \in Port : ptstate'[u] = "PTFREE" => ptq'[u] = <<>>
    BY <1>1, <1>3, <1>5 DEF ClearInv
  <2>4. \A u \in Port : ptstate'[u] # "PTFREE" => ptmaxcnt'[u] \in Caps
    BY <1>1, <1>2, <1>3 DEF ClearInv
  <2> QED BY <2>1, <2>2, <2>3, <2>4, <1>1 DEF ClearInv, ClearAt
<1>11. SeqInv'
  <2> SUFFICES ASSUME NEW q \in Proc, pc'[q].at \in {"psend", "preceive"}
               PROVE  /\ pc'[q].a \in Port
                      /\ pc'[q].seq \in 0 .. ptseq'[pc'[q].a]
                      /\ pc'[q].seq = ptseq'[pc'[q].a] =>
                            /\ ptstate'[pc'[q].a] = "PTALLOC"
                            /\ pc'[q].at = "psend" => ptssem[pc'[q].a] # SYSERR
                            /\ pc'[q].at = "preceive" => ptrsem[pc'[q].a] # SYSERR
                      /\ pc'[q].at = "psend" => pc'[q].n \in Msgs
    BY <1>1 DEF SeqInv
  <2>1. pc'[q] = pc[q]
    BY <1>1, <1>7, <1>8 DEF ClearAt
  <2>2. PICK u \in Port : u = pc[q].a
    BY <2>1, <1>1 DEF SeqInv
  <2>3. /\ pc[q].seq \in 0 .. ptseq[u]
        /\ pc[q].seq = ptseq[u] =>
                            /\ ptstate[u] = "PTALLOC"
                            /\ pc[q].at = "psend" => ptssem[u] # SYSERR
                            /\ pc[q].at = "preceive" => ptrsem[u] # SYSERR
        /\ pc[q].at = "psend" => pc[q].n \in Msgs
    BY <2>1, <2>2, <1>1 DEF SeqInv
  <2>4. CASE u # t
    BY <2>1, <2>2, <2>3, <2>4, <1>3, <1>4
  <2>5. CASE u = t
    <3>1. pc[q].seq \in 0 .. ptseq'[t] /\ pc[q].seq # ptseq'[t]
      BY <2>3, <2>5, <1>4
    <3> QED BY <3>1, <2>1, <2>2, <2>3, <2>5
  <2> QED BY <2>4, <2>5
<1>12. \A q \in Proc : Clearing(q, t)' <=> q = p
  BY <1>2, <1>9
<1>13. pc' = [q \in Proc |-> pc'[q]] /\ \A q \in Proc : pc'[q].at \in Places
  BY <1>1 DEF Moves, Types, Places, ClearAt
<1>14. \A j : Undisposed(t, j)' <=> j \in 1 .. Len(ptq'[t]) /\ k.at = "dispose" /\ k.n <= j
  <2>1. \A q \in Proc : pc'[q].at = "dispose" /\ pc'[q].a = t <=> q = p /\ k.at = "dispose"
    BY <1>1, <1>8, <1>12 DEF Clearing
  <2> QED BY <2>1, <1>3, <1>8 DEF Undisposed
<1>15. /\ SLive(t)' <=> ptssem[t] # SYSERR /\ (k.at = "dispose" \/ k.to = "PTALLOC")
       /\ RLive(t)' <=> ptrsem[t] # SYSERR /\ (k.at # "ptclearEnd" \/ k.to = "PTALLOC")
  BY <1>1, <1>3, <1>8, <1>12 DEF SLive, RLive
<1> QED BY <1>3, <1>4, <1>6, <1>10, <1>11, <1>12, <1>13, <1>14, <1>15

(* The semaphores of a port that p clears, while it still refers to them. *)
LEMMA ClearsOwn ==
    ASSUME IInv, NEW p \in Proc, NEW t \in Port, ClearsPort(p, t)
    PROVE  /\ pc[p].at \in {"user", "dispose"} /\ ptssem[t] # SYSERR => SLive(t)
           /\ pc[p].at \in {"user", "dispose", "freeReceivers"} /\ ptrsem[t] # SYSERR => RLive(t)
           /\ pc[p].to = "PTALLOC" /\ pc[p].at # "user" =>
                 /\ ptssem[t] # SYSERR => SLive(t)
                 /\ ptrsem[t] # SYSERR => RLive(t)
           /\ SLive(t) => ptssem[t] \in Sem /\ semaph[ptssem[t]].used
           /\ RLive(t) => ptrsem[t] \in Sem /\ semaph[ptrsem[t]].used
           /\ SLive(t) /\ RLive(t) => ptssem[t] # ptrsem[t]
           /\ ptssem[t] \in Sem \cup {SYSERR} /\ ptrsem[t] \in Sem \cup {SYSERR}
<1>1. Types /\ OwnUsed /\ OwnApart
  BY DEF IInv
<1>2. (pc[p].at = "user" /\ ptstate[t] = "PTALLOC") \/ Clearing(p, t)
  BY DEF ClearsPort
<1>3. /\ pc[p].at \in {"user", "dispose"} /\ ptssem[t] # SYSERR => SLive(t)
      /\ pc[p].at \in {"user", "dispose", "freeReceivers"} /\ ptrsem[t] # SYSERR => RLive(t)
      /\ pc[p].to = "PTALLOC" /\ pc[p].at # "user" =>
                 /\ ptssem[t] # SYSERR => SLive(t)
                 /\ ptrsem[t] # SYSERR => RLive(t)
  BY <1>2 DEF SLive, RLive, Clearing
<1>4. /\ SLive(t) => ptssem[t] \in Sem /\ semaph[ptssem[t]].used
      /\ RLive(t) => ptrsem[t] \in Sem /\ semaph[ptrsem[t]].used
  BY <1>1 DEF SLive, RLive, Types, OwnUsed
<1> QED BY <1>1, <1>3, <1>4 DEF OwnApart, Types

(* The messages are gone: their nodes go back, and the senders go on. *)
LEMMA SpliceKeeps ==
    ASSUME IInv, NEW p \in Proc, NEW t \in Port, ClearsPort(p, t),
           pc[p].at \in {"user", "dispose"},
           NEW to \in {"PTFREE", "PTALLOC"}, SpliceAndFreeSenders(p, t, to),
           ptstate' = [ptstate EXCEPT ![t] = "PTLIMBO"],
           ptseq' = IF ptstate[t] = "PTALLOC" THEN [ptseq EXCEPT ![t] = @ + 1] ELSE ptseq,
           ptstate[t] = "PTALLOC" => ptseq[t] < MaxSeq,
           Pooled => \A j : ~ Undisposed(t, j),
           UNCHANGED <<poolVars, load>>
    PROVE  IInv'
<1> DEFINE s == ptssem[t]
<1>1. /\ Types /\ TableOK(semaph) /\ PortsInv /\ PoolPlaces /\ BufferInv /\ OwnUsed
      /\ \A u \in Sem : semaph[u].used \in BOOLEAN
  BY DEF IInv, TableOK, SemRec
<1>2. /\ ptfree' = ptfree + Len(ptq[t]) /\ ptq' = [ptq EXCEPT ![t] = <<>>]
      /\ semaph' = Cleared(s, to, ptmaxcnt[t])
      /\ UNCHANGED <<ptssem, ptrsem, ptmaxcnt, ptnextp, nextsem>>
      /\ UNCHANGED <<nbpools, bpnext, bpsem, word, made, holder>>
  BY DEF SpliceAndFreeSenders, Splice, poolVars
<1>3. PICK k : k = AtTo("freeReceivers", t, 0, to)
  OBVIOUS
<1>4. k.at = "freeReceivers" /\ k.a = t /\ k.to = to /\ Moves(p, k)
  <2>1. Moves(p, k)
    BY <1>1, <1>3, GotoMoves DEF SpliceAndFreeSenders
  <2> QED BY <2>1, <1>3 DEF AtTo, Frame
<1>5. /\ ptq'[t] = <<>> /\ \A u \in Port \ {t} : ptq'[u] = ptq[u]
      /\ ptq' \in [Port -> Seq(Msgs)] /\ Len(ptq[t]) \in Nat
  <2>1. <<>> \in Seq(Msgs) /\ \A l \in Seq(Msgs) : Len(l) \in Nat
    BY LenProperties, EmptySeq
  <2> QED BY <2>1, <1>1, <1>2 DEF Types
<1>6. GoesOn(p, k, t)
  BY <1>2, <1>4, <1>5 DEF GoesOn, ClearAt
<1>7. /\ AtPort(p, k, t) /\ ClearInv' /\ SeqInv'
      /\ ptstate'[t] = "PTLIMBO"
      /\ ptstate' \in [Port -> {"PTFREE", "PTLIMBO", "PTALLOC"}]
      /\ ptseq' \in [Port -> 0 .. MaxSeq]
      /\ pc' = [q \in Proc |-> pc'[q]] /\ \A q \in Proc : pc'[q].at \in Places
      /\ \A j : ~ Undisposed(t, j)'
      /\ SLive(t)' <=> s # SYSERR /\ to = "PTALLOC"
      /\ RLive(t)' <=> ptrsem[t] # SYSERR
  BY <1>4, <1>6, ClearingGoesOn
<1>8. /\ s # SYSERR => SLive(t) /\ s \in Sem /\ semaph[s].used
      /\ ptrsem[t] # SYSERR => /\ RLive(t) /\ ptrsem[t] \in Sem /\ semaph[ptrsem[t]].used
                               /\ ptrsem[t] # s
      /\ s \in Sem \cup {SYSERR}
      /\ p \in Unqueued(semaph)
  BY ClearsOwn, ClearsAlone
<1>9. /\ LetGo(semaph, semaph', s)
      /\ to = "PTALLOC" =>
                 /\ \A u \in Sem : semaph'[u].used = semaph[u].used
                 /\ s # SYSERR => semaph'[s].cnt = ptmaxcnt[t]
  <2>1. ptmaxcnt[t] \in Nat
    BY <1>1 DEF Types
  <2>2. s # SYSERR => Used(semaph, s)
    BY <1>8 DEF Used
  <2>3. TableOK(semaph) /\ s \in Sem \cup {SYSERR}
    BY <1>1, <1>8
  <2>4. PICK count \in Nat : count = ptmaxcnt[t]
    BY <2>1
  <2>5. /\ LetGo(semaph, Cleared(s, to, count), s)
        /\ to = "PTALLOC" =>
                 /\ \A u \in Sem : Cleared(s, to, count)[u].used = semaph[u].used
                 /\ Used(semaph, s) => Cleared(s, to, count)[s].cnt = count
    BY <2>3, ClearedEffect
  <2> QED BY <2>2, <2>4, <2>5, <1>2
<1>10. LetsGo(semaph, semaph', {s}) /\ AsideFrom({s}, t) /\ AsideFromPools({s})
  <2>1. \A u \in {s} : OwnedBy(u, t)
    BY <1>8 DEF OwnedBy
  <2>2. AsideFrom({s}, t) /\ AsideFromPools({s})
    BY <2>1, PortSemaphores
  <2> QED BY <2>2, <1>9, LetGoOne
<1>11. PostedSame
  <2>1. \A u \in Port \ {t} : \A j : Undisposed(u, j)' = Undisposed(u, j)
    BY <1>7, <1>10, PortStepOthers
  <2>2. Pooled => \A u \in Port : \A j : Undisposed(u, j)' = Undisposed(u, j)
    <3>1. \A j : Undisposed(t, j) \in BOOLEAN /\ Undisposed(t, j)' \in BOOLEAN
      BY DEF Undisposed
    <3> QED BY <3>1, <2>1, <1>7
  <2>3. Pooled => \A u \in Port : \A j : Undisposed(u, j) => ptq'[u][j] = ptq[u][j]
    BY <1>5
  <2> QED BY <2>2, <2>3 DEF PostedSame
<1>12. BufferInv' /\ \A b \in Buffer : Loose(b)' = Loose(b)
  <2>1. pc[p].at \notin {"dead", "stamp"}
    OBVIOUS
  <2> QED BY <2>1, <1>1, <1>4, <1>11, BuffersBeside
<1>13. PoolPlaces'
  <2>1. k.at \in CallAt \cup ClearAt /\ k.at # "psend"
    BY <1>4 DEF ClearAt
  <2> QED BY <2>1, <1>1, <1>2, <1>4, PlacesBeside
<1>14. SLive(t)' => SLive(t) /\ ptssem'[t] = ptssem[t] /\ semaph'[ptssem[t]].used
  BY <1>2, <1>7, <1>8, <1>9
<1>15. RLive(t)' => RLive(t) /\ ptrsem'[t] = ptrsem[t] /\ semaph'[ptrsem[t]].used
  BY <1>2, <1>7, <1>8, <1>9 DEF LetGo
<1>16. NodesInv'
  <2>1. Len(ptq'[t]) = Len(ptq[t]) - Len(ptq[t]) /\ Len(ptq[t]) \in 0 .. Len(ptq[t])
    BY <1>5, EmptySeq
  <2>2. ptfree \in Nat /\ NodesInv
    BY <1>1 DEF Types, PortsInv
  <2> QED BY <2>1, <2>2, <1>2, <1>5, NodesLess
<1>17. pc'[p].to = "PTALLOC" =>
          /\ pc'[p].at \in {"freeReceivers", "ptclearEnd"} /\ ptssem'[pc'[p].a] # SYSERR =>
                semaph'[ptssem'[pc'[p].a]].cnt = ptmaxcnt'[pc'[p].a]
          /\ pc'[p].at = "ptclearEnd" /\ ptrsem'[pc'[p].a] # SYSERR =>
                semaph'[ptrsem'[pc'[p].a]].cnt = 0
  <2>1. pc'[p] = k
    BY <1>4 DEF Moves
  <2> QED BY <2>1, <1>2, <1>4, <1>9
<1>18. Types'
  <2>1. ptfree' \in Nat
    BY <1>1, <1>2, <1>5 DEF Types
  <2> QED BY <2>1, <1>1, <1>2, <1>5, <1>7 DEF Types
<1>19. PortEffect(p, t)
  BY <1>2, <1>7, <1>12, <1>13, <1>14, <1>15, <1>16, <1>17, <1>18 DEF PortEffect, PortSide
<1> QED BY <1>7, <1>8, <1>10, <1>19, PortStepKeeps

(* _ptclear with nothing to dispose of. *)
LEMMA PtclearKeeps ==
    ASSUME IInv, "ports" \in load.calls, NEW p \in Proc, NEW t \in Port,
           NEW to \in {"PTFREE", "PTALLOC"}, Pooled => ptq[t] = <<>>,
           ptclear(p, t, to), UNCHANGED <<poolVars, load>>
    PROVE  IInv'
<1>1. /\ pc[p].at = "user" /\ ptstate[t] = "PTALLOC" /\ ptseq[t] + 1 < MaxSeq
      /\ ptstate' = [ptstate EXCEPT ![t] = "PTLIMBO"]
      /\ ptseq' = [ptseq EXCEPT ![t] = @ + 1]
      /\ SpliceAndFreeSenders(p, t, to)
  BY DEF ptclear, Limbo, InUser
<1>2. ClearsPort(p, t)
  BY <1>1 DEF ClearsPort
<1>3. ptseq[t] < MaxSeq
  <2>1. ptseq[t] \in Nat /\ MaxSeq \in Nat
    BY PortsAssumption DEF IInv, Types
  <2> QED BY <2>1, <1>1
<1>4. Pooled => \A j : ~ Undisposed(t, j)
  BY EmptySeq DEF Undisposed
<1> QED BY <1>1, <1>2, <1>3, <1>4, SpliceKeeps

(* _ptclear splices the queue into the free nodes after the last message. *)
LEMMA DisposeDoneKeeps ==
    ASSUME IInv, NEW p \in Proc, disposeDone(p), UNCHANGED <<poolVars, load>>
    PROVE  IInv'
<1>1. /\ Types /\ ClearInv /\ pc[p].at = "dispose" /\ pc[p].n > Len(ptq[pc[p].a])
      /\ SpliceAndFreeSenders(p, pc[p].a, pc[p].to)
      /\ UNCHANGED <<ptstate, ptseq>>
  BY DEF IInv, disposeDone, Reached
<1>2. PICK t \in Port : t = pc[p].a
  BY <1>1 DEF ClearInv
<1>3. ptstate[t] = "PTLIMBO" /\ pc[p].to \in {"PTFREE", "PTALLOC"} /\ ClearsPort(p, t)
  BY <1>1, <1>2 DEF ClearInv, ClearsPort, Clearing
<1>4. ptstate' = [ptstate EXCEPT ![t] = "PTLIMBO"]
  BY <1>1, <1>3 DEF Types
<1>5. \A j : ~ Undisposed(t, j)
  <2>1. \A q \in Proc : pc[q].at = "dispose" /\ pc[q].a = t => q = p
    BY <1>3, ClearsAlone DEF Clearing
  <2>2. Len(ptq[t]) \in Nat /\ pc[p].n \in Nat /\ pc[p].n > Len(ptq[t])
    <3>1. ptq[t] \in Seq(Msgs)
      BY <1>1 DEF Types
    <3> QED BY <3>1, <1>1, <1>2, LenProperties DEF ClearInv
  <2>3. \A j \in 1 .. Len(ptq[t]) : ~ (pc[p].n <= j)
    BY <2>2
  <2> QED BY <2>1, <2>3, <1>3 DEF Undisposed
<1> QED BY <1>1, <1>2, <1>3, <1>4, <1>5, SpliceKeeps

(* _ptclear resets or deletes the receivers' semaphore. *)
LEMMA FreeReceiversKeeps ==
    ASSUME IInv, NEW p \in Proc, freeReceivers(p), UNCHANGED <<poolVars, load>>
    PROVE  IInv'
<1>1. /\ Types /\ TableOK(semaph) /\ ClearInv /\ PortsInv /\ PoolPlaces /\ BufferInv
      /\ pc[p].at = "freeReceivers"
      /\ semaph' = Cleared(ptrsem[pc[p].a], pc[p].to, 0)
      /\ Goto(p, AtTo("ptclearEnd", pc[p].a, 0, pc[p].to))
      /\ \A u \in Sem : semaph[u].used \in BOOLEAN
  BY DEF IInv, freeReceivers, Reached, TableOK, SemRec
<1>2. PICK t \in Port : t = pc[p].a
  BY <1>1 DEF ClearInv
<1>3. PICK to : to = pc[p].to
  OBVIOUS
<1>4. /\ ptstate[t] = "PTLIMBO" /\ to \in {"PTFREE", "PTALLOC"} /\ ptq[t] = <<>>
      /\ ClearsPort(p, t)
  BY <1>1, <1>2, <1>3 DEF ClearInv, ClearsPort, Clearing
<1>5. /\ UNCHANGED <<ptstate, ptssem, ptrsem, ptmaxcnt, ptseq, ptq, ptfree, ptnextp, nextsem>>
      /\ UNCHANGED <<nbpools, bpnext, bpsem, word, made, holder>>
  BY DEF freeReceivers, portVars, poolVars
<1>6. PICK k : k = AtTo("ptclearEnd", t, 0, to)
  OBVIOUS
<1>7. k.at = "ptclearEnd" /\ k.a = t /\ k.to = to /\ Moves(p, k)
  <2>1. Moves(p, k)
    BY <1>1, <1>2, <1>3, <1>6, GotoMoves
  <2> QED BY <2>1, <1>6 DEF AtTo, Frame
<1>8. GoesOn(p, k, t)
  BY <1>1, <1>4, <1>5, <1>7 DEF GoesOn, ClearAt, Types
<1>9. /\ AtPort(p, k, t) /\ ClearInv' /\ SeqInv'
      /\ pc' = [q \in Proc |-> pc'[q]] /\ \A q \in Proc : pc'[q].at \in Places
      /\ \A j : ~ Undisposed(t, j)'
      /\ SLive(t)' <=> ptssem[t] # SYSERR /\ to = "PTALLOC"
      /\ RLive(t)' <=> ptrsem[t] # SYSERR /\ to = "PTALLOC"
  BY <1>4, <1>7, <1>8, ClearingGoesOn
<1>10. PICK r \in Sem \cup {SYSERR} : r = ptrsem[t]
  BY <1>4, ClearsOwn
<1>11. /\ to = "PTALLOC" /\ ptssem[t] # SYSERR => /\ SLive(t) /\ ptssem[t] \in Sem
                                                  /\ semaph[ptssem[t]].used /\ ptssem[t] # r
       /\ r # SYSERR => RLive(t) /\ r \in Sem /\ semaph[r].used
       /\ p \in Unqueued(semaph)
       /\ SYSERR \notin Sem
  <2>1. SYSERR \notin Sem
    BY SemaphoresAssumption DEF SYSERR, Sem
  <2> QED BY <2>1, <1>1, <1>2, <1>3, <1>4, <1>10, ClearsOwn, ClearsAlone
<1>12. /\ LetGo(semaph, semaph', r)
       /\ to = "PTALLOC" =>
                 /\ \A u \in Sem : semaph'[u].used = semaph[u].used
                 /\ r # SYSERR => semaph'[r].cnt = 0
  <2>1. /\ LetGo(semaph, Cleared(r, to, 0), r)
        /\ to = "PTALLOC" =>
                 /\ \A u \in Sem : Cleared(r, to, 0)[u].used = semaph[u].used
                 /\ Used(semaph, r) => Cleared(r, to, 0)[r].cnt = 0
    BY <1>1, ClearedEffect
  <2>2. r # SYSERR => Used(semaph, r)
    BY <1>11 DEF Used
  <2>3. semaph' = Cleared(r, to, 0)
    BY <1>1, <1>2, <1>3, <1>10
  <2> QED BY <2>1, <2>2, <2>3
<1>13. LetsGo(semaph, semaph', {r}) /\ AsideFrom({r}, t) /\ AsideFromPools({r})
  <2>1. \A u \in {r} : OwnedBy(u, t)
    BY <1>10, <1>11 DEF OwnedBy
  <2>2. AsideFrom({r}, t) /\ AsideFromPools({r})
    BY <2>1, PortSemaphores
  <2> QED BY <2>2, <1>12, LetGoOne
<1>14. PostedSame
  <2>1. \A u \in Port \ {t} : \A j : Undisposed(u, j)' = Undisposed(u, j)
    BY <1>9, <1>13, PortStepOthers
  <2>2. \A j : ~ Undisposed(t, j)
    BY <1>4, EmptySeq DEF Undisposed
  <2>3. \A u \in Port : \A j : Undisposed(u, j)' = Undisposed(u, j)
    <3>1. \A j : Undisposed(t, j) \in BOOLEAN /\ Undisposed(t, j)' \in BOOLEAN
      BY DEF Undisposed
    <3> QED BY <3>1, <2>1, <2>2, <1>9
  <2> QED BY <2>3, <1>5 DEF PostedSame
<1>15. BufferInv' /\ \A b \in Buffer : Loose(b)' = Loose(b)
  BY <1>1, <1>7, <1>14, BuffersBeside
<1>16. PoolPlaces'
  <2>1. k.at \in CallAt \cup ClearAt /\ k.at # "psend"
    BY <1>7 DEF ClearAt
  <2> QED BY <2>1, <1>1, <1>5, <1>7, PlacesBeside
<1>17. /\ SLive(t)' => SLive(t) /\ ptssem'[t] = ptssem[t] /\ semaph'[ptssem[t]].used
       /\ RLive(t)' => RLive(t) /\ ptrsem'[t] = ptrsem[t] /\ semaph'[ptrsem[t]].used
  BY <1>5, <1>9, <1>10, <1>11, <1>12
<1>18. NodesInv'
  BY <1>1, <1>5 DEF PortsInv, NodesInv, NodesConserved, Nodes
<1>19. pc'[p].to = "PTALLOC" =>
          /\ pc'[p].at \in {"freeReceivers", "ptclearEnd"} /\ ptssem'[pc'[p].a] # SYSERR =>
                semaph'[ptssem'[pc'[p].a]].cnt = ptmaxcnt'[pc'[p].a]
          /\ pc'[p].at = "ptclearEnd" /\ ptrsem'[pc'[p].a] # SYSERR =>
                semaph'[ptrsem'[pc'[p].a]].cnt = 0
  <2> SUFFICES ASSUME to = "PTALLOC"
               PROVE  /\ ptssem[t] # SYSERR => semaph'[ptssem[t]].cnt = ptmaxcnt[t]
                      /\ ptrsem[t] # SYSERR => semaph'[ptrsem[t]].cnt = 0
    BY <1>5, <1>7 DEF Moves
  <2>1. ptssem[t] # SYSERR => semaph'[ptssem[t]] = semaph[ptssem[t]]
    BY <1>11, <1>12 DEF LetGo
  <2>2. ptssem[t] # SYSERR => semaph[ptssem[t]].cnt = ptmaxcnt[t]
    BY <1>1, <1>2, <1>3 DEF PortsInv, ResetInv
  <2> QED BY <2>1, <2>2, <1>10, <1>12
<1>20. Types'
  BY <1>1, <1>5, <1>9 DEF Types, freeReceivers
<1>21. ptstate'[t] # "PTALLOC"
  BY <1>4, <1>5
<1>22. PortEffect(p, t)
  BY <1>5, <1>9, <1>15, <1>16, <1>17, <1>18, <1>19, <1>20, <1>21 DEF PortEffect, PortSide
<1> QED BY <1>9, <1>11, <1>13, <1>22, PortStepKeeps

(* A port that was reset has nobody who came for it, an empty queue, and     *)
(* semaphores that say so.                                                   *)
LEMMA PtclearEndKeeps ==
    ASSUME IInv, NEW p \in Proc, ptclearEnd(p), UNCHANGED <<poolVars, load>>
    PROVE  IInv'
<1>1. /\ Types /\ TableOK(semaph) /\ ClearInv /\ SeqInv /\ PortsInv /\ PoolPlaces /\ BufferInv
      /\ pc[p].at = "ptclearEnd" /\ Goto(p, User)
      /\ ptstate' = [ptstate EXCEPT ![pc[p].a] = pc[p].to]
      /\ User.at = "user" /\ User.to = ""
  BY DEF IInv, ptclearEnd, Reached, User, At, Frame
<1>2. PICK t \in Port : t = pc[p].a
  BY <1>1 DEF ClearInv
<1>3. PICK to : to = pc[p].to
  OBVIOUS
<1>4. /\ ptstate[t] = "PTLIMBO" /\ to \in {"PTFREE", "PTALLOC"} /\ ptq[t] = <<>>
      /\ ClearsPort(p, t) /\ Clearing(p, t)
  BY <1>1, <1>2, <1>3 DEF ClearInv, ClearsPort, Clearing
<1>5. /\ UNCHANGED <<ptssem, ptrsem, ptmaxcnt, ptseq, ptq, ptfree, ptnextp, semaph, nextsem>>
      /\ UNCHANGED <<nbpools, bpnext, bpsem, word, made, holder, load>>
  BY DEF ptclearEnd, semVars, poolVars
<1>6. /\ Moves(p, User) /\ p \in Unqueued(semaph)
      /\ \A q \in Proc \ {p} : ~ Clearing(q, t)
  BY <1>1, <1>4, GotoMoves, ClearsAlone
<1>7. /\ ptstate'[t] = to /\ \A u \in Port \ {t} : ptstate'[u] = ptstate[u]
      /\ ptstate' \in [Port -> {"PTFREE", "PTLIMBO", "PTALLOC"}]
  BY <1>1, <1>2, <1>3, <1>4 DEF Types
<1>8. AtPort(p, User, t)
  <2>1. pc[p].at \in CallAt \cup ClearAt /\ User.at \in CallAt \cup ClearAt
    BY <1>1 DEF CallAt, ClearAt
  <2> QED BY <2>1, <1>1, <1>2, <1>5, <1>6, <1>7 DEF AtPort, SamePort
<1>9. /\ \A q \in Proc \ {p} : pc'[q] = pc[q]
      /\ pc'[p].at = "user"
  BY <1>1, <1>6 DEF Moves
<1>10. /\ \A q \in Proc \ {p} : \A u \in Port : Clearing(q, u)' = Clearing(q, u)
       /\ \A u \in Port : ~ Clearing(p, u)'
  BY <1>9 DEF Clearing
<1>11. ClearInv'
  <2>1. \A q \in Proc : pc'[q].at \in ClearAt =>
          /\ "ports" \in load.calls
          /\ pc'[q].a \in Port /\ ptstate'[pc'[q].a] = "PTLIMBO"
          /\ pc'[q].to \in {"PTFREE", "PTALLOC"}
          /\ pc'[q].at = "dispose" => pc'[q].n \in Nat \ {0} 
          /\ pc'[q].at # "dispose" => ptq[pc'[q].a] = <<>>
    <3> SUFFICES ASSUME NEW q \in Proc, pc'[q].at \in ClearAt
                 PROVE  /\ "ports" \in load.calls
                        /\ pc'[q].a \in Port /\ ptstate'[pc'[q].a] = "PTLIMBO"
                        /\ pc'[q].to \in {"PTFREE", "PTALLOC"}
                        /\ pc'[q].at = "dispose" => pc'[q].n \in Nat \ {0} 
                        /\ pc'[q].at # "dispose" => ptq[pc'[q].a] = <<>>
      OBVIOUS
    <3>1. q # p /\ pc'[q] = pc[q]
      BY <1>9 DEF ClearAt
    <3>2. pc[q].a # t
      BY <3>1, <1>6 DEF Clearing, ClearAt
    <3>3. /\ "ports" \in load.calls
          /\ pc[q].a \in Port /\ ptstate[pc[q].a] = "PTLIMBO"
          /\ pc[q].to \in {"PTFREE", "PTALLOC"}
          /\ pc[q].at = "dispose" => pc[q].n \in Nat \ {0} 
          /\ pc[q].at # "dispose" => ptq[pc[q].a] = <<>>
      BY <3>1, <1>1 DEF ClearInv, ClearAt
    <3>4. ptstate'[pc[q].a] = ptstate[pc[q].a]
      BY <3>2, <3>3, <1>7
    <3> QED BY <3>1, <3>3, <3>4
  <2>2. \A q, r \in Proc : \A u \in Port : Clearing(q, u)' /\ Clearing(r, u)' => q = r
    BY <1>1, <1>10 DEF ClearInv
  <2>3. \A u \in Port : ptstate'[u] = "PTFREE" => ptq[u] = <<>>
    BY <1>1, <1>4, <1>7 DEF ClearInv
  <2>4. \A u \in Port : ptstate'[u] # "PTFREE" => ptmaxcnt[u] \in Caps
    BY <1>1, <1>4, <1>7 DEF ClearInv
  <2> QED BY <2>1, <2>2, <2>3, <2>4, <1>5 DEF ClearInv, ClearAt
<1>12. \A q \in Proc : pc[q].at \in {"psend", "preceive"} /\ pc[q].a = t => pc[q].seq # ptseq[t]
  BY <1>1, <1>4 DEF SeqInv
<1>13. SeqInv'
  <2> SUFFICES ASSUME NEW q \in Proc, pc'[q].at \in {"psend", "preceive"}
               PROVE  /\ pc'[q].a \in Port
                      /\ pc'[q].seq \in 0 .. ptseq[pc'[q].a]
                      /\ pc'[q].seq = ptseq[pc'[q].a] =>
                            /\ ptstate'[pc'[q].a] = "PTALLOC"
                            /\ pc'[q].at = "psend" => ptssem[pc'[q].a] # SYSERR
                            /\ pc'[q].at = "preceive" => ptrsem[pc'[q].a] # SYSERR
                      /\ pc'[q].at = "psend" => pc'[q].n \in Msgs
    BY <1>5 DEF SeqInv
  <2>1. pc'[q] = pc[q]
    BY <1>9
  <2>2. PICK u \in Port : u = pc[q].a
    BY <2>1, <1>1 DEF SeqInv
  <2>3. /\ pc[q].seq \in 0 .. ptseq[u]
        /\ pc[q].seq = ptseq[u] =>
                            /\ ptstate[u] = "PTALLOC"
                            /\ pc[q].at = "psend" => ptssem[u] # SYSERR
                            /\ pc[q].at = "preceive" => ptrsem[u] # SYSERR
        /\ pc[q].at = "psend" => pc[q].n \in Msgs
    BY <2>1, <2>2, <1>1 DEF SeqInv
  <2>4. pc[q].seq = ptseq[u] => u # t
    BY <2>1, <2>2, <1>12
  <2> QED BY <2>1, <2>2, <2>3, <2>4, <1>7
<1>14. Comers("psend", t)' = {} /\ Comers("preceive", t)' = {}
  BY <1>5, <1>9, <1>12 DEF Comers
<1>15. LetsGo(semaph, semaph', {SYSERR}) /\ AsideFrom({SYSERR}, t) /\ AsideFromPools({SYSERR})
  BY <1>1, <1>5, NobodyLetGo, LetGoOne, NoSemaphores
<1>16. PostedSame
  <2>1. \A u \in Port \ {t} : \A j : Undisposed(u, j)' = Undisposed(u, j)
    BY <1>8, <1>15, PortStepOthers
  <2>2. \A j : ~ Undisposed(t, j) /\ ~ Undisposed(t, j)'
    BY <1>4, <1>5, EmptySeq DEF Undisposed
  <2>3. \A u \in Port : \A j : Undisposed(u, j)' = Undisposed(u, j)
    <3>1. \A j : Undisposed(t, j) \in BOOLEAN /\ Undisposed(t, j)' \in BOOLEAN
      BY DEF Undisposed
    <3> QED BY <3>1, <2>1, <2>2
  <2> QED BY <2>3, <1>5 DEF PostedSame
<1>17. BufferInv' /\ \A b \in Buffer : Loose(b)' = Loose(b)
  BY <1>1, <1>5, <1>6, <1>16, BuffersBeside DEF poolVars
<1>18. PoolPlaces'
  <2>1. User.at \in CallAt \cup ClearAt /\ User.at # "psend"
    BY <1>1 DEF CallAt
  <2> QED BY <2>1, <1>1, <1>5, <1>6, PlacesBeside
<1>19. /\ to = "PTALLOC" /\ ptssem[t] # SYSERR =>
             /\ SLive(t) /\ ptssem[t] \in Sem /\ semaph[ptssem[t]].used
             /\ semaph[ptssem[t]].cnt = ptmaxcnt[t]
       /\ to = "PTALLOC" /\ ptrsem[t] # SYSERR =>
             /\ RLive(t) /\ ptrsem[t] \in Sem /\ semaph[ptrsem[t]].used
             /\ semaph[ptrsem[t]].cnt = 0
       /\ ptmaxcnt[t] \in Nat
  <2>1. /\ to = "PTALLOC" /\ ptssem[t] # SYSERR =>
             SLive(t) /\ ptssem[t] \in Sem /\ semaph[ptssem[t]].used
        /\ to = "PTALLOC" /\ ptrsem[t] # SYSERR =>
             RLive(t) /\ ptrsem[t] \in Sem /\ semaph[ptrsem[t]].used
    BY <1>1, <1>3, <1>4, ClearsOwn
  <2>2. /\ to = "PTALLOC" /\ ptssem[t] # SYSERR => semaph[ptssem[t]].cnt = ptmaxcnt[t]
        /\ to = "PTALLOC" /\ ptrsem[t] # SYSERR => semaph[ptrsem[t]].cnt = 0
    BY <1>1, <1>2, <1>3 DEF PortsInv, ResetInv
  <2> QED BY <2>1, <2>2, <1>1 DEF Types
<1>20. \A s \in Sem : semaph[s].cnt >= 0 => Waiting(semaph, s) = {}
  <2> SUFFICES ASSUME NEW s \in Sem, semaph[s].cnt >= 0 PROVE Waiting(semaph, s) = {}
    OBVIOUS
  <2>1. semaph[s].cnt \in Int /\ Len(semaph[s].queue) = QueueLength(semaph[s].cnt)
    BY <1>1 DEF TableOK, SemRec
  <2>2. Len(semaph[s].queue) = 0
    BY <2>1 DEF QueueLength
  <2> QED BY <2>2 DEF Waiting
<1>21. /\ SLive(t)' => to = "PTALLOC" /\ ptssem[t] # SYSERR
       /\ RLive(t)' => to = "PTALLOC" /\ ptrsem[t] # SYSERR
  BY <1>5, <1>6, <1>7, <1>10 DEF SLive, RLive
<1>22. ptstate'[t] = "PTALLOC" =>
          /\ SLive(t) => Waiting(semaph', ptssem[t]) = {}
          /\ RLive(t) => Waiting(semaph', ptrsem[t]) = {}
  <2>1. (SLive(t) => ptssem[t] # SYSERR) /\ (RLive(t) => ptrsem[t] # SYSERR)
    BY DEF SLive, RLive
  <2> QED BY <2>1, <1>5, <1>7, <1>19, <1>20
<1>23. Len(ptq'[t]) = 0
  BY <1>4, <1>5, EmptySeq
<1>24. ptstate'[t] = "PTALLOC" /\ ptssem'[t] # SYSERR => SendAccount(t)'
  <2> SUFFICES ASSUME to = "PTALLOC", ptssem[t] # SYSERR PROVE SendAccount(t)'
    BY <1>5, <1>7
  <2>1. Promise(semaph, ptssem[t], {}) = ptmaxcnt[t]
    BY <1>19, PromiseFresh
  <2>2. Promise(semaph', ptssem'[t], Comers("psend", t)') = ptmaxcnt'[t] /\ ptmaxcnt'[t] \in Nat
    BY <2>1, <1>5, <1>14, <1>19
  <2>3. ptmaxcnt'[t] + Len(ptq'[t]) = ptmaxcnt'[t]
    BY <2>2, <1>23
  <2> QED BY <2>2, <2>3 DEF SendAccount
<1>25. ptstate'[t] = "PTALLOC" /\ ptrsem'[t] # SYSERR => TakeAccount(t)'
  <2> SUFFICES ASSUME to = "PTALLOC", ptrsem[t] # SYSERR PROVE TakeAccount(t)'
    BY <1>5, <1>7
  <2>1. Promise(semaph, ptrsem[t], {}) = 0
    BY <1>19, PromiseFresh
  <2>2. Promise(semaph', ptrsem'[t], Comers("preceive", t)') = 0
    BY <2>1, <1>5, <1>14
  <2> QED BY <2>2, <1>23 DEF TakeAccount
<1>26. NodesInv'
  BY <1>1, <1>5 DEF PortsInv, NodesInv, NodesConserved, Nodes
<1>27. pc'[p].to # "PTALLOC"
  BY <1>1, <1>6 DEF Moves
<1>28. Types'
  <2>1. pc' = [q \in Proc |-> pc'[q]] /\ \A q \in Proc : pc'[q].at \in Places
    BY <1>1, <1>6 DEF Moves, Types, Places
  <2> QED BY <2>1, <1>1, <1>5, <1>7 DEF Types
<1>29. PortSide(p, t)
  <2>1. /\ SLive(t)' => SLive(t) /\ ptssem'[t] = ptssem[t] /\ semaph'[ptssem[t]].used
        /\ RLive(t)' => RLive(t) /\ ptrsem'[t] = ptrsem[t] /\ semaph'[ptrsem[t]].used
    BY <1>5, <1>19, <1>21
  <2> QED BY <2>1, <1>22, <1>24, <1>25, <1>26, <1>27 DEF PortSide
<1>30. PortEffect(p, t)
  BY <1>5, <1>11, <1>13, <1>17, <1>18, <1>28, <1>29 DEF PortEffect
<1> QED BY <1>6, <1>8, <1>15, <1>30, PortStepKeeps

(* A message is disposed of: its buffer leaves the port for the list of its  *)
(* pool.                                                                     *)
LEMMA DisposedBuffer ==
    ASSUME Types, BufferInv, Pooled, UNCHANGED load, NEW p \in Proc, NEW k, Moves(p, k),
           pc[p].at \in {"user", "dispose"},
           NEW t \in Port, NEW n \in 1 .. Len(ptq[t]), Undisposed(t, n),
           \A j : Undisposed(t, j)' <=> Undisposed(t, j) /\ j # n,
           \A u \in Port \ {t} : \A j : Undisposed(u, j)' = Undisposed(u, j),
           NEW c, c = ptq[t][n], UNCHANGED ptq, Relink(word[c], c)
    PROVE  /\ BufferInv'
           /\ c \in Buffer /\ c <= made /\ ~ Loose(c)
           /\ \A b \in Buffer : Loose(b)' <=> Loose(b) \/ b = c
           /\ UNCHANGED <<holder, nbpools, bpsem, made>>
           /\ word[c] \in Pool /\ word[c] < nbpools /\ LinkFirst(word[c], c)
           /\ bpnext' \in [Pool -> Buffer \cup {NULL}] /\ word' \in [Buffer -> Int]
<1>1. /\ bpnext' = [bpnext EXCEPT ![word[c]] = c]
      /\ word' = [word EXCEPT ![c] = bpnext[word[c]]]
      /\ holder' = [holder EXCEPT ![c] = Nobody]
      /\ UNCHANGED <<nbpools, bpsem, made>>
      /\ Nobody \notin Proc /\ Pooled' = Pooled
  BY MessagesAssumption DEF Relink, Pooled
<1>2. c \in Buffer /\ c <= made /\ holder[c] = Nobody /\ word[c] \in 0 .. nbpools - 1
  BY DEF BufferInv, PostedInv
<1>3. /\ holder' = holder
      /\ word'[c] = bpnext[word[c]] /\ \A b \in Buffer : b # c => word'[b] = word[b]
  BY <1>1, <1>2 DEF Types
<1>4. word[c] \in Pool /\ word[c] < nbpools
  BY <1>2, PoolsAssumption DEF Pool, Types
<1>5. bpnext[word[c]] \in Buffer \cup {NULL} /\ Buffer \cup {NULL} \subseteq Int
  BY <1>4 DEF Types, Buffer, NULL
<1>6. bpnext' \in [Pool -> Buffer \cup {NULL}] /\ word' \in [Buffer -> Int]
  BY <1>1, <1>2, <1>5 DEF Types
<1>7. \A u \in Port : \A j : Undisposed(u, j) => j \in 1 .. Len(ptq[u])
  BY DEF Undisposed
<1>8. \A u \in Port : \A j : Undisposed(u, j) /\ ptq[u][j] = c => u = t /\ j = n
  BY <1>7 DEF BufferInv, PostedInv
<1>9. \A u \in Port : \A j : Undisposed(u, j)' <=> Undisposed(u, j) /\ ~ (u = t /\ j = n)
  <2>1. \A u \in Port : \A j : Undisposed(u, j)' \in BOOLEAN /\ Undisposed(u, j) \in BOOLEAN
    BY DEF Undisposed
  <2> QED BY <2>1
<1>10. \A u \in Port : \A j : Undisposed(u, j)' => Undisposed(u, j) /\ ptq[u][j] # c
  BY <1>8, <1>9
<1>11. \A b : InPort(b)' <=> InPort(b) /\ b # c
  <2>1. \A b : InPort(b)' => InPort(b) /\ b # c
    BY <1>10 DEF InPort
  <2>2. \A b : InPort(b) /\ b # c => InPort(b)'
    BY <1>9 DEF InPort
  <2> QED BY <2>1, <2>2
<1>12. InPort(c)
  BY DEF InPort
<1>13. ~ Loose(c) /\ \A b \in Buffer : Loose(b)' <=> Loose(b) \/ b = c
  BY <1>1, <1>2, <1>3, <1>11, <1>12 DEF Loose
<1>14. PoolsBasic'
  <2>1. \A j \in Pool : j >= nbpools => bpnext'[j] = bpnext[j]
    BY <1>1, <1>2, <1>4 DEF Types, Pool
  <2> QED BY <2>1, <1>1, <1>3 DEF BufferInv, PoolsBasic
<1>15. PostedInv'
  <2>1. \A u \in Port : \A j \in 1 .. Len(ptq[u]) : Undisposed(u, j)' =>
            /\ ptq[u][j] \in Buffer /\ ptq[u][j] <= made
            /\ holder[ptq[u][j]] = Nobody
            /\ word'[ptq[u][j]] \in 0 .. nbpools - 1
    BY <1>3, <1>10 DEF BufferInv, PostedInv
  <2>2. \A u, v \in Port : \A j \in 1 .. Len(ptq[u]), m \in 1 .. Len(ptq[v]) :
          Undisposed(u, j)' /\ Undisposed(v, m)' /\ ptq[u][j] = ptq[v][m] => u = v /\ j = m
    BY <1>10 DEF BufferInv, PostedInv
  <2> QED BY <2>1, <2>2, <1>1, <1>3 DEF PostedInv
<1>16. HeldInv'
  <2> SUFFICES ASSUME NEW b \in Buffer, holder[b] \in Proc
               PROVE  Stamped(b)'
    BY <1>3 DEF HeldInv
  <2>1. Stamped(b) /\ word'[b] = word[b]
    BY <1>1, <1>2, <1>3 DEF BufferInv, HeldInv
  <2>2. CASE holder[b] = p
    BY <2>1, <2>2, <1>1, <1>3 DEF Stamped
  <2>3. CASE holder[b] # p
    BY <2>1, <2>3, <1>1, <1>3 DEF Stamped, Moves
  <2> QED BY <2>2, <2>3
<1> QED BY <1>1, <1>2, <1>3, <1>4, <1>6, <1>13, <1>14, <1>15, <1>16 DEF BufferInv, LinkFirst

(* A semaphore of a pool, or none, is no port's.                             *)
LEMMA PoolSemaphoreAside ==
    ASSUME IInv, NEW t \in Port, NEW i \in Pool, i < nbpools
    PROVE  AsideFrom({bpsem[i]}, t)
<1>1. NotOfPort(bpsem[i]) /\ (bpsem[i] = SYSERR \/ PLive(i))
  BY PoolSemaphore DEF IInv
<1>2. \A q \in Proc : bpsem[i] \in Sem /\ q \in Waiting(semaph, bpsem[i]) => pc[q].at = "unlink"
  <2>1. bpsem[i] \in Sem => bpsem[i] # SYSERR
    BY SemaphoresAssumption DEF SYSERR, Sem
  <2> QED BY <1>1, <2>1 DEF IInv, WaitInv
<1>3. \A s \in Sem : \A q \in Waiting(semaph, s) : q \in Proc
  BY DEF IInv, TableOK, SemRec, Waiting
<1> QED BY <1>1, <1>2, <1>3 DEF AsideFrom, NotOfPort

(* A buffer comes back to pool i, and its semaphore says so.                 *)
LEMMA ReturnedToPool ==
    ASSUME IInv, NEW p \in Proc, NEW k, Moves(p, k),
           pc[p].at \in {"user", "dispose"}, k.at = "dispose",
           NEW i \in Pool, i < nbpools, semaph' = signal(semaph, bpsem[i]),
           NEW c \in Buffer, c <= made, ~ Loose(c), LinkFirst(i, c),
           \A b \in Buffer : Loose(b)' <=> Loose(b) \/ b = c,
           UNCHANGED <<nbpools, bpsem, made, load>>
    PROVE  /\ PoolsInv'
           /\ LetGo(semaph, semaph', bpsem[i])
           /\ \A u \in Sem : semaph'[u].used = semaph[u].used
<1>1. Types /\ TableOK(semaph) /\ OwnUsed /\ OwnApart /\ WaitInv
  BY DEF IInv
<1>2. PICK s \in Sem \cup {SYSERR} : s = bpsem[i]
  BY <1>1 DEF Types
<1>3. LetGo(semaph, semaph', s) /\ \A u \in Sem : semaph'[u].used = semaph[u].used
  BY <1>1, <1>2, SignalLetsGo
<1>4. PICK L : FreeLists(L)
  BY DEF IInv, PoolsInv
<1>5. PICK L2 : L2 = Longer(L, i, c)
  OBVIOUS
<1>6. /\ Chains(L2)' /\ Members(L2)'
      /\ Len(L2[i]) = Len(L[i]) + 1
      /\ \A j \in Pool : j # i => L2[j] = L[j]
  <2>1. Chains(L) /\ Members(L)
    BY <1>4 DEF FreeLists
  <2> QED BY <2>1, <1>1, <1>5, RelinkLists
<1>7. ASSUME NEW j \in Pool, PLive(j)' PROVE PoolAccount(L2, j)'
  <2>1. PLive(j) /\ PoolAccount(L, j) /\ bpsem[j] \in Sem /\ SYSERR \notin Sem
    BY <1>1, <1>4, <1>7, SemaphoresAssumption DEF FreeLists, PLive, Types, SYSERR, Sem
  <2>2. CASE j = i
    <3>1. s \in Sem /\ s = bpsem[j] /\ semaph[s].used
      BY <2>1, <2>2, <1>1, <1>2 DEF OwnUsed
    <3>2. Waiting(semaph, s) \subseteq Takers(j)
      <4>1. \A q \in Waiting(semaph, s) : q \in Proc
        BY <3>1, <1>1 DEF TableOK, SemRec, Waiting
      <4> QED BY <4>1, <3>1, <2>1, <1>1 DEF WaitInv, Takers
    <3>3. Takers(j) \subseteq Proc /\ Freers(j) \subseteq Proc
      BY DEF Takers, Freers
    <3>4. /\ Promise(semaph', s, Takers(j)) = Promise(semaph, s, Takers(j)) + 1
          /\ Promise(semaph, s, Takers(j)) \in Nat
      BY <3>1, <3>2, <3>3, <1>1, <1>2, PromiseSignal, PromiseType
    <3>5. Takers(j)' = Takers(j) /\ Freers(j)' = Freers(j)
      BY DEF Takers, Freers, Moves
    <3>6. Cardinality(Freers(j)) \in Nat
      BY <3>3, ProcFinite
    <3>7. Len(L[j]) \in Nat /\ Len(L2[j]) = Len(L[j]) + 1
      BY <2>2, <1>4, <1>6 DEF FreeLists, Chains
    <3> QED BY <3>1, <3>4, <3>5, <3>6, <3>7, <2>1 DEF PoolAccount, Killing
  <2>3. CASE j # i
    <3>1. LetsGo(semaph, semaph', {s})
      BY <1>3, LetGoOne
    <3>2. s = SYSERR \/ PLive(i)
      BY <1>2 DEF PLive
    <3>3. bpsem[j] \notin {s}
      BY <2>1, <2>3, <3>2, <1>1, <1>2 DEF OwnApart
    <3>4. p \notin Takers(j) \cup Freers(j)
      BY DEF Takers, Freers
    <3>5. \A q \in Takers(j), u \in {s} \cap Sem : q \notin Waiting(semaph, u)
      <4>1. s \in Sem => PLive(i)
        BY <2>1, <3>2
      <4> QED BY <4>1, <2>3, <1>1, <1>2 DEF WaitInv, Takers
    <3>6. Len(L2[j]) = Len(L[j])
      BY <2>3, <1>6
    <3> QED BY <3>1, <3>3, <3>4, <3>5, <3>6, <2>1, <1>1, PoolAside
  <2> QED BY <2>2, <2>3
<1>8. PoolsInv'
  BY <1>6, <1>7 DEF PoolsInv, FreeLists
<1> QED BY <1>2, <1>3, <1>8

(* _ptclear gives the message at n to dispose() and goes on. *)
LEMMA DisposeKeeps ==
    ASSUME IInv, NEW p \in Proc, NEW t \in Port, ClearsPort(p, t),
           pc[p].at \in {"user", "dispose"}, NEW k, GoesOn(p, k, t), k.at = "dispose",
           NEW n \in 1 .. Len(ptq[t]), k.n = n + 1,
           \A j : Undisposed(t, j) <=> j \in 1 .. Len(ptq[t]) /\ n <= j,
           Dispose(ptq[t][n]), UNCHANGED <<ptq, ptfree>>
    PROVE  IInv'
<1>1. /\ Types /\ TableOK(semaph) /\ PortsInv /\ PoolPlaces /\ BufferInv /\ Moves(p, k)
      /\ UNCHANGED <<ptssem, ptrsem, ptmaxcnt, ptnextp, nextsem, load>>
      /\ n \in Nat /\ SYSERR \notin Sem /\ k.at \in CallAt \cup ClearAt
  BY SemaphoresAssumption DEF IInv, GoesOn, SYSERR, Sem, ClearAt
<1>2. /\ AtPort(p, k, t) /\ ClearInv' /\ SeqInv'
      /\ ptstate'[t] = "PTLIMBO"
      /\ ptstate' \in [Port -> {"PTFREE", "PTLIMBO", "PTALLOC"}]
      /\ ptseq' \in [Port -> 0 .. MaxSeq]
      /\ pc' = [q \in Proc |-> pc'[q]] /\ \A q \in Proc : pc'[q].at \in Places
      /\ \A j : Undisposed(t, j)' <=> j \in 1 .. Len(ptq'[t]) /\ n + 1 <= j
      /\ SLive(t)' => ptssem[t] # SYSERR
      /\ RLive(t)' => ptrsem[t] # SYSERR
  BY ClearingGoesOn
<1>3. /\ ptssem[t] # SYSERR => SLive(t) /\ ptssem[t] \in Sem /\ semaph[ptssem[t]].used
      /\ ptrsem[t] # SYSERR => RLive(t) /\ ptrsem[t] \in Sem /\ semaph[ptrsem[t]].used
      /\ p \in Unqueued(semaph)
  BY ClearsOwn, ClearsAlone
<1>4. pc'[p].at = "dispose"
  BY <1>1 DEF Moves
<1>5. NodesInv'
  BY <1>1 DEF PortsInv, NodesInv, NodesConserved, Nodes
<1>7. ASSUME \A u \in Sem : semaph'[u].used = semaph[u].used
      PROVE  PortSide(p, t)
  <2>1. /\ SLive(t)' => SLive(t) /\ ptssem'[t] = ptssem[t] /\ semaph'[ptssem[t]].used
        /\ RLive(t)' => RLive(t) /\ ptrsem'[t] = ptrsem[t] /\ semaph'[ptrsem[t]].used
    BY <1>1, <1>2, <1>3, <1>7
  <2> QED BY <2>1, <1>2, <1>4, <1>5 DEF PortSide
<1>8. ASSUME UNCHANGED <<holder, nbpools>>
      PROVE  PoolPlaces'
  BY <1>1, <1>8, PlacesBeside
<1>9. CASE ~ Pooled
  <2>1. UNCHANGED <<semaph, poolVars>>
    BY <1>9 DEF Dispose
  <2>2. UNCHANGED <<nbpools, bpnext, bpsem, word, made, holder>>
    BY <2>1 DEF poolVars
  <2>3. LetsGo(semaph, semaph', {SYSERR}) /\ AsideFrom({SYSERR}, t) /\ AsideFromPools({SYSERR})
    BY <1>1, <2>1, NobodyLetGo, LetGoOne, NoSemaphores
  <2>4. PostedSame
    BY <1>9 DEF PostedSame
  <2>5. BufferInv' /\ \A b \in Buffer : Loose(b)' = Loose(b)
    BY <1>1, <2>1, <2>4, BuffersBeside
  <2>6. PortSide(p, t) /\ PoolPlaces'
    BY <2>1, <2>2, <1>7, <1>8
  <2>7. Types'
    BY <1>1, <1>2, <2>2 DEF Types
  <2>8. PortEffect(p, t)
    BY <2>2, <2>5, <2>6, <2>7, <1>2 DEF PortEffect
  <2> QED BY <2>3, <2>8, <1>2, <1>3, PortStepKeeps
<1>10. CASE Pooled
  <2>1. PICK c : c = ptq[t][n]
    OBVIOUS
  <2>2. Relink(word[c], c) /\ semaph' = signal(semaph, bpsem[word[c]])
    BY <1>10, <2>1 DEF Dispose
  <2>3. Undisposed(t, n)
    BY <1>1
  <2>4. \A j : Undisposed(t, j)' <=> Undisposed(t, j) /\ j # n
    <3>1. \A j \in 1 .. Len(ptq[t]) : n + 1 <= j <=> n <= j /\ j # n
      BY <1>1
    <3> QED BY <3>1, <1>2
  <2>5. PICK i : i = word[c]
    OBVIOUS
  <2>6. \A S : AsideFrom(S, t) /\ LetsGo(semaph, semaph', S) =>
             \A u \in Port \ {t} : \A j : Undisposed(u, j)' = Undisposed(u, j)
    BY <1>2, PortStepOthers
  <2>7. \A u \in Port \ {t} : \A j : Undisposed(u, j)' = Undisposed(u, j)
    <3> SUFFICES ASSUME NEW u \in Port \ {t}, NEW j PROVE Undisposed(u, j)' = Undisposed(u, j)
      OBVIOUS
    <3>1. ptstate'[u] = ptstate[u] /\ ptq'[u] = ptq[u]
      BY <1>2 DEF AtPort, SamePort
    <3>2. \A q \in Proc : pc'[q].at = "dispose" /\ pc'[q].a = u => pc'[q] = pc[q]
      BY <1>1 DEF Moves, GoesOn
    <3>3. \A q \in Proc : pc[q].at = "dispose" /\ pc[q].a = u => pc'[q] = pc[q]
      BY <1>1, <1>2 DEF Moves, AtPort
    <3> QED BY <3>1, <3>2, <3>3 DEF Undisposed
  <2>8. /\ BufferInv'
        /\ c \in Buffer /\ c <= made /\ ~ Loose(c)
        /\ \A b \in Buffer : Loose(b)' <=> Loose(b) \/ b = c
        /\ UNCHANGED <<holder, nbpools, bpsem, made>>
        /\ i \in Pool /\ i < nbpools /\ LinkFirst(i, c)
        /\ bpnext' \in [Pool -> Buffer \cup {NULL}] /\ word' \in [Buffer -> Int]
    BY <2>1, <2>2, <2>3, <2>4, <2>5, <2>7, <1>1, <1>10, DisposedBuffer
  <2>9. /\ PoolsInv'
        /\ LetGo(semaph, semaph', bpsem[i])
        /\ \A u \in Sem : semaph'[u].used = semaph[u].used
    BY <2>2, <2>5, <2>8, <1>1, ReturnedToPool
  <2>10. LetsGo(semaph, semaph', {bpsem[i]}) /\ AsideFrom({bpsem[i]}, t)
    <3>1. LetsGo(semaph, semaph', {bpsem[i]})
      BY <2>9, LetGoOne
    <3>2. AsideFrom({bpsem[i]}, t)
      BY <2>8, PoolSemaphoreAside
    <3> QED BY <3>1, <3>2
  <2>11. \A j \in Pool : PLive(j) => semaph'[bpsem[j]].used
    <3>1. \A j \in Pool : PLive(j) => bpsem[j] \in Sem /\ semaph[bpsem[j]].used
      BY <1>1 DEF IInv, OwnUsed, PLive, Types
    <3> QED BY <2>9, <3>1
  <2>12. PortSide(p, t) /\ PoolPlaces'
    BY <2>8, <2>9, <1>7, <1>8
  <2>13. TableOK(semaph') /\ OwnUsed' /\ OwnApart' /\ WaitInv' /\ PortsInv'
    BY <2>8, <2>10, <2>11, <2>12, <1>2, <1>3, PortStepRest
  <2>14. Types'
    BY <2>8, <1>1, <1>2 DEF Types
  <2> QED BY <2>8, <2>9, <2>12, <2>13, <2>14, <1>2 DEF IInv
<1> QED BY <1>9, <1>10

(* _ptclear disposes of the first message, and of the next. *)
LEMMA PtclearDisposeKeeps ==
    ASSUME IInv, "ports" \in load.calls, NEW p \in Proc, NEW t \in Port,
           NEW to \in {"PTFREE", "PTALLOC"},
           ptclearDispose(p, t, to), Dispose(ptq[t][1]), UNCHANGED load
    PROVE  IInv'
<1>1. /\ pc[p].at = "user" /\ ptstate[t] = "PTALLOC" /\ ptseq[t] + 1 < MaxSeq
      /\ ptstate' = [ptstate EXCEPT ![t] = "PTLIMBO"]
      /\ ptseq' = [ptseq EXCEPT ![t] = @ + 1]
      /\ ptq[t] # <<>> /\ Goto(p, AtTo("dispose", t, 2, to))
      /\ UNCHANGED <<ptssem, ptrsem, ptmaxcnt, ptq, ptfree, ptnextp, nextsem>>
      /\ Types
  BY DEF ptclearDispose, Limbo, InUser, IInv
<1>2. ClearsPort(p, t)
  BY <1>1 DEF ClearsPort
<1>3. ptseq[t] < MaxSeq /\ ptq[t] \in Seq(Msgs)
  <2>1. ptseq[t] \in Nat /\ MaxSeq \in Nat
    BY <1>1, PortsAssumption DEF Types
  <2> QED BY <2>1, <1>1 DEF Types
<1>4. PICK k : k = AtTo("dispose", t, 2, to)
  OBVIOUS
<1>5. k.at = "dispose" /\ k.a = t /\ k.n = 2 /\ k.to = to /\ Moves(p, k)
  <2>1. Moves(p, k)
    BY <1>1, <1>4, GotoMoves
  <2> QED BY <2>1, <1>4 DEF AtTo, Frame
<1>6. GoesOn(p, k, t)
  <2>1. ptseq' = IF ptstate[t] = "PTALLOC" THEN [ptseq EXCEPT ![t] = @ + 1] ELSE ptseq
    BY <1>1
  <2>2. ptq' \in [Port -> Seq(Msgs)] /\ \A u \in Port \ {t} : ptq'[u] = ptq[u]
    BY <1>1 DEF Types
  <2>3. k.at \in ClearAt /\ k.at = "dispose" /\ k.n \in Nat \ {0}
    BY <1>5 DEF ClearAt
  <2> QED BY <2>1, <2>2, <2>3, <1>1, <1>3, <1>5 DEF GoesOn
<1>7. Len(ptq[t]) \in Nat /\ 1 \in 1 .. Len(ptq[t])
  BY <1>1, <1>3, EmptySeq, LenProperties
<1>8. \A j : Undisposed(t, j) <=> j \in 1 .. Len(ptq[t]) /\ 1 <= j
  BY <1>1, <1>7 DEF Undisposed
<1> QED BY <1>1, <1>2, <1>5, <1>6, <1>7, <1>8, DisposeKeeps

LEMMA DisposeNextKeeps ==
    ASSUME IInv, NEW p \in Proc, disposeNext(p), Dispose(ptq[pc[p].a][pc[p].n]), UNCHANGED load
    PROVE  IInv'
<1>1. /\ Types /\ ClearInv /\ pc[p].at = "dispose" /\ pc[p].n <= Len(ptq[pc[p].a])
      /\ Goto(p, AtTo("dispose", pc[p].a, pc[p].n + 1, pc[p].to))
      /\ UNCHANGED <<ptstate, ptseq, ptssem, ptrsem, ptmaxcnt, ptq, ptfree, ptnextp, nextsem>>
  BY DEF IInv, disposeNext, Reached, portVars
<1>2. PICK t \in Port : t = pc[p].a
  BY <1>1 DEF ClearInv
<1>3. PICK to : to = pc[p].to
  OBVIOUS
<1>4. PICK n \in Nat \ {0} : n = pc[p].n
  BY <1>1 DEF ClearInv
<1>5. ptstate[t] = "PTLIMBO" /\ to \in {"PTFREE", "PTALLOC"} /\ ClearsPort(p, t)
  BY <1>1, <1>2, <1>3 DEF ClearInv, ClearsPort, Clearing
<1>6. ptstate' = [ptstate EXCEPT ![t] = "PTLIMBO"]
  BY <1>1, <1>5 DEF Types
<1>7. PICK k : k = AtTo("dispose", t, n + 1, to)
  OBVIOUS
<1>8. k.at = "dispose" /\ k.a = t /\ k.n = n + 1 /\ k.to = to /\ Moves(p, k)
  <2>1. Moves(p, k)
    BY <1>1, <1>2, <1>3, <1>4, <1>7, GotoMoves
  <2> QED BY <2>1, <1>7 DEF AtTo, Frame
<1>9. GoesOn(p, k, t)
  <2>1. ptseq' = IF ptstate[t] = "PTALLOC" THEN [ptseq EXCEPT ![t] = @ + 1] ELSE ptseq
    BY <1>1, <1>5
  <2>2. ptq' \in [Port -> Seq(Msgs)] /\ \A u \in Port \ {t} : ptq'[u] = ptq[u]
    BY <1>1 DEF Types
  <2>3. k.at \in ClearAt /\ k.at = "dispose" /\ k.n \in Nat \ {0}
    BY <1>8 DEF ClearAt
  <2>4. UNCHANGED <<ptssem, ptrsem, ptmaxcnt, ptnextp, nextsem, load>>
    BY <1>1
  <2> QED BY <2>1, <2>2, <2>3, <2>4, <1>5, <1>6, <1>8 DEF GoesOn
<1>10. Len(ptq[t]) \in Nat /\ n \in 1 .. Len(ptq[t])
  <2>1. ptq[t] \in Seq(Msgs)
    BY <1>1 DEF Types
  <2> QED BY <2>1, <1>1, <1>2, <1>4, LenProperties
<1>11. \A j : Undisposed(t, j) <=> j \in 1 .. Len(ptq[t]) /\ n <= j
  <2>1. \A q \in Proc : pc[q].at = "dispose" /\ pc[q].a = t => q = p
    BY <1>5, ClearsAlone DEF Clearing
  <2> QED BY <2>1, <1>1, <1>2, <1>4, <1>5 DEF Undisposed
<1>12. Dispose(ptq[t][n])
  BY <1>2, <1>4
<1> QED BY <1>1, <1>5, <1>8, <1>9, <1>10, <1>11, <1>12, DisposeKeeps

-----------------------------------------------------------------------------
(* pcreate *)

(* The port that pcreate finds is free. *)
LEMMA NewPortFree ==
    ASSUME Types, FreePorts # {}
    PROVE  newport \in Port /\ ptstate[newport] = "PTFREE"
<1>1. NPORTS \in Nat /\ NPORTS > 0 /\ ptnextp \in 0 .. NPORTS - 1
  BY PortsAssumption DEF Types, Port
<1>2. FreePorts \in SUBSET Nat
  BY <1>1 DEF FreePorts
<1>3. \E k \in FreePorts : \A j \in FreePorts : k <= j
  BY <1>2, LeastNumber
<1> DEFINE k == CHOOSE k \in FreePorts : \A j \in FreePorts : k <= j
<1>4. k \in FreePorts
  BY <1>3
<1>5. newport = (ptnextp - k) % NPORTS
  BY DEF newport
<1> HIDE DEF k
<1>6. k \in Nat /\ ptstate[(ptnextp - k) % NPORTS] = "PTFREE"
  BY <1>2, <1>4 DEF FreePorts
<1>7. ptnextp - k \in Int
  BY <1>1, <1>6
<1>8. \A x \in Int : x % NPORTS \in 0 .. NPORTS - 1
  BY <1>1
<1> QED BY <1>5, <1>6, <1>7, <1>8 DEF Port

(* Nobody refers to, or waits at, a semaphore that is not in use. *)
LEMMA UnusedAside ==
    ASSUME IInv, NEW t \in Port, NEW S,
           \A s \in S \cap Sem : ~ semaph[s].used
    PROVE  /\ AsideFrom(S, t) /\ AsideFromPools(S)
           /\ \A u \in Port : (SLive(u) => ptssem[u] \in Sem \ S)
                              /\ (RLive(u) => ptrsem[u] \in Sem \ S)
           /\ \A i \in Pool : PLive(i) => bpsem[i] \in Sem \ S
<1>1. Types /\ TableOK(semaph) /\ OwnUsed
  BY DEF IInv
<1>2. \A s \in S \cap Sem : Waiting(semaph, s) = {}
  <2> SUFFICES ASSUME NEW s \in S \cap Sem PROVE Waiting(semaph, s) = {}
    OBVIOUS
  <2>1. semaph[s].queue = <<>>
    BY <1>1 DEF TableOK, FreeSem
  <2>2. Len(semaph[s].queue) = 0
    BY <2>1, EmptySeq
  <2> QED BY <2>2 DEF Waiting
<1>3. /\ \A u \in Port : (SLive(u) => ptssem[u] \in Sem) /\ (RLive(u) => ptrsem[u] \in Sem)
      /\ \A i \in Pool : PLive(i) => bpsem[i] \in Sem
  BY <1>1 DEF SLive, RLive, PLive, Types
<1>4. /\ \A u \in Port : (SLive(u) => ptssem[u] \in Sem \ S) /\ (RLive(u) => ptrsem[u] \in Sem \ S)
      /\ \A i \in Pool : PLive(i) => bpsem[i] \in Sem \ S
  BY <1>1, <1>3 DEF OwnUsed
<1> QED BY <1>2, <1>4 DEF AsideFrom, AsideFromPools

(* The two semaphores of a new port, or as many as there were.               *)
Created(s, r, c) ==
    /\ TableOK(semaph') /\ LetsGo(semaph, semaph', {s, r})
    /\ s \in Sem \cup {SYSERR} /\ r \in Sem \cup {SYSERR}
    /\ \A u \in {s, r} \cap Sem : ~ semaph[u].used /\ Waiting(semaph', u) = {}
    /\ \A u \in Sem : Waiting(semaph', u) = Waiting(semaph, u)
    /\ Unqueued(semaph') = Unqueued(semaph)
    /\ s # SYSERR => s # r /\ semaph'[s].used /\ semaph'[s].cnt = c
    /\ r # SYSERR => semaph'[r].used /\ semaph'[r].cnt = 0
    /\ nextsem' \in Sem

(* pcreate's two semaphores were nobody's and differ. *)
LEMMA SemaphoresCreated ==
    ASSUME IInv, NEW c \in Nat, NEW s, s = newsem(semaph, nextsem),
           NEW t1, t1 = screate(semaph, s, c),
           NEW next, next = SearchedTo(semaph, nextsem), NEW r, r = newsem(t1, next),
           semaph' = screate(t1, r, 0), nextsem' = SearchedTo(t1, next)
    PROVE  Created(s, r, c)
<1>1. TableOK(semaph) /\ nextsem \in Sem /\ SYSERR \notin Sem
  BY SemaphoresAssumption DEF IInv, Types, SYSERR, Sem
<1>2. s \in Sem \cup {SYSERR} /\ (s # SYSERR => ~ semaph[s].used) /\ next \in Sem
  BY <1>1, NewSemUnused
<1>3. /\ TableOK(t1) /\ Unqueued(t1) = Unqueued(semaph)
      /\ \A u \in Sem : Waiting(t1, u) = Waiting(semaph, u)
      /\ \A u \in Sem \ {s} : t1[u] = semaph[u]
      /\ s # SYSERR => t1[s].used /\ t1[s].cnt = c /\ Waiting(semaph, s) = {}
  BY <1>1, <1>2, CreateEffect
<1>4. r \in Sem \cup {SYSERR} /\ (r # SYSERR => ~ t1[r].used) /\ nextsem' \in Sem
  BY <1>2, NewSemUnused
<1>5. /\ TableOK(semaph') /\ Unqueued(semaph') = Unqueued(t1)
      /\ \A u \in Sem : Waiting(semaph', u) = Waiting(t1, u)
      /\ \A u \in Sem \ {r} : semaph'[u] = t1[u]
      /\ r # SYSERR => semaph'[r].used /\ semaph'[r].cnt = 0 /\ Waiting(t1, r) = {}
  <2>1. 0 \in Nat
    OBVIOUS
  <2> QED BY <2>1, <1>3, <1>4, CreateEffect
<1>6. s # SYSERR => s # r
  BY <1>3, <1>4
<1>7. \A u \in Sem \ {s, r} : semaph'[u] = semaph[u]
  BY <1>3, <1>5
<1>8. LetsGo(semaph, semaph', {s, r})
  BY <1>3, <1>5, <1>7 DEF LetsGo
<1>9. \A u \in {s, r} \cap Sem : ~ semaph[u].used /\ Waiting(semaph', u) = {}
  BY <1>1, <1>2, <1>3, <1>4, <1>5, <1>6
<1>10. s # SYSERR => semaph'[s] = t1[s]
  BY <1>2, <1>5, <1>6
<1> QED BY <1>2, <1>3, <1>4, <1>5, <1>6, <1>8, <1>9, <1>10 DEF Created

(* pcreate: a port as new, which nobody has come for. *)
LEMMA PcreateKeeps ==
    ASSUME IInv, NEW p \in Proc, NEW c \in load.caps, pcreate(p, c), UNCHANGED <<poolVars, load>>
    PROVE  IInv'
<1>1. PICK t : t = newport
  OBVIOUS
<1>2. /\ Types /\ TableOK(semaph) /\ ClearInv /\ SeqInv /\ OwnUsed /\ OwnApart /\ WaitInv
      /\ PortsInv /\ PoolPlaces /\ BufferInv
  BY DEF IInv
<1>3. /\ pc[p].at = "user" /\ ptseq[t] < MaxSeq
      /\ ptnextp' = (t - 1) % NPORTS
      /\ ptstate' = [ptstate EXCEPT ![t] = "PTALLOC"]
      /\ ptq' = [ptq EXCEPT ![t] = <<>>]
      /\ ptseq' = [ptseq EXCEPT ![t] = @ + 1]
      /\ ptmaxcnt' = [ptmaxcnt EXCEPT ![t] = c]
      /\ UNCHANGED <<ptfree, pc>>
  BY <1>1 DEF pcreate, InUser
<1>4. t \in Port /\ ptstate[t] = "PTFREE" /\ ptq[t] = <<>>
  BY <1>1, <1>2, NewPortFree DEF pcreate, ClearInv
<1>5. c \in Caps /\ c \in Nat
  BY <1>2, MessagingAssumption, PortsAssumption DEF Types
<1>6. PICK s : s = newsem(semaph, nextsem)
  OBVIOUS
<1>7. PICK r : r = newsem(screate(semaph, s, c), SearchedTo(semaph, nextsem))
  OBVIOUS
<1>8. ptssem' = [ptssem EXCEPT ![t] = s] /\ ptrsem' = [ptrsem EXCEPT ![t] = r]
  BY <1>1, <1>6, <1>7 DEF pcreate
<1>9. Created(s, r, c)
  <2>1. PICK t1 : t1 = screate(semaph, s, c)
    OBVIOUS
  <2>2. PICK next : next = SearchedTo(semaph, nextsem)
    OBVIOUS
  <2>3. /\ r = newsem(t1, next)
        /\ semaph' = screate(t1, r, 0) /\ nextsem' = SearchedTo(t1, next)
    BY <1>6, <1>7, <2>1, <2>2 DEF pcreate
  <2> QED BY <2>1, <2>2, <2>3, <1>5, <1>6, SemaphoresCreated
<1>10. UNCHANGED <<nbpools, bpnext, bpsem, word, made, holder, load>>
  BY DEF poolVars
<1>11. PICK k : k = pc[p]
  OBVIOUS
<1>12. Moves(p, k) /\ k.at = "user" /\ p \in Unqueued(semaph)
  <2>1. pc[p].at \notin {"psend", "preceive", "unlink"}
    BY <1>3
  <2> QED BY <2>1, <1>2, <1>3, <1>11, StaysMoves, UserUnqueued
<1>13. /\ ptstate'[t] = "PTALLOC" /\ ptssem'[t] = s /\ ptrsem'[t] = r
       /\ ptmaxcnt'[t] = c /\ ptseq'[t] = ptseq[t] + 1 /\ ptq' = ptq
       /\ \A u \in Port \ {t} : SamePort(u) /\ ptq'[u] = ptq[u]
       /\ ptseq[t] \in 0 .. MaxSeq /\ MaxSeq \in Nat
  BY <1>2, <1>3, <1>4, <1>8, PortsAssumption DEF Types, SamePort
<1>14. \A q \in Proc : ~ Clearing(q, t)
  BY <1>2, <1>4 DEF ClearInv, Clearing
<1>15. AtPort(p, k, t)
  BY <1>3, <1>10, <1>11, <1>12, <1>13, <1>14 DEF AtPort, CallAt
<1>16. /\ TableOK(semaph') /\ LetsGo(semaph, semaph', {s, r})
       /\ s \in Sem \cup {SYSERR} /\ r \in Sem \cup {SYSERR}
       /\ \A u \in {s, r} \cap Sem : ~ semaph[u].used /\ Waiting(semaph', u) = {}
       /\ \A u \in Sem : Waiting(semaph', u) = Waiting(semaph, u)
       /\ s # SYSERR => s # r /\ semaph'[s].used /\ semaph'[s].cnt = c
       /\ r # SYSERR => semaph'[r].used /\ semaph'[r].cnt = 0
       /\ nextsem' \in Sem
  BY <1>9 DEF Created
<1>17. /\ AsideFrom({s, r}, t) /\ AsideFromPools({s, r})
       /\ \A u \in Port : (SLive(u) => ptssem[u] \in Sem \ {s, r})
                          /\ (RLive(u) => ptrsem[u] \in Sem \ {s, r})
       /\ \A i \in Pool : PLive(i) => bpsem[i] \in Sem \ {s, r}
  BY <1>4, <1>16, UnusedAside
<1>18. ClearInv'
  <2>1. \A q \in Proc : pc[q].at \in {"dispose", "freeReceivers", "ptclearEnd"} => pc[q].a # t
    BY <1>14 DEF Clearing
  <2>2. \A q \in Proc : \A u \in Port : Clearing(q, u)' = Clearing(q, u)
    BY <1>3 DEF Clearing
  <2>3. \A u \in Port \ {t} : ptstate'[u] = ptstate[u] /\ ptmaxcnt'[u] = ptmaxcnt[u]
    BY <1>13 DEF SamePort
  <2>4. \A q \in Proc : pc'[q].at \in {"dispose", "freeReceivers", "ptclearEnd"} =>
          /\ "ports" \in load.calls
          /\ pc'[q].a \in Port /\ ptstate'[pc'[q].a] = "PTLIMBO"
          /\ pc'[q].to \in {"PTFREE", "PTALLOC"}
          /\ pc'[q].at = "dispose" => pc'[q].n \in Nat \ {0} 
          /\ pc'[q].at # "dispose" => ptq'[pc'[q].a] = <<>>
    BY <2>1, <2>3, <1>2, <1>3, <1>13 DEF ClearInv
  <2>5. \A q, q2 \in Proc : \A u \in Port : Clearing(q, u)' /\ Clearing(q2, u)' => q = q2
    BY <2>2, <1>2 DEF ClearInv
  <2>6. \A u \in Port : /\ ptstate'[u] = "PTFREE" => ptq'[u] = <<>>
                        /\ ptstate'[u] # "PTFREE" => ptmaxcnt'[u] \in Caps
    BY <2>3, <1>2, <1>5, <1>13 DEF ClearInv
  <2> QED BY <2>4, <2>5, <2>6, <1>10 DEF ClearInv
<1>19. \A q \in Proc : pc[q].at \in {"psend", "preceive"} /\ pc[q].a = t =>
          pc[q].seq \in 0 .. ptseq'[t] /\ pc[q].seq # ptseq'[t]
  BY <1>2, <1>13 DEF SeqInv
<1>20. SeqInv'
  <2> SUFFICES ASSUME NEW q \in Proc, pc[q].at \in {"psend", "preceive"}
               PROVE  /\ pc[q].a \in Port
                      /\ pc[q].seq \in 0 .. ptseq'[pc[q].a]
                      /\ pc[q].seq = ptseq'[pc[q].a] =>
                            /\ ptstate'[pc[q].a] = "PTALLOC"
                            /\ pc[q].at = "psend" => ptssem'[pc[q].a] # SYSERR
                            /\ pc[q].at = "preceive" => ptrsem'[pc[q].a] # SYSERR
                      /\ pc[q].at = "psend" => pc[q].n \in Msgs
    BY <1>3 DEF SeqInv
  <2>1. PICK u \in Port : u = pc[q].a
    BY <1>2 DEF SeqInv
  <2>2. /\ pc[q].seq \in 0 .. ptseq[u]
        /\ pc[q].seq = ptseq[u] =>
                            /\ ptstate[u] = "PTALLOC"
                            /\ pc[q].at = "psend" => ptssem[u] # SYSERR
                            /\ pc[q].at = "preceive" => ptrsem[u] # SYSERR
        /\ pc[q].at = "psend" => pc[q].n \in Msgs
    BY <2>1, <1>2 DEF SeqInv
  <2>3. CASE u # t
    <3>1. SamePort(u)
      BY <2>3, <1>13
    <3> QED BY <3>1, <2>1, <2>2 DEF SamePort
  <2>4. CASE u = t
    BY <2>1, <2>2, <2>4, <1>19
  <2> QED BY <2>3, <2>4
<1>21. Comers("psend", t)' = {} /\ Comers("preceive", t)' = {}
  BY <1>3, <1>19 DEF Comers
<1>22. /\ \A u \in Port \ {t} :
                 /\ SLive(u)' = SLive(u) /\ RLive(u)' = RLive(u)
                 /\ \A j : Undisposed(u, j)' = Undisposed(u, j)
                 /\ SLive(u) => ptssem[u] \in Sem /\ semaph'[ptssem[u]] = semaph[ptssem[u]]
                 /\ RLive(u) => ptrsem[u] \in Sem /\ semaph'[ptrsem[u]] = semaph[ptrsem[u]]
                 /\ ptstate'[u] = "PTALLOC" /\ ptssem'[u] # SYSERR => SendAccount(u)'
                 /\ ptstate'[u] = "PTALLOC" /\ ptrsem'[u] # SYSERR => TakeAccount(u)'
       /\ \A q \in Proc \ {p} : pc'[q].to = "PTALLOC" =>
                 /\ pc'[q].at \in {"freeReceivers", "ptclearEnd"} /\ ptssem'[pc'[q].a] # SYSERR =>
                       semaph'[ptssem'[pc'[q].a]].cnt = ptmaxcnt'[pc'[q].a]
                 /\ pc'[q].at = "ptclearEnd" /\ ptrsem'[pc'[q].a] # SYSERR =>
                       semaph'[ptrsem'[pc'[q].a]].cnt = 0
  BY <1>4, <1>15, <1>16, <1>17, PortStepOthers
<1>23. (SLive(t)' <=> s # SYSERR) /\ (RLive(t)' <=> r # SYSERR)
  BY <1>13 DEF SLive, RLive
<1>24. \A i \in Pool : PLive(i)' = PLive(i) /\ bpsem'[i] = bpsem[i]
  BY <1>10 DEF PLive
<1>25. OwnUsed'
  <2>1. \A u \in Port : SLive(u)' => semaph'[ptssem'[u]].used
    BY <1>2, <1>13, <1>16, <1>22, <1>23 DEF OwnUsed, SamePort
  <2>2. \A u \in Port : RLive(u)' => semaph'[ptrsem'[u]].used
    BY <1>2, <1>13, <1>16, <1>22, <1>23 DEF OwnUsed, SamePort
  <2>3. \A i \in Pool : PLive(i)' => semaph'[bpsem'[i]].used
    <3>1. \A i \in Pool : PLive(i) => semaph'[bpsem[i]] = semaph[bpsem[i]]
      BY <1>16, <1>17 DEF LetsGo
    <3> QED BY <3>1, <1>2, <1>24 DEF OwnUsed
  <2> QED BY <2>1, <2>2, <2>3 DEF OwnUsed
<1>26. OwnApart'
  <2>1. /\ \A u \in Port \ {t} : SLive(u)' => SLive(u) /\ ptssem'[u] = ptssem[u]
                                                      /\ ptssem[u] # s /\ ptssem[u] # r
        /\ \A u \in Port \ {t} : RLive(u)' => RLive(u) /\ ptrsem'[u] = ptrsem[u]
                                                      /\ ptrsem[u] # s /\ ptrsem[u] # r
    BY <1>13, <1>17, <1>22 DEF SamePort
  <2>2. \A i \in Pool : PLive(i)' => PLive(i) /\ bpsem'[i] = bpsem[i]
                                              /\ bpsem[i] # s /\ bpsem[i] # r
    BY <1>17, <1>24
  <2>3. \A u, v \in Port : SLive(u)' /\ SLive(v)' /\ ptssem'[u] = ptssem'[v] => u = v
    BY <2>1, <1>2, <1>13 DEF OwnApart
  <2>4. \A u, v \in Port : RLive(u)' /\ RLive(v)' /\ ptrsem'[u] = ptrsem'[v] => u = v
    BY <2>1, <1>2, <1>13 DEF OwnApart
  <2>5. \A u, v \in Port : SLive(u)' /\ RLive(v)' => ptssem'[u] # ptrsem'[v]
    <3> SUFFICES ASSUME NEW u \in Port, NEW v \in Port, SLive(u)', RLive(v)'
                 PROVE  ptssem'[u] # ptrsem'[v]
      OBVIOUS
    <3>1. CASE u = t /\ v = t
      BY <3>1, <1>13, <1>16, <1>23
    <3>2. CASE u = t /\ v # t
      BY <3>2, <2>1, <1>13
    <3>3. CASE u # t /\ v = t
      BY <3>3, <2>1, <1>13
    <3>4. CASE u # t /\ v # t
      BY <3>4, <2>1, <1>2 DEF OwnApart
    <3> QED BY <3>1, <3>2, <3>3, <3>4
  <2>6. /\ \A i, j \in Pool : PLive(i)' /\ PLive(j)' /\ bpsem'[i] = bpsem'[j] => i = j
        /\ \A u \in Port, i \in Pool : SLive(u)' /\ PLive(i)' => ptssem'[u] # bpsem'[i]
        /\ \A u \in Port, i \in Pool : RLive(u)' /\ PLive(i)' => ptrsem'[u] # bpsem'[i]
    BY <2>1, <2>2, <1>2, <1>13 DEF OwnApart
  <2> QED BY <2>3, <2>4, <2>5, <2>6 DEF OwnApart
<1>27. WaitInv'
  <2>1. \A u \in Sem : Waiting(semaph', u) \subseteq Waiting(semaph, u) \ {p}
    BY <1>12, <1>16 DEF Unqueued
  <2>2. \A u \in Port : SLive(u)' =>
              \/ Waiting(semaph', ptssem'[u]) = {}
              \/ /\ SLive(u) /\ ptssem'[u] = ptssem[u] /\ ptssem[u] \in Sem
                 /\ ptstate'[u] = "PTALLOC" => ptstate[u] = "PTALLOC" /\ ptseq'[u] = ptseq[u]
    <3>1. s # SYSERR => Waiting(semaph', s) = {}
      BY <1>16
    <3> QED BY <3>1, <1>13, <1>22, <1>23 DEF SamePort
  <2>3. \A u \in Port : RLive(u)' =>
              \/ Waiting(semaph', ptrsem'[u]) = {}
              \/ /\ RLive(u) /\ ptrsem'[u] = ptrsem[u] /\ ptrsem[u] \in Sem
                 /\ ptstate'[u] = "PTALLOC" => ptstate[u] = "PTALLOC" /\ ptseq'[u] = ptseq[u]
    <3>1. r # SYSERR => Waiting(semaph', r) = {}
      BY <1>16
    <3> QED BY <3>1, <1>13, <1>22, <1>23 DEF SamePort
  <2>4. \A i \in Pool : PLive(i)' =>
              \/ Waiting(semaph', bpsem'[i]) = {}
              \/ PLive(i) /\ bpsem'[i] = bpsem[i] /\ bpsem[i] \in Sem
    BY <1>17, <1>24
  <2> QED BY <2>1, <2>2, <2>3, <2>4, <1>2, <1>12, WaitersKeep
<1>28. Len(ptq'[t]) = 0
  BY <1>4, <1>13, EmptySeq
<1>29. s # SYSERR => SendAccount(t)'
  <2> SUFFICES ASSUME s # SYSERR PROVE SendAccount(t)'
    OBVIOUS
  <2>1. semaph'[s].cnt \in Nat /\ semaph'[s].cnt = c
    BY <1>5, <1>16
  <2>2. Promise(semaph', s, {}) = c
    BY <2>1, PromiseFresh
  <2>3. Promise(semaph', ptssem'[t], Comers("psend", t)') = ptmaxcnt'[t] /\ ptmaxcnt'[t] \in Nat
    BY <2>2, <1>5, <1>13, <1>21
  <2>4. ptmaxcnt'[t] + Len(ptq'[t]) = ptmaxcnt'[t]
    BY <2>3, <1>28
  <2> QED BY <2>3, <2>4 DEF SendAccount
<1>30. r # SYSERR => TakeAccount(t)'
  <2> SUFFICES ASSUME r # SYSERR PROVE TakeAccount(t)'
    OBVIOUS
  <2>1. semaph'[r].cnt \in Nat /\ semaph'[r].cnt = 0
    BY <1>16
  <2>2. Promise(semaph', r, {}) = 0
    BY <2>1, PromiseFresh
  <2>3. Promise(semaph', ptrsem'[t], Comers("preceive", t)') = 0
    BY <2>2, <1>13, <1>21
  <2> QED BY <2>3, <1>28 DEF TakeAccount
<1>31. PortsInv'
  <2>1. ResetInv'
    <3>1. pc'[p].at = "user"
      BY <1>3
    <3> QED BY <3>1, <1>22 DEF ResetInv
  <2>2. NodesInv'
    <3>1. UNCHANGED <<ptq, ptfree>> /\ NodesInv
      BY <1>2, <1>3, <1>13 DEF PortsInv
    <3> QED BY <3>1 DEF NodesInv, NodesConserved, Nodes
  <2>3. \A u \in Port : /\ ptstate'[u] = "PTALLOC" /\ ptssem'[u] # SYSERR => SendAccount(u)'
                        /\ ptstate'[u] = "PTALLOC" /\ ptrsem'[u] # SYSERR => TakeAccount(u)'
    BY <1>13, <1>22, <1>29, <1>30
  <2> QED BY <2>1, <2>2, <2>3 DEF PortsInv
<1>32. PostedSame
  <2>1. \A j : ~ Undisposed(t, j) /\ ~ Undisposed(t, j)'
    BY <1>4, <1>28, EmptySeq DEF Undisposed
  <2>2. \A u \in Port : \A j : Undisposed(u, j)' = Undisposed(u, j)
    <3>1. \A j : Undisposed(t, j) \in BOOLEAN /\ Undisposed(t, j)' \in BOOLEAN
      BY DEF Undisposed
    <3> QED BY <3>1, <2>1, <1>22
  <2> QED BY <2>2, <1>13 DEF PostedSame
<1>33. BufferInv' /\ \A b \in Buffer : Loose(b)' = Loose(b)
  BY <1>2, <1>3, <1>12, <1>32, BuffersBeside
<1>34. PoolsInv'
  <2>1. pc[p].at \in CallAt \cup ClearAt \cup {"dead"} /\ k.at \in CallAt \cup ClearAt
    BY <1>3, <1>12 DEF CallAt
  <2> QED BY <2>1, <1>10, <1>12, <1>16, <1>17, <1>33, ListsBeside
<1>35. PoolPlaces'
  <2>1. k.at \in CallAt \cup ClearAt /\ k.at # "psend"
    BY <1>12 DEF CallAt
  <2> QED BY <2>1, <1>2, <1>10, <1>12, PlacesBeside
<1>36. Types'
  <2>1. ptnextp' \in Port
    <3>1. t - 1 \in Int /\ NPORTS \in Nat /\ NPORTS > 0
      BY <1>4, PortsAssumption DEF Port
    <3>2. (t - 1) % NPORTS \in 0 .. NPORTS - 1
      BY <3>1
    <3> QED BY <3>2, <1>3 DEF Port
  <2>2. ptseq' \in [Port -> 0 .. MaxSeq]
    <3>1. ptseq[t] + 1 \in 0 .. MaxSeq
      BY <1>3, <1>13
    <3> QED BY <3>1, <1>2, <1>3 DEF Types
  <2>3. /\ ptstate' \in [Port -> {"PTFREE", "PTLIMBO", "PTALLOC"}]
        /\ ptssem' \in [Port -> Sem \cup {SYSERR}] /\ ptrsem' \in [Port -> Sem \cup {SYSERR}]
        /\ ptmaxcnt' \in [Port -> Nat]
    BY <1>2, <1>3, <1>5, <1>8, <1>16 DEF Types
  <2> QED BY <2>1, <2>2, <2>3, <1>2, <1>3, <1>10, <1>13, <1>16 DEF Types
<1> QED BY <1>16, <1>18, <1>20, <1>25, <1>26, <1>27, <1>31, <1>33, <1>34, <1>35, <1>36 DEF IInv

-----------------------------------------------------------------------------
(* kill *)

(* The accounts only lose what the victim was let through for.               *)
LEMMA KillAccounts ==
    ASSUME TableOK(semaph), NEW p \in Proc, semaph' = Killed(semaph, p),
           NEW s \in Sem, NEW K, K \subseteq Proc, Waiting(semaph, s) \subseteq K
    PROVE  /\ Promise(semaph', s, K \ {p}) <= Promise(semaph, s, K)
           /\ Promise(semaph', s, K \ {p}) \in Nat /\ Promise(semaph, s, K) \in Nat
<1>1. TableOK(semaph')
  BY KillEffect
<1>2. K \ {p} \subseteq Proc
  OBVIOUS
<1> QED BY <1>1, <1>2, PromiseKill, PromiseType

(* Nobody waits where the count is not negative. *)
LEMMA NobodyWaits ==
    ASSUME NEW t, TableOK(t), NEW s \in Sem, t[s].cnt >= 0
    PROVE  Waiting(t, s) = {}
<1>1. t[s].cnt \in Int /\ Len(t[s].queue) = QueueLength(t[s].cnt)
  BY DEF TableOK, SemRec
<1>2. Len(t[s].queue) = 0
  BY <1>1 DEF QueueLength
<1> QED BY <1>2 DEF Waiting

(* A killed process that held a message takes it along, and one that cleared *)
(* a port leaves what it had yet to dispose of to nobody.                    *)
LEMMA KillKeeps ==
    ASSUME IInv, Killing, NEW p \in Proc, kill(p), UNCHANGED <<poolVars, portVars, load>>
    PROVE  IInv'
<1>1. /\ Types /\ TableOK(semaph) /\ ClearInv /\ SeqInv /\ OwnUsed /\ OwnApart /\ WaitInv
      /\ PortsInv /\ PoolPlaces /\ BufferInv
  BY DEF IInv
<1>2. /\ semaph' = Killed(semaph, p) /\ nextsem' = nextsem
      /\ UNCHANGED <<ptstate, ptssem, ptrsem, ptmaxcnt, ptseq, ptq, ptfree, ptnextp>>
      /\ UNCHANGED <<nbpools, bpnext, bpsem, word, made, holder, load>>
      /\ Pooled' = Pooled /\ Killing' = Killing
  BY DEF kill, poolVars, portVars, Pooled, Killing
<1>3. PICK k : k = Dead
  OBVIOUS
<1>4. Moves(p, k) /\ k.at = "dead"
  <2>1. Moves(p, k)
    BY <1>1, <1>3, GotoMoves DEF kill
  <2> QED BY <2>1, <1>3 DEF Dead, At, Frame
<1>5. pc'[p].at = "dead" /\ \A q \in Proc \ {p} : pc'[q] = pc[q]
  BY <1>4 DEF Moves
<1>6. /\ TableOK(semaph')
      /\ \A u \in Sem : /\ semaph'[u].used = semaph[u].used
                        /\ Waiting(semaph', u) = Waiting(semaph, u) \ {p}
                        /\ semaph'[u].cnt = IF p \in Waiting(semaph, u) THEN semaph[u].cnt + 1
                                                                   ELSE semaph[u].cnt
      /\ Unqueued(semaph') = Unqueued(semaph) \cup {p}
  BY <1>1, <1>2, KillEffect
<1>7. \A q \in Proc : \A t \in Port : Clearing(q, t)' <=> Clearing(q, t) /\ q # p
  BY <1>5 DEF Clearing
<1>8. ClearInv'
  <2>1. \A q \in Proc : pc'[q].at \in {"dispose", "freeReceivers", "ptclearEnd"} => pc'[q] = pc[q]
    BY <1>5
  <2> QED BY <2>1, <1>1, <1>2, <1>7 DEF ClearInv
<1>9. SeqInv'
  <2>1. \A q \in Proc : pc'[q].at \in {"psend", "preceive"} => pc'[q] = pc[q]
    BY <1>5
  <2> QED BY <2>1, <1>1, <1>2 DEF SeqInv
<1>10. \A t \in Port : (SLive(t)' => SLive(t)) /\ (RLive(t)' => RLive(t))
  BY <1>2, <1>5, <1>7 DEF SLive, RLive
<1>11. \A i \in Pool : PLive(i)' <=> PLive(i)
  BY <1>2 DEF PLive
<1>12. OwnUsed' /\ OwnApart'
  BY <1>1, <1>2, <1>6, <1>10, OwnersSame
<1>13. \A u \in Sem : Waiting(semaph', u) \subseteq Waiting(semaph, u) \ {p}
  BY <1>6
<1>14. WaitInv'
  <2>1. \A t \in Port : SLive(t)' =>
              \/ Waiting(semaph', ptssem'[t]) = {}
              \/ /\ SLive(t) /\ ptssem'[t] = ptssem[t] /\ ptssem[t] \in Sem
                 /\ ptstate'[t] = "PTALLOC" => ptstate[t] = "PTALLOC" /\ ptseq'[t] = ptseq[t]
    BY <1>1, <1>2, <1>10 DEF SLive, Types
  <2>2. \A t \in Port : RLive(t)' =>
              \/ Waiting(semaph', ptrsem'[t]) = {}
              \/ /\ RLive(t) /\ ptrsem'[t] = ptrsem[t] /\ ptrsem[t] \in Sem
                 /\ ptstate'[t] = "PTALLOC" => ptstate[t] = "PTALLOC" /\ ptseq'[t] = ptseq[t]
    BY <1>1, <1>2, <1>10 DEF RLive, Types
  <2>3. \A i \in Pool : PLive(i)' =>
              \/ Waiting(semaph', bpsem'[i]) = {}
              \/ PLive(i) /\ bpsem'[i] = bpsem[i] /\ bpsem[i] \in Sem
    BY <1>1, <1>2, <1>11 DEF PLive, Types
  <2> QED BY <2>1, <2>2, <2>3, <1>1, <1>4, <1>13, WaitersKeep
<1>15. /\ \A t \in Port : /\ Comers("psend", t)' = Comers("psend", t) \ {p}
                          /\ Comers("preceive", t)' = Comers("preceive", t) \ {p}
       /\ \A i \in Pool : /\ Takers(i)' = Takers(i) \ {p}
                          /\ Freers(i)' = Freers(i) \ {p}
  BY <1>2, <1>5 DEF Comers, Takers, Freers
<1>16. ASSUME NEW t \in Port, ptstate[t] = "PTALLOC", ptssem[t] # SYSERR
       PROVE  SendAccount(t)'
  <2>1. PICK s \in Sem : s = ptssem[t]
    BY <1>16, WaitersAreComers
  <2>2. Waiting(semaph, s) \subseteq Comers("psend", t) /\ SendAccount(t)
    BY <1>16, <2>1, WaitersAreComers
  <2>3. Comers("psend", t) \subseteq Proc
    BY DEF Comers
  <2>4. /\ Promise(semaph', s, Comers("psend", t)') <= Promise(semaph, s, Comers("psend", t))
        /\ Promise(semaph', s, Comers("psend", t)') \in Nat
        /\ Promise(semaph, s, Comers("psend", t)) \in Nat
    BY <2>2, <2>3, <1>1, <1>2, <1>15, KillAccounts
  <2>5. Len(ptq[t]) \in Nat /\ ptmaxcnt[t] \in Nat
    BY <1>1, LenProperties DEF Types
  <2> QED BY <2>1, <2>2, <2>4, <2>5, <1>2 DEF SendAccount
<1>17. ASSUME NEW t \in Port, ptstate[t] = "PTALLOC", ptrsem[t] # SYSERR
       PROVE  TakeAccount(t)'
  <2>1. PICK s \in Sem : s = ptrsem[t]
    BY <1>17, WaitersAreComers
  <2>2. Waiting(semaph, s) \subseteq Comers("preceive", t) /\ TakeAccount(t)
    BY <1>17, <2>1, WaitersAreComers
  <2>3. Comers("preceive", t) \subseteq Proc
    BY DEF Comers
  <2>4. /\ Promise(semaph', s, Comers("preceive", t)') <= Promise(semaph, s, Comers("preceive", t))
        /\ Promise(semaph', s, Comers("preceive", t)') \in Nat
        /\ Promise(semaph, s, Comers("preceive", t)) \in Nat
    BY <2>2, <2>3, <1>1, <1>2, <1>15, KillAccounts
  <2>5. Len(ptq[t]) \in Nat
    BY <1>1, LenProperties DEF Types
  <2> QED BY <2>1, <2>2, <2>4, <2>5, <1>2 DEF TakeAccount
<1>18. ResetInv'
  <2>1. \A s \in Sem : semaph[s].cnt >= 0 => semaph'[s].cnt = semaph[s].cnt
    BY <1>1, <1>6, NobodyWaits
  <2> SUFFICES ASSUME NEW q \in Proc, pc'[q].to = "PTALLOC",
                      pc'[q].at \in {"freeReceivers", "ptclearEnd"}
               PROVE  /\ ptssem[pc'[q].a] # SYSERR => semaph'[ptssem[pc'[q].a]].cnt = ptmaxcnt[pc'[q].a]
                      /\ pc'[q].at = "ptclearEnd" /\ ptrsem[pc'[q].a] # SYSERR =>
                            semaph'[ptrsem[pc'[q].a]].cnt = 0
    BY <1>2 DEF ResetInv
  <2>2. pc'[q] = pc[q]
    BY <1>5
  <2>3. PICK t \in Port : t = pc[q].a
    BY <2>2, <1>1 DEF ClearInv
  <2>4. /\ ptssem[t] # SYSERR => semaph[ptssem[t]].cnt = ptmaxcnt[t]
        /\ pc[q].at = "ptclearEnd" /\ ptrsem[t] # SYSERR => semaph[ptrsem[t]].cnt = 0
    BY <2>2, <2>3, <1>1 DEF PortsInv, ResetInv
  <2>5. /\ ptssem[t] \in Sem \cup {SYSERR} /\ ptrsem[t] \in Sem \cup {SYSERR}
        /\ ptmaxcnt[t] \in Nat
    BY <1>1 DEF Types
  <2> QED BY <2>1, <2>2, <2>3, <2>4, <2>5
<1>19. PortsInv'
  <2>1. NodesInv'
    BY <1>1, <1>2 DEF PortsInv, NodesInv, NodesConserved, Nodes
  <2> QED BY <2>1, <1>2, <1>16, <1>17, <1>18 DEF PortsInv
<1>20. PoolPlaces'
  <2> SUFFICES ASSUME NEW q \in Proc
               PROVE  /\ pc'[q].at \in {"unlink", "stamp", "relink", "release"} =>
                            pc'[q].a \in 0 .. nbpools - 1
                      /\ pc'[q].at \in {"stamp", "relink"} =>
                            pc'[q].n \in Buffer /\ holder[pc'[q].n] = q
                      /\ Pooled /\ pc'[q].at = "psend" =>
                            pc'[q].n \in Buffer /\ holder[pc'[q].n] = q
    BY <1>2 DEF PoolPlaces
  <2>1. CASE q = p
    BY <2>1, <1>5
  <2>2. CASE q # p
    <3>1. pc'[q] = pc[q]
      BY <2>2, <1>5
    <3> QED BY <3>1, <1>1 DEF PoolPlaces
  <2> QED BY <2>1, <2>2
<1>21. \A t \in Port : \A j : Undisposed(t, j)' => Undisposed(t, j)
  BY <1>2, <1>5 DEF Undisposed
<1>22. "ports" \notin load.calls => \A t \in Port : \A j : Undisposed(t, j) => Undisposed(t, j)'
  BY <1>1, <1>2 DEF ClearInv, Undisposed
<1>23. \A b : InPort(b)' => InPort(b)
  BY <1>2, <1>21 DEF InPort
<1>24. "ports" \notin load.calls => \A b : InPort(b) => InPort(b)'
  BY <1>2, <1>22 DEF InPort
<1>25. /\ \A b \in Buffer : Loose(b) => Loose(b)'
       /\ "ports" \notin load.calls => \A b \in Buffer : Loose(b)' => Loose(b)
  BY <1>2, <1>23, <1>24 DEF Loose
<1>26. BufferInv'
  <2>1. PoolsBasic'
    BY <1>1, <1>2 DEF BufferInv, PoolsBasic
  <2>2. PostedInv'
    BY <1>1, <1>2, <1>21 DEF BufferInv, PostedInv
  <2>3. HeldInv'
    <3> SUFFICES ASSUME NEW b \in Buffer, holder[b] \in Proc PROVE Stamped(b)'
      BY <1>2 DEF HeldInv
    <3>1. Stamped(b)
      BY <1>1 DEF BufferInv, HeldInv
    <3>2. CASE holder[b] = p
      BY <3>2, <1>2, <1>5 DEF Stamped
    <3>3. CASE holder[b] # p
      BY <3>1, <3>3, <1>2, <1>5 DEF Stamped
    <3> QED BY <3>2, <3>3
  <2> QED BY <2>1, <2>2, <2>3 DEF BufferInv
<1>27. PICK L : FreeLists(L)
  BY DEF IInv, PoolsInv
<1>28. Chains(L)'
  BY <1>2, <1>27 DEF FreeLists, Chains, IsFreeList
<1>29. Members(L)'
  <2>1. {"ports", "kill"} \subseteq load.calls <=> "ports" \in load.calls
    BY DEF Killing
  <2> QED BY <2>1, <1>2, <1>25, <1>27 DEF FreeLists, Members
<1>30. ASSUME NEW i \in Pool, PLive(i) PROVE PoolAccount(L, i)'
  <2>1. PICK s \in Sem : s = bpsem[i]
    BY <1>1, <1>30 DEF PLive, Types
  <2>2. Waiting(semaph, s) \subseteq Takers(i)
    <3>1. \A q \in Waiting(semaph, s) : q \in Proc
      BY <1>1 DEF TableOK, SemRec, Waiting
    <3> QED BY <3>1, <2>1, <1>1, <1>30 DEF WaitInv, Takers
  <2>3. Takers(i) \subseteq Proc /\ Freers(i) \subseteq Proc
    BY DEF Takers, Freers
  <2>4. /\ Promise(semaph', s, Takers(i)') <= Promise(semaph, s, Takers(i))
        /\ Promise(semaph', s, Takers(i)') \in Nat /\ Promise(semaph, s, Takers(i)) \in Nat
    BY <2>2, <2>3, <1>1, <1>2, <1>15, KillAccounts
  <2>5. /\ Cardinality(Freers(i)') <= Cardinality(Freers(i))
        /\ Cardinality(Freers(i)') \in Nat /\ Cardinality(Freers(i)) \in Nat
    <3>1. Freers(i)' = Freers(i) \ {p} /\ IsFiniteSet(Freers(i)) /\ Cardinality(Freers(i)) \in Nat
      BY <2>3, <1>15, ProcFinite
    <3>2. CASE p \in Freers(i)
      <4>1. Cardinality(Freers(i) \ {p}) = Cardinality(Freers(i)) - 1
        BY <3>1, <3>2, OneLess
      <4>2. Freers(i) \ {p} \subseteq Proc
        BY <2>3
      <4>3. Cardinality(Freers(i) \ {p}) \in Nat
        BY <4>2, ProcFinite
      <4> QED BY <3>1, <4>1, <4>3
    <3>3. CASE p \notin Freers(i)
      <4>1. Freers(i) \ {p} = Freers(i)
        BY <3>3
      <4> QED BY <3>1, <4>1
    <3> QED BY <3>2, <3>3
  <2>6. Len(L[i]) \in Nat
    BY <1>27 DEF FreeLists, Chains
  <2>7. PoolAccount(L, i)
    BY <1>27, <1>30 DEF FreeLists
  <2> QED BY <2>1, <2>4, <2>5, <2>6, <2>7, <1>2 DEF PoolAccount
<1>31. PoolsInv'
  BY <1>11, <1>28, <1>29, <1>30 DEF PoolsInv, FreeLists
<1>32. Types'
  <2>1. pc' = [q \in Proc |-> pc'[q]] /\ \A q \in Proc : pc'[q].at \in Places
    BY <1>1, <1>4, <1>5 DEF Moves, Types, Places
  <2> QED BY <2>1, <1>1, <1>2 DEF Types
<1> QED BY <1>6, <1>8, <1>9, <1>12, <1>14, <1>19, <1>20, <1>26, <1>31, <1>32 DEF IInv

-----------------------------------------------------------------------------
(* The inductive invariant *)

(* The initial states satisfy the invariant. *)
LEMMA InitGood == Init => IInv
<1> SUFFICES ASSUME Init PROVE IInv
  OBVIOUS
<1>1. /\ semaph = [s \in Sem |-> FreeSem] /\ nextsem = NSEM - 1
      /\ pc = [p \in Proc |-> User] /\ User.at = "user" /\ load \in Workloads
  BY DEF Init, SemInit, User, At, Frame
<1>2. /\ nbpools = 0 /\ made = 0
      /\ bpnext = [i \in Pool |-> NULL] /\ bpsem = [i \in Pool |-> SYSERR]
      /\ word = [b \in Buffer |-> NULL] /\ holder = [b \in Buffer |-> Nobody]
  BY DEF Init, PoolsInit
<1>3. /\ ptstate = [t \in Port |-> "PTFREE"] /\ ptssem = [t \in Port |-> SYSERR]
      /\ ptrsem = [t \in Port |-> SYSERR] /\ ptmaxcnt = [t \in Port |-> 0]
      /\ ptseq = [t \in Port |-> 0] /\ ptq = [t \in Port |-> <<>>]
      /\ ptfree = MAXMSGS /\ ptnextp = NPORTS - 1
  BY DEF Init, PortsInit
<1>4. /\ NSEM \in Nat /\ NSEM > 0 /\ NPORTS \in Nat /\ NPORTS > 0 /\ MAXMSGS \in Nat
      /\ MaxSeq \in Nat /\ NBPOOLS \in Nat /\ NBUFS \in Nat /\ Nobody \notin Proc
  BY SemaphoresAssumption, PortsAssumption, PoolsAssumption, MessagesAssumption
<1>5. <<>> \in Seq(Msgs) /\ <<>> \in Seq(Proc) /\ <<>> \in Seq(Buffer) /\ Len(<<>>) = 0
  BY EmptySeq
<1>6. Types
  <2>1. nextsem \in Sem /\ ptnextp \in Port
    BY <1>1, <1>3, <1>4 DEF Sem, Port
  <2>2. pc = [p \in Proc |-> pc[p]] /\ \A p \in Proc : pc[p].at \in Places
    BY <1>1 DEF Places
  <2>3. nbpools \in 0 .. NBPOOLS /\ made \in 0 .. NBUFS /\ word \in [Buffer -> Int]
    BY <1>2, <1>4 DEF NULL
  <2>4. /\ bpnext \in [Pool -> Buffer \cup {NULL}] /\ bpsem \in [Pool -> Sem \cup {SYSERR}]
        /\ holder \in [Buffer -> Proc \cup {Nobody}]
    BY <1>2
  <2>5. /\ ptstate \in [Port -> {"PTFREE", "PTLIMBO", "PTALLOC"}]
        /\ ptssem \in [Port -> Sem \cup {SYSERR}] /\ ptrsem \in [Port -> Sem \cup {SYSERR}]
        /\ ptmaxcnt \in [Port -> Nat] /\ ptseq \in [Port -> 0 .. MaxSeq]
        /\ ptq \in [Port -> Seq(Msgs)] /\ ptfree \in Nat
    BY <1>3, <1>4, <1>5
  <2> QED BY <2>1, <2>2, <2>3, <2>4, <2>5, <1>1 DEF Types
<1>7. TableOK(semaph) /\ \A s \in Sem : Waiting(semaph, s) = {}
  <2>1. FreeSem \in SemRec /\ FreeSem.queue = <<>> /\ FreeSem.cnt = 0
    BY <1>5 DEF FreeSem, SemRec
  <2>2. /\ semaph \in [Sem -> SemRec]
        /\ \A s \in Sem : semaph[s] = FreeSem /\ Len(semaph[s].queue) = 0 /\ semaph[s].cnt = 0
    BY <2>1, <1>1, <1>5
  <2>3. QueueLength(0) = 0
    BY DEF QueueLength
  <2>4. \A s, u \in Sem : \A i \in 1 .. Len(semaph[s].queue), j \in 1 .. Len(semaph[u].queue) :
          semaph[s].queue[i] = semaph[u].queue[j] => s = u /\ i = j
    BY <2>2
  <2> QED BY <2>2, <2>3, <2>4 DEF TableOK, Waiting
<1>8. ClearInv /\ SeqInv
  BY <1>1, <1>3 DEF ClearInv, SeqInv, Clearing
<1>9. /\ \A t \in Port : ~ SLive(t) /\ ~ RLive(t)
      /\ \A i \in Pool : ~ PLive(i)
  BY <1>2, <1>3 DEF SLive, RLive, PLive
<1>10. OwnUsed /\ OwnApart
  BY <1>9 DEF OwnUsed, OwnApart
<1>11. WaitInv
  BY <1>7 DEF WaitInv
<1>12. PortsInv
  <2>1. Nodes = {}
    BY <1>3, <1>5 DEF Nodes
  <2>2. NodesInv
    BY <2>1, <1>3, <1>4, FS_EmptySet DEF NodesInv, NodesConserved
  <2> QED BY <2>2, <1>1, <1>3 DEF PortsInv, ResetInv
<1>13. PoolPlaces
  BY <1>1 DEF PoolPlaces
<1>14. \A t \in Port : Len(ptq[t]) = 0 /\ \A j : ~ Undisposed(t, j)
  BY <1>3, <1>5 DEF Undisposed
<1>15. BufferInv
  <2>1. PoolsBasic
    BY <1>2 DEF PoolsBasic
  <2>2. PostedInv
    BY <1>14 DEF PostedInv
  <2>3. HeldInv
    BY <1>2, <1>4 DEF HeldInv
  <2> QED BY <2>1, <2>2, <2>3 DEF BufferInv
<1>16. PoolsInv
  <2>1. PICK L : L = [i \in Pool |-> <<>>]
    OBVIOUS
  <2>2. L \in [Pool -> Seq(Buffer)] /\ \A i \in Pool : L[i] = <<>> /\ Len(L[i]) = 0
    BY <2>1, <1>5
  <2>3. Chains(L)
    BY <2>2, <1>2 DEF Chains, IsFreeList
  <2>4. Members(L)
    <3>1. \A b : ~ OnList(L, b)
      BY <2>2 DEF OnList
    <3>2. \A b \in Buffer : ~ (b <= made)
      BY <1>2, <1>4 DEF Buffer
    <3> QED BY <3>1, <3>2 DEF Members
  <2> QED BY <2>3, <2>4, <1>9 DEF PoolsInv, FreeLists
<1> QED BY <1>6, <1>7, <1>8, <1>10, <1>11, <1>12, <1>13, <1>15, <1>16 DEF IInv

(* Every step keeps the invariant. *)
LEMMA PoolsStepKeeps ==
    ASSUME IInv, Pooled, NEW p \in Proc, PoolsStep(p, load.sizes), UNCHANGED <<portVars, load>>
    PROVE  IInv'
<1>1. CASE \E n \in load.sizes : mkpool(p, n)
  <2>1. load.sizes \subseteq Nat \ {0}
    BY MessagingAssumption DEF IInv, Types
  <2> QED BY <2>1, <1>1, MkpoolKeeps
<1>2. CASE \E pool \in Pool : getbuf(p, pool)
  BY <1>2, GetbufKeeps
<1>3. CASE getbufUnlink(p)
  BY <1>3, GetbufUnlinkKeeps
<1>4. CASE getbufStamp(p)
  BY <1>4, GetbufStampKeeps
<1>5. CASE \E buf \in Buffer : freebuf(p, buf)
  BY <1>5, FreebufKeeps
<1>6. CASE freebufRelink(p)
  BY <1>6, FreebufRelinkKeeps
<1>7. CASE freebufSignal(p)
  BY <1>7, FreebufSignalKeeps
<1> QED BY <1>1, <1>2, <1>3, <1>4, <1>5, <1>6, <1>7 DEF PoolsStep

(* Where there are pools, a message that a process holds is a buffer. *)
LEMMA MessageHeld ==
    ASSUME IInv, "ports" \in load.calls, NEW p \in Proc, NEW m \in Msgs, MayHold(p, m)
    PROVE  Pooled => m \in Buffer /\ holder[m] = p
BY MessagesAssumption DEF MayHold, Pooled, IInv, Types

LEMMA SendStepKeeps ==
    ASSUME IInv, "ports" \in load.calls, NEW p \in Proc, sendStep(p), UNCHANGED load
    PROVE  IInv'
<1>1. ASSUME NEW t \in Port, NEW m \in Msgs, MayHold(p, m), psend(p, t, m), Give(m, Nobody),
             UNCHANGED poolFixed
      PROVE  IInv'
  BY <1>1, PsendKeeps
<1>2. ASSUME NEW t \in Port, NEW m \in Msgs, MayHold(p, m), psendBlock(p, t, m),
             UNCHANGED poolVars
      PROVE  IInv'
  <2>1. Block(p, t, ptssem[t], "psend", m)
    BY <1>2 DEF psendBlock
  <2>2. Pooled => m \in Buffer /\ holder[m] = p
    BY <1>2, MessageHeld
  <2> QED BY <2>1, <2>2, <1>2, BlockKeeps
<1>3. ASSUME psendGo(p), Give(pc[p].n, Nobody), UNCHANGED poolFixed
      PROVE  IInv'
  BY <1>3, PsendGoKeeps
<1>4. ASSUME psendStale(p), UNCHANGED poolVars
      PROVE  IInv'
  <2>1. /\ Runs(p) /\ pc[p].at \in {"psend", "preceive"} /\ ~ StillValid(pc[p].a, pc[p].seq)
        /\ Goto(p, User) /\ UNCHANGED <<semVars, portVars, poolVars, load>>
    BY <1>4 DEF psendStale, SendRefused, Reached
  <2> QED BY <2>1, StaleKeeps
<1> QED BY <1>1, <1>2, <1>3, <1>4 DEF sendStep

LEMMA ReceiveStepKeeps ==
    ASSUME IInv, "ports" \in load.calls, NEW p \in Proc, receiveStep(p), UNCHANGED load
    PROVE  IInv'
<1>1. ASSUME NEW t \in Port, preceive(p, t), Give(Head(ptq[t]), p), UNCHANGED poolFixed
      PROVE  IInv'
  BY <1>1, PreceiveKeeps
<1>2. ASSUME NEW t \in Port, preceiveBlock(p, t), UNCHANGED poolVars
      PROVE  IInv'
  <2>1. Block(p, t, ptrsem[t], "preceive", 0)
    BY <1>2 DEF preceiveBlock
  <2> QED BY <2>1, <1>2, BlockKeeps
<1>3. ASSUME preceiveGo(p), StillValid(pc[p].a, pc[p].seq), Give(Head(ptq[pc[p].a]), p),
             UNCHANGED poolFixed
      PROVE  IInv'
  BY <1>3, PreceiveGoKeeps
<1>4. ASSUME preceiveGo(p), ~ StillValid(pc[p].a, pc[p].seq), UNCHANGED poolVars
      PROVE  IInv'
  <2>1. /\ Runs(p) /\ pc[p].at \in {"psend", "preceive"}
        /\ Goto(p, User) /\ UNCHANGED <<semVars, portVars, poolVars, load>>
    BY <1>4 DEF preceiveGo, Reached
  <2> QED BY <2>1, <1>4, StaleKeeps
<1> QED BY <1>1, <1>2, <1>3, <1>4 DEF receiveStep

LEMMA ClearStepKeeps ==
    ASSUME IInv, "ports" \in load.calls, NEW p \in Proc, clearStep(p), UNCHANGED load
    PROVE  IInv'
<1>1. ASSUME NEW t \in Port, NEW to \in {"PTFREE", "PTALLOC"},
             Pooled => ptq[t] = <<>>, ptclear(p, t, to), UNCHANGED poolVars
      PROVE  IInv'
  BY <1>1, PtclearKeeps
<1>2. ASSUME NEW t \in Port, NEW to \in {"PTFREE", "PTALLOC"},
             ptclearDispose(p, t, to), Dispose(ptq[t][1])
      PROVE  IInv'
  BY <1>2, PtclearDisposeKeeps
<1>3. ASSUME disposeNext(p), Dispose(ptq[pc[p].a][pc[p].n])
      PROVE  IInv'
  BY <1>3, DisposeNextKeeps
<1>4. ASSUME disposeDone(p), UNCHANGED poolVars
      PROVE  IInv'
  BY <1>4, DisposeDoneKeeps
<1>5. ASSUME freeReceivers(p), UNCHANGED poolVars
      PROVE  IInv'
  BY <1>5, FreeReceiversKeeps
<1>6. ASSUME ptclearEnd(p), UNCHANGED poolVars
      PROVE  IInv'
  BY <1>6, PtclearEndKeeps
<1> QED BY <1>1, <1>2, <1>3, <1>4, <1>5, <1>6 DEF clearStep

LEMMA StutterKeeps ==
    ASSUME IInv, UNCHANGED vars
    PROVE  IInv'
<1>1. /\ UNCHANGED <<semaph, nextsem, pc, load>>
      /\ UNCHANGED <<nbpools, bpnext, bpsem, word, made, holder>>
      /\ UNCHANGED <<ptstate, ptssem, ptrsem, ptmaxcnt, ptseq, ptq, ptfree, ptnextp>>
  BY DEF vars, semVars, poolVars, portVars
<1>2. /\ \A t \in Port : /\ SLive(t)' = SLive(t) /\ RLive(t)' = RLive(t)
                         /\ SendAccount(t)' = SendAccount(t) /\ TakeAccount(t)' = TakeAccount(t)
                         /\ \A j : Undisposed(t, j)' = Undisposed(t, j)
                         /\ \A q \in Proc : Clearing(q, t)' = Clearing(q, t)
      /\ \A i \in Pool : PLive(i)' = PLive(i)
  BY <1>1 DEF SLive, RLive, PLive, SendAccount, TakeAccount, Comers, Killing, Undisposed, Clearing
<1>3. Types' /\ TableOK(semaph') /\ ClearInv' /\ SeqInv'
  BY <1>1, <1>2 DEF IInv, Types, ClearInv, SeqInv
<1>4. OwnUsed' /\ OwnApart' /\ WaitInv'
  BY <1>1, <1>2 DEF IInv, OwnUsed, OwnApart, WaitInv, CalledAt
<1>5. PortsInv'
  BY <1>1, <1>2 DEF IInv, PortsInv, ResetInv, NodesInv, NodesConserved, Nodes
<1>6. PoolPlaces' /\ BufferInv'
  BY <1>1, <1>2 DEF IInv, PoolPlaces, BufferInv, PoolsBasic, PostedInv, HeldInv, Stamped, Pooled
<1>7. \A b \in Buffer : Loose(b)' = Loose(b)
  BY <1>1, <1>2 DEF Loose, InPort, Pooled
<1>8. PoolsInv'
  <2>1. PICK L : FreeLists(L)
    BY DEF IInv, PoolsInv
  <2>2. \A i \in Pool : PLive(i) => PoolAccount(L, i)'
    BY <2>1, <1>1 DEF FreeLists, PoolAccount, Takers, Freers, Killing
  <2> QED BY <2>1, <2>2, <1>1, <1>7, ListsSame DEF PoolsInv
<1> QED BY <1>3, <1>4, <1>5, <1>6, <1>8 DEF IInv

LEMMA NextKeeps == IInv /\ [Next]_vars => IInv'
<1> SUFFICES ASSUME IInv, [Next]_vars PROVE IInv'
  OBVIOUS
<1>1. CASE UNCHANGED vars
  BY <1>1, StutterKeeps
<1>2. ASSUME UNCHANGED load, NEW p \in Proc, "pools" \in load.calls, PoolsStep(p, load.sizes),
             UNCHANGED portVars
      PROVE  IInv'
  BY <1>2, PoolsStepKeeps DEF Pooled
<1>3. ASSUME UNCHANGED load, NEW p \in Proc, "ports" \in load.calls, PortsStep(p)
      PROVE  IInv'
  <2>1. CASE \E c \in load.caps : pcreate(p, c) /\ UNCHANGED poolVars
    BY <2>1, <1>3, PcreateKeeps
  <2>2. CASE sendStep(p)
    BY <2>2, <1>3, SendStepKeeps
  <2>3. CASE receiveStep(p)
    BY <2>3, <1>3, ReceiveStepKeeps
  <2>4. CASE clearStep(p)
    BY <2>4, <1>3, ClearStepKeeps
  <2> QED BY <2>1, <2>2, <2>3, <2>4, <1>3 DEF PortsStep
<1>4. ASSUME UNCHANGED load, NEW p \in Proc, "kill" \in load.calls, kill(p),
             UNCHANGED <<poolVars, portVars>>
      PROVE  IInv'
  BY <1>4, KillKeeps DEF Killing
<1> QED BY <1>1, <1>2, <1>3, <1>4 DEF Next

(* The invariant, for any number of processes, semaphores, pools, buffers    *)
(* and ports, and any workload.                                              *)
THEOREM MessagingInvariance == Spec => []IInv
<1> QED BY InitGood, NextKeeps, PTL DEF Spec

-----------------------------------------------------------------------------
(* What the ports account for *)

(* A finite set has room for an injection's domain. *)
LEMMA IntoFinite ==
    ASSUME NEW n \in Nat, NEW T, IsFiniteSet(T), NEW f \in [1 .. n -> T],
           \A a, b \in 1 .. n : f[a] = f[b] => a = b
    PROVE  n <= Cardinality(T)
<1>1. f \in Injection(1 .. n, T)
  BY DEF Injection, IsInjective
<1>2. Cardinality(1 .. n) <= Cardinality(T)
  BY <1>1, FS_Injection
<1>3. Cardinality(1 .. n) = n
  BY FS_Interval
<1> QED BY <1>2, <1>3

(* No queue is longer than there are nodes. *)
LEMMA QueueFits ==
    ASSUME IInv, NEW t \in Port
    PROVE  Len(ptq[t]) \in 0 .. MAXMSGS
<1>1. IsFiniteSet(Nodes) /\ ptfree + Cardinality(Nodes) = MAXMSGS /\ ptfree \in Nat
  BY DEF IInv, Types, PortsInv, NodesInv, NodesConserved
<1>2. PICK n \in Nat : n = Len(ptq[t])
  BY LenProperties DEF IInv, Types
<1>3. PICK f : f = [k \in 1 .. n |-> <<t, k>>]
  OBVIOUS
<1>4. \A k \in 1 .. n : f[k] = <<t, k>> /\ <<t, k>> \in Nodes
  BY <1>2, <1>3 DEF Nodes
<1>5. f \in [1 .. n -> Nodes]
  BY <1>3, <1>4
<1>6. ASSUME NEW a \in 1 .. n, NEW b \in 1 .. n, f[a] = f[b] PROVE a = b
  <2>1. <<t, a>> = <<t, b>>
    BY <1>4, <1>6
  <2> QED BY <2>1
<1>7. n <= Cardinality(Nodes)
  BY <1>1, <1>5, <1>6, IntoFinite
<1>8. Cardinality(Nodes) \in Nat
  BY <1>1, FS_CardinalityType
<1> QED BY <1>1, <1>2, <1>7, <1>8, PortsAssumption

(* The accounts count the callers let through. *)
LEMMA PromiseToGranted ==
    ASSUME TableOK(semaph), NEW t \in Port, NEW place \in {"psend", "preceive"},
           NEW s \in Sem, semaph[s].used
    PROVE  Positive(scount(s)) + Cardinality(GrantedAt(place, t))
              = Promise(semaph, s, Comers(place, t))
<1>1. GrantedAt(place, t) = Comers(place, t) \cap Unqueued(semaph)
  BY RunsUnqueued DEF GrantedAt, Comers, Reached, Unqueued
<1>2. scount(s) = semaph[s].cnt
  BY DEF scount, Used
<1> QED BY <1>1, <1>2 DEF Promise

(* The invariant implies what the run checks of the ports. *)
LEMMA PortsAccount == IInv => PortsAccounted
<1> SUFFICES ASSUME IInv PROVE PortsAccounted
  OBVIOUS
<1>1. NodesConserved
  BY DEF IInv, PortsInv, NodesInv
<1>2. PortAccounting
  <2> SUFFICES ASSUME NEW t \in Port, ptstate[t] = "PTALLOC",
                      ptssem[t] # SYSERR, ptrsem[t] # SYSERR
               PROVE  LET toTake == Positive(scount(ptrsem[t])) + Cardinality(GrantedAt("preceive", t))
                          toSend == Positive(scount(ptssem[t])) + Cardinality(GrantedAt("psend", t))
                      IN /\ toTake <= Len(ptq[t])
                         /\ toSend + Len(ptq[t]) <= ptmaxcnt[t]
                         /\ "kill" \notin load.calls =>
                               toTake = Len(ptq[t]) /\ toSend + Len(ptq[t]) = ptmaxcnt[t]
    BY DEF PortAccounting
  <2>1. /\ ptssem[t] \in Sem /\ semaph[ptssem[t]].used /\ SendAccount(t)
        /\ ptrsem[t] \in Sem /\ semaph[ptrsem[t]].used /\ TakeAccount(t)
    BY WaitersAreComers
  <2>2. TableOK(semaph)
    BY DEF IInv
  <2>3. Positive(scount(ptrsem[t])) + Cardinality(GrantedAt("preceive", t))
           = Promise(semaph, ptrsem[t], Comers("preceive", t))
    BY <2>1, <2>2, PromiseToGranted
  <2>4. Positive(scount(ptssem[t])) + Cardinality(GrantedAt("psend", t))
           = Promise(semaph, ptssem[t], Comers("psend", t))
    BY <2>1, <2>2, PromiseToGranted
  <2> QED BY <2>1, <2>3, <2>4 DEF SendAccount, TakeAccount, Killing
<1> QED BY <1>1, <1>2 DEF PortsAccounted

(* In an open port, the receivers' semaphore and the receivers it let        *)
(* through account for the messages, and the senders' semaphore and the      *)
(* senders it let through for the rest of the capacity, whatever was cleared *)
(* or created anew while they waited; and message nodes are neither lost nor *)
(* linked twice (psend.c:33-52, preceive.c:33-50, ptclear.c:20-37).          *)
THEOREM PortsAreAccounted == Spec => []PortsAccounted
<1> QED BY MessagingInvariance, PortsAccount, PTL

-----------------------------------------------------------------------------
(* What the pools account for *)

(* The free lists are lists, as the model's FreeList looks for them ... *)
LEMMA ListsType ==
    ASSUME NEW L, Chains(L), NEW i \in Pool
    PROVE  /\ L[i] \in Lists /\ IsFreeList(i, L[i])
           /\ Len(L[i]) \in 0 .. NBUFS /\ L[i] \in [1 .. Len(L[i]) -> Buffer]
<1>1. NBUFS \in Nat /\ IsFiniteSet(Buffer) /\ Cardinality(Buffer) = NBUFS
  BY PoolsAssumption, FS_Interval DEF Buffer
<1>2. L[i] \in Seq(Buffer) /\ IsFreeList(i, L[i])
  BY DEF Chains
<1>3. Len(L[i]) \in Nat /\ L[i] \in [1 .. Len(L[i]) -> Buffer]
  BY <1>2, LenProperties
<1>4. \A a, b \in 1 .. Len(L[i]) : L[i][a] = L[i][b] => a = b
  BY DEF Chains
<1>5. Len(L[i]) <= NBUFS
  BY <1>1, <1>3, <1>4, IntoFinite
<1>6. Len(L[i]) \in 0 .. NBUFS
  BY <1>1, <1>3, <1>5
<1> QED BY <1>2, <1>3, <1>6 DEF Lists

(* The links lead to the same buffers whoever follows them. *)
LEMMA ListAgrees ==
    ASSUME NEW i, NEW l \in Seq(Buffer), NEW m \in Seq(Buffer),
           IsFreeList(i, l), IsFreeList(i, m)
    PROVE  Len(l) <= Len(m) /\ \A k \in 1 .. Len(l) : l[k] = m[k]
<1> DEFINE D == {k \in Nat : k \in 1 .. Len(l) /\ ~ (k <= Len(m) /\ l[k] = m[k])}
<1>1. /\ Len(l) \in Nat /\ Len(m) \in Nat
      /\ \A k \in 1 .. Len(l) : l[k] \in Buffer
      /\ \A k \in 1 .. Len(m) : m[k] \in Buffer
      /\ l = <<>> <=> Len(l) = 0
      /\ m = <<>> <=> Len(m) = 0
  BY LenProperties, ElementOfSeq, EmptySeq
<1>2. NULL \notin Buffer
  BY PoolsAssumption DEF NULL, Buffer
<1>3. D = {}
  <2> SUFFICES ASSUME D # {} PROVE FALSE
    OBVIOUS
  <2>1. D \in SUBSET Nat
    OBVIOUS
  <2>2. PICK d \in D : \A k \in D : d <= k
    BY <2>1, LeastNumber
  <2>3. d \in Nat /\ d \in 1 .. Len(l) /\ ~ (d <= Len(m) /\ l[d] = m[d])
    OBVIOUS
  <2>4. CASE d = 1
    <3>1. bpnext[i] = l[1] /\ l[1] \in Buffer
      BY <2>3, <2>4, <1>1 DEF IsFreeList
    <3>2. m # <<>> /\ m[1] = l[1]
      BY <3>1, <1>2 DEF IsFreeList
    <3> QED BY <3>2, <2>3, <2>4, <1>1
  <2>5. CASE d # 1
    <3>1. d - 1 \in Nat /\ d - 1 \in 1 .. Len(l) /\ d - 1 < d /\ (d - 1) + 1 = d /\ d - 1 # Len(l)
      BY <2>3, <2>5, <1>1
    <3>2. d - 1 <= Len(m) /\ l[d - 1] = m[d - 1]
      BY <2>2, <2>3, <3>1
    <3>3. d - 1 \in 1 .. Len(m)
      BY <3>1, <3>2, <1>1
    <3>4. word[l[d - 1]] = l[d] /\ l[d] \in Buffer
      BY <3>1, <2>3, <1>1 DEF IsFreeList
    <3>5. d - 1 # Len(m) /\ word[m[d - 1]] = m[d]
      BY <3>1, <3>2, <3>3, <3>4, <1>2 DEF IsFreeList
    <3>6. d <= Len(m)
      BY <3>2, <3>5, <2>3, <1>1
    <3> QED BY <3>2, <3>4, <3>5, <3>6, <2>3
  <2> QED BY <2>4, <2>5
<1>4. \A k \in 1 .. Len(l) : k <= Len(m) /\ l[k] = m[k]
  <2>1. \A k \in 1 .. Len(l) : k \in Nat
    OBVIOUS
  <2> QED BY <2>1, <1>3
<1>5. Len(l) <= Len(m)
  <2>1. CASE Len(l) = 0
    BY <2>1, <1>1
  <2>2. CASE Len(l) # 0
    <3>1. Len(l) \in 1 .. Len(l)
      BY <2>2, <1>1
    <3> QED BY <3>1, <1>4
  <2> QED BY <2>1, <2>2
<1> QED BY <1>4, <1>5

(* ... and the only ones that the links spell. *)
LEMMA FreeListIs ==
    ASSUME NEW L, Chains(L), NEW i \in Pool
    PROVE  FreeList(i) = L[i]
<1>1. L[i] \in Lists /\ IsFreeList(i, L[i])
  BY ListsType
<1>2. FreeList(i) \in Lists /\ IsFreeList(i, FreeList(i))
  BY <1>1 DEF FreeList
<1>3. \A l \in Lists : l \in Seq(Buffer)
  <2>1. \A n \in 0 .. NBUFS : n \in Nat
    OBVIOUS
  <2> QED BY <2>1, SeqDef DEF Lists
<1>4. PICK l \in Seq(Buffer) : l = FreeList(i)
  BY <1>2, <1>3
<1>5. PICK m \in Seq(Buffer) : m = L[i]
  BY <1>1, <1>3
<1>6. IsFreeList(i, l) /\ IsFreeList(i, m)
  BY <1>1, <1>2, <1>4, <1>5
<1>7. Len(l) <= Len(m) /\ Len(m) <= Len(l) /\ \A k \in 1 .. Len(l) : l[k] = m[k]
  BY <1>6, ListAgrees
<1>8. Len(l) = Len(m)
  BY <1>7, LenProperties
<1>9. l = m
  BY <1>7, <1>8, SeqEqual
<1> QED BY <1>4, <1>5, <1>9

(* A set of which no two members differ counts as one, or none. *)
LEMMA AtMostOne ==
    ASSUME NEW S, \A x, y \in S : x = y
    PROVE  /\ S = {} => Cardinality(S) = 0
           /\ S # {} => Cardinality(S) = 1
<1>1. CASE S = {}
  BY <1>1, FS_EmptySet
<1>2. CASE S # {}
  <2>1. PICK x : x \in S
    BY <1>2
  <2>2. S = {x}
    BY <2>1
  <2> QED BY <1>2, <2>2, FS_Singleton
<1> QED BY <1>1, <1>2

(* A buffer is on the free lists, in the ports and with a process once at most. *)
LEMMA CountListed ==
    ASSUME NEW L, Chains(L), NEW b
    PROVE  Cardinality(Listed(b)) = IF OnList(L, b) THEN 1 ELSE 0
<1>1. \A x \in Listed(b) : /\ x[1] \in Pool /\ x[2] \in 1 .. Len(L[x[1]]) /\ L[x[1]][x[2]] = b
                           /\ x = <<x[1], x[2]>>
  <2> SUFFICES ASSUME NEW i \in Pool, NEW k \in 1 .. NBUFS,
                      k <= Len(FreeList(i)), FreeList(i)[k] = b
               PROVE  k \in 1 .. Len(L[i]) /\ L[i][k] = b
    BY DEF Listed
  <2>1. FreeList(i) = L[i] /\ Len(L[i]) \in Nat
    BY FreeListIs, ListsType
  <2> QED BY <2>1
<1>2. \A i \in Pool : \A k \in 1 .. Len(L[i]) : L[i][k] = b => <<i, k>> \in Listed(b)
  <2> SUFFICES ASSUME NEW i \in Pool, NEW k \in 1 .. Len(L[i]), L[i][k] = b
               PROVE  <<i, k>> \in Listed(b)
    OBVIOUS
  <2>1. FreeList(i) = L[i] /\ Len(L[i]) \in 0 .. NBUFS /\ NBUFS \in Nat
    BY FreeListIs, ListsType, PoolsAssumption
  <2>2. k \in 1 .. NBUFS /\ k <= Len(FreeList(i)) /\ FreeList(i)[k] = b
    BY <2>1
  <2> QED BY <2>2 DEF Listed
<1>3. \A x, y \in Listed(b) : x = y
  <2> SUFFICES ASSUME NEW x \in Listed(b), NEW y \in Listed(b) PROVE x = y
    OBVIOUS
  <2>1. x[1] = y[1] /\ x[2] = y[2]
    BY <1>1 DEF Chains
  <2> QED BY <2>1, <1>1
<1>4. OnList(L, b) => Listed(b) # {}
  BY <1>2 DEF OnList
<1>5. ASSUME NEW x \in Listed(b) PROVE OnList(L, b)
  BY <1>1 DEF OnList
<1> QED BY <1>3, <1>4, <1>5, AtMostOne

LEMMA CountPosted ==
    ASSUME IInv, Pooled, NEW b
    PROVE  Cardinality(Posted(b)) = IF InPort(b) THEN 1 ELSE 0
<1>1. \A x \in Posted(b) : /\ x[1] \in Port /\ x[2] \in 1 .. Len(ptq[x[1]])
                           /\ Undisposed(x[1], x[2]) /\ ptq[x[1]][x[2]] = b
                           /\ x = <<x[1], x[2]>>
  BY DEF Posted, Undisposed
<1>2. \A t \in Port : \A k \in 1 .. Len(ptq[t]) :
         Undisposed(t, k) /\ ptq[t][k] = b => <<t, k>> \in Posted(b)
  <2> SUFFICES ASSUME NEW t \in Port, NEW k \in 1 .. Len(ptq[t]), Undisposed(t, k), ptq[t][k] = b
               PROVE  <<t, k>> \in Posted(b)
    OBVIOUS
  <2>1. k \in 1 .. MAXMSGS
    BY QueueFits, PortsAssumption
  <2> QED BY <2>1 DEF Posted
<1>3. \A x, y \in Posted(b) : x = y
  <2> SUFFICES ASSUME NEW x \in Posted(b), NEW y \in Posted(b) PROVE x = y
    OBVIOUS
  <2>1. PostedInv
    BY DEF IInv, BufferInv
  <2>2. x[1] = y[1] /\ x[2] = y[2]
    BY <1>1, <2>1 DEF PostedInv
  <2> QED BY <2>2, <1>1
<1>4. InPort(b) => Posted(b) # {}
  BY <1>2 DEF InPort
<1>5. ASSUME NEW x \in Posted(b) PROVE InPort(b)
  BY <1>1 DEF InPort
<1> QED BY <1>3, <1>4, <1>5, AtMostOne

LEMMA CountHeld ==
    ASSUME NEW b
    PROVE  Cardinality(Held(b)) = IF holder[b] # Nobody THEN 1 ELSE 0
<1>1. \A x, y \in Held(b) : x = y
  BY DEF Held
<1>2. Held(b) # {} <=> holder[b] # Nobody
  BY DEF Held
<1> QED BY <1>1, <1>2, AtMostOne

(* The invariant implies what the run checks of the buffers and the pools. *)
LEMMA BufferPlace == IInv => BufferInOnePlace
<1> SUFFICES ASSUME IInv, Pooled, NEW b \in 1 .. made
             PROVE  LET places == Cardinality(Listed(b)) + Cardinality(Posted(b)) + Cardinality(Held(b))
                    IN /\ places <= 1
                       /\ ~ {"ports", "kill"} \subseteq load.calls => places = 1
  BY DEF BufferInOnePlace
<1>1. PICK L : FreeLists(L)
  BY DEF IInv, PoolsInv
<1>2. b \in Buffer /\ b <= made
  BY PoolsAssumption DEF IInv, Types, Buffer
<1>3. /\ Cardinality(Listed(b)) = IF OnList(L, b) THEN 1 ELSE 0
      /\ Cardinality(Posted(b)) = IF InPort(b) THEN 1 ELSE 0
      /\ Cardinality(Held(b)) = IF holder[b] # Nobody THEN 1 ELSE 0
  BY <1>1, CountListed, CountPosted, CountHeld DEF FreeLists
<1>4. InPort(b) => holder[b] = Nobody
  BY DEF IInv, BufferInv, PostedInv, InPort
<1>5. OnList(L, b) => holder[b] = Nobody /\ ~ InPort(b)
  BY <1>1, <1>2, ListedIsLoose
<1>6. ~ {"ports", "kill"} \subseteq load.calls =>
         OnList(L, b) \/ InPort(b) \/ holder[b] # Nobody
  BY <1>1, <1>2 DEF FreeLists, Members, Loose
<1> QED BY <1>3, <1>4, <1>5, <1>6

LEMMA PoolCounts == IInv => PoolCountsBuffers
<1> SUFFICES ASSUME IInv, NEW i \in 0 .. nbpools - 1, bpsem[i] # SYSERR
             PROVE  LET free == Len(FreeList(i))
                        promised == Positive(scount(bpsem[i])) + Cardinality(Granted(i))
                    IN /\ free >= promised
                       /\ "kill" \notin load.calls => free = promised + Cardinality(Releasing(i))
  BY DEF PoolCountsBuffers
<1>1. Types /\ TableOK(semaph) /\ OwnUsed /\ WaitInv
  BY DEF IInv
<1>2. PICK L : FreeLists(L)
  BY DEF IInv, PoolsInv
<1>3. i \in Pool /\ PLive(i)
  BY <1>1, PoolsAssumption DEF Types, Pool, PLive
<1>4. PoolAccount(L, i) /\ FreeList(i) = L[i]
  BY <1>2, <1>3, FreeListIs DEF FreeLists
<1>5. bpsem[i] \in Sem /\ scount(bpsem[i]) = semaph[bpsem[i]].cnt
  BY <1>1, <1>3 DEF Types, OwnUsed, PLive, scount, Used
<1>6. Granted(i) = Takers(i) \cap Unqueued(semaph)
  BY <1>1, RunsUnqueued DEF Granted, Takers, Reached, Unqueued
<1>7. Releasing(i) = Freers(i)
  <2>1. \A p \in Proc : pc[p].at = "release" => Runs(p)
    BY <1>1, UserUnqueued, RunsUnqueued
  <2> QED BY <2>1 DEF Releasing, Freers, Reached
<1>8. Positive(scount(bpsem[i])) + Cardinality(Granted(i)) = Promise(semaph, bpsem[i], Takers(i))
  BY <1>5, <1>6 DEF Promise
<1>9. Takers(i) \subseteq Proc /\ Freers(i) \subseteq Proc
  BY DEF Takers, Freers
<1>10. Promise(semaph, bpsem[i], Takers(i)) \in Nat /\ Cardinality(Freers(i)) \in Nat
  BY <1>1, <1>5, <1>9, PromiseType, ProcFinite
<1>11. Len(L[i]) \in Nat
  BY <1>2, <1>3, ListsType DEF FreeLists
<1> QED BY <1>4, <1>7, <1>8, <1>10, <1>11 DEF PoolAccount, Killing

LEMMA PoolsAccount == IInv => PoolsAccounted
<1> SUFFICES ASSUME IInv PROVE PoolsAccounted
  OBVIOUS
<1>1. Types /\ TableOK(semaph)
  BY DEF IInv
<1>2. TypeOK
  <2>1. SemTypeOK
    <3>1. DOMAIN pc = Proc
      BY <1>1 DEF Types
    <3> QED BY <3>1, <1>1 DEF SemTypeOK, Types, TableOK, SemRec
  <2>2. ptfree \in 0 .. MAXMSGS
    <3>1. ptfree \in Nat /\ IsFiniteSet(Nodes) /\ ptfree + Cardinality(Nodes) = MAXMSGS
      BY DEF IInv, Types, PortsInv, NodesInv, NodesConserved
    <3>2. Cardinality(Nodes) \in Nat
      BY <3>1, FS_CardinalityType
    <3> QED BY <3>1, <3>2, PortsAssumption
  <2> QED BY <2>1, <2>2, <1>1 DEF TypeOK, Types
<1>3. LinksEnd
  <2>1. PICK L : FreeLists(L)
    BY DEF IInv, PoolsInv
  <2> QED BY <2>1, ListsType DEF LinksEnd, FreeLists
<1> QED BY <1>2, <1>3, BufferPlace, PoolCounts DEF PoolsAccounted

(* Every buffer is on the free list of its pool, in one port or with one     *)
(* process, and never in two of these; the links end; and the semaphore of a *)
(* pool never promises more buffers than its list holds, or, without kills,  *)
(* other than it holds (getbuf.c:24-29, freebuf.c:22-29).                    *)
THEOREM PoolsAreAccounted == Spec => []PoolsAccounted
<1> QED BY MessagingInvariance, PoolsAccount, PTL

-----------------------------------------------------------------------------
(* Ports implement Mailbox *)

(* What the mailbox of a port holds. *)
BoxOf(t) == IF ptstate[t] = "PTALLOC" THEN ptq[t] ELSE <<>>
mailbox == <<[t \in Port |-> ptstate[t] = "PTALLOC"], ptmaxcnt,
             [t \in Port |-> IF ptstate[t] = "PTALLOC" THEN ptq[t] ELSE <<>>]>>

(* A step that neither opens nor closes a port, and leaves the queues of the *)
(* open ones alone, is none of the mailbox's.                                *)
LEMMA MailboxSame ==
    ASSUME UNCHANGED ptmaxcnt,
           \A t \in Port : (ptstate'[t] = "PTALLOC") = (ptstate[t] = "PTALLOC"),
           \A t \in Port : ptstate[t] = "PTALLOC" => ptq'[t] = ptq[t]
    PROVE  UNCHANGED mailbox
<1>1. [t \in Port |-> ptstate'[t] = "PTALLOC"] = [t \in Port |-> ptstate[t] = "PTALLOC"]
  OBVIOUS
<1>2. [t \in Port |-> IF ptstate'[t] = "PTALLOC" THEN ptq'[t] ELSE <<>>]
         = [t \in Port |-> IF ptstate[t] = "PTALLOC" THEN ptq[t] ELSE <<>>]
  OBVIOUS
<1> QED BY <1>1, <1>2 DEF mailbox

(* A sender that wait() let through finds room: what the semaphore and those *)
(* it let through may still put is within the capacity.                      *)
LEMMA RoomForSender ==
    ASSUME IInv, NEW t \in Port, ptstate[t] = "PTALLOC", ptssem[t] # SYSERR,
           Promise(semaph, ptssem[t], Comers("psend", t)) >= 1
    PROVE  Len(ptq[t]) < ptmaxcnt[t]
<1>1. ptssem[t] \in Sem /\ SendAccount(t) /\ Comers("psend", t) \subseteq Proc
  BY WaitersAreComers DEF Comers
<1>2. PICK n \in Nat : n = Promise(semaph, ptssem[t], Comers("psend", t))
  BY <1>1, PromiseType DEF IInv
<1>3. n + Len(ptq[t]) <= ptmaxcnt[t]
  BY <1>1, <1>2 DEF SendAccount
<1>4. ptq[t] \in Seq(Msgs) /\ ptmaxcnt[t] \in Nat
  BY DEF IInv, Types
<1>5. Len(ptq[t]) \in Nat
  BY <1>4, LenProperties
<1> QED BY <1>2, <1>3, <1>4, <1>5

(* A receiver that wait() let through finds a message. *)
LEMMA MessageForReceiver ==
    ASSUME IInv, NEW t \in Port, ptstate[t] = "PTALLOC", ptrsem[t] # SYSERR,
           Promise(semaph, ptrsem[t], Comers("preceive", t)) >= 1
    PROVE  ptq[t] # <<>>
<1>1. ptrsem[t] \in Sem /\ TakeAccount(t) /\ Comers("preceive", t) \subseteq Proc
  BY WaitersAreComers DEF Comers
<1>2. PICK n \in Nat : n = Promise(semaph, ptrsem[t], Comers("preceive", t))
  BY <1>1, PromiseType DEF IInv
<1>3. n <= Len(ptq[t]) /\ n >= 1
  BY <1>1, <1>2 DEF TakeAccount
<1>4. Len(<<>>) = 0
  OBVIOUS
<1> QED BY <1>2, <1>3, <1>4

(* Enqueueing where there is room is a Put. *)
LEMMA EnqueueIsPut ==
    ASSUME Types, NEW t \in Port, NEW m \in Msgs, NEW t1, ptstate[t] = "PTALLOC",
           Len(ptq[t]) < ptmaxcnt[t], Enqueue(t, m, t1), UNCHANGED portFixed
    PROVE  M!Put(t)
<1>1. /\ ptq' = [ptq EXCEPT ![t] = Append(ptq[t], m)]
      /\ UNCHANGED <<ptstate, ptmaxcnt>> /\ ptq \in [Port -> Seq(Msgs)]
  BY DEF Enqueue, Enqueued, portFixed, Types
<1>2. PICK B : B = [u \in Port |-> IF ptstate[u] = "PTALLOC" THEN ptq[u] ELSE <<>>]
  OBVIOUS
<1>3. PICK C : C = [u \in Port |-> IF ptstate'[u] = "PTALLOC" THEN ptq'[u] ELSE <<>>]
  OBVIOUS
<1>4. B[t] = ptq[t]
  BY <1>2
<1>5. C = [B EXCEPT ![t] = Append(@, m)]
  BY <1>1, <1>2, <1>3
<1>6. [u \in Port |-> ptstate[u] = "PTALLOC"][t]
  OBVIOUS
<1>7. [u \in Port |-> ptstate'[u] = "PTALLOC"] = [u \in Port |-> ptstate[u] = "PTALLOC"]
  BY <1>1
<1> QED BY <1>1, <1>2, <1>3, <1>4, <1>5, <1>6, <1>7 DEF M!Put

(* Dequeueing from a queue that is not empty is a Take. *)
LEMMA DequeueIsTake ==
    ASSUME Types, NEW t \in Port, NEW t1, ptstate[t] = "PTALLOC",
           ptq[t] # <<>>, Dequeue(t, t1), UNCHANGED portFixed
    PROVE  M!Take(t)
<1>1. /\ ptq' = [ptq EXCEPT ![t] = Tail(ptq[t])]
      /\ UNCHANGED <<ptstate, ptmaxcnt>> /\ ptq \in [Port -> Seq(Msgs)]
  BY DEF Dequeue, portFixed, Types
<1>2. PICK B : B = [u \in Port |-> IF ptstate[u] = "PTALLOC" THEN ptq[u] ELSE <<>>]
  OBVIOUS
<1>3. PICK C : C = [u \in Port |-> IF ptstate'[u] = "PTALLOC" THEN ptq'[u] ELSE <<>>]
  OBVIOUS
<1>4. B[t] = ptq[t]
  BY <1>2
<1>5. C = [B EXCEPT ![t] = Tail(@)]
  BY <1>1, <1>2, <1>3
<1>6. [u \in Port |-> ptstate[u] = "PTALLOC"][t]
  OBVIOUS
<1>7. [u \in Port |-> ptstate'[u] = "PTALLOC"] = [u \in Port |-> ptstate[u] = "PTALLOC"]
  BY <1>1
<1> QED BY <1>1, <1>2, <1>3, <1>4, <1>5, <1>6, <1>7 DEF M!Take

(* Whatever becomes of the queue, a port that goes into limbo is closed. *)
LEMMA LimboIsClose ==
    ASSUME Types, NEW t \in Port, Limbo(t), UNCHANGED ptmaxcnt,
           \A u \in Port \ {t} : ptq'[u] = ptq[u]
    PROVE  M!Close(t)
<1>1. /\ ptstate[t] = "PTALLOC" /\ ptstate' = [ptstate EXCEPT ![t] = "PTLIMBO"]
      /\ ptstate \in [Port -> {"PTFREE", "PTLIMBO", "PTALLOC"}]
  BY DEF Limbo, Types
<1>2. PICK B : B = [u \in Port |-> IF ptstate[u] = "PTALLOC" THEN ptq[u] ELSE <<>>]
  OBVIOUS
<1>3. PICK C : C = [u \in Port |-> IF ptstate'[u] = "PTALLOC" THEN ptq'[u] ELSE <<>>]
  OBVIOUS
<1>4. C = [B EXCEPT ![t] = <<>>]
  BY <1>1, <1>2, <1>3
<1>5. PICK A : A = [u \in Port |-> ptstate[u] = "PTALLOC"]
  OBVIOUS
<1>6. PICK D : D = [u \in Port |-> ptstate'[u] = "PTALLOC"]
  OBVIOUS
<1>7. A[t] = (ptstate[t] = "PTALLOC")
  BY <1>5
<1>8. D = [A EXCEPT ![t] = FALSE]
  BY <1>1, <1>5, <1>6
<1> QED BY <1>1, <1>2, <1>3, <1>4, <1>5, <1>6, <1>7, <1>8 DEF M!Close

(* A port that comes into use empty is opened. *)
LEMMA AllocIsOpen ==
    ASSUME Types, NEW t \in Port, ptstate[t] # "PTALLOC",
           ptstate' = [ptstate EXCEPT ![t] = "PTALLOC"],
           NEW c \in Caps, ptmaxcnt' = [ptmaxcnt EXCEPT ![t] = c],
           ptq'[t] = <<>>, \A u \in Port \ {t} : ptq'[u] = ptq[u]
    PROVE  M!Open(t)
<1>1. ptstate \in [Port -> {"PTFREE", "PTLIMBO", "PTALLOC"}]
  BY DEF Types
<1>2. PICK B : B = [u \in Port |-> IF ptstate[u] = "PTALLOC" THEN ptq[u] ELSE <<>>]
  OBVIOUS
<1>3. PICK C : C = [u \in Port |-> IF ptstate'[u] = "PTALLOC" THEN ptq'[u] ELSE <<>>]
  OBVIOUS
<1>4. C = B
  BY <1>1, <1>2, <1>3
<1>5. PICK A : A = [u \in Port |-> ptstate[u] = "PTALLOC"]
  OBVIOUS
<1>6. PICK D : D = [u \in Port |-> ptstate'[u] = "PTALLOC"]
  OBVIOUS
<1>7. A[t] = (ptstate[t] = "PTALLOC")
  BY <1>5
<1>8. D = [A EXCEPT ![t] = TRUE]
  BY <1>1, <1>5, <1>6
<1> QED BY <1>2, <1>3, <1>4, <1>5, <1>6, <1>7, <1>8 DEF M!Open

(* Each step of the ports is a step of the Mailbox, or none that it sees. *)
LEMMA SendRefines ==
    ASSUME IInv, NEW p \in Proc, sendStep(p)
    PROVE  M!Next \/ UNCHANGED mailbox
<1>0. Types /\ TableOK(semaph) /\ SeqInv /\ WaitInv
  BY DEF IInv
<1>1. ASSUME NEW t \in Port, NEW m \in Msgs, psend(p, t, m)
      PROVE  M!Next
  <2>1. /\ pc[p].at = "user" /\ ptstate[t] = "PTALLOC" /\ WaitPasses(ptssem[t])
        /\ Enqueue(t, m, wait(semaph, ptssem[t], p)) /\ UNCHANGED portFixed
    BY <1>1 DEF psend, InUser
  <2>2. p \in Unqueued(semaph) /\ Comers("psend", t) \subseteq Proc
    BY <2>1, <1>0, UserUnqueued DEF Comers
  <2>3. /\ ptssem[t] \in Sem /\ ptssem[t] # SYSERR
        /\ semaph[ptssem[t]].used /\ semaph[ptssem[t]].cnt > 0
    BY <2>1, SemaphoresAssumption DEF WaitPasses, Used, Sem, SYSERR
  <2>4. Promise(semaph, ptssem[t], Comers("psend", t)) >= 1
    BY <2>2, <2>3, <1>0, PromiseTaken
  <2>5. Len(ptq[t]) < ptmaxcnt[t]
    BY <2>1, <2>3, <2>4, RoomForSender
  <2>6. M!Put(t)
    BY <2>1, <2>5, <1>0, EnqueueIsPut
  <2> QED BY <2>6 DEF M!Next
<1>2. ASSUME NEW t \in Port, NEW m \in Msgs, psendBlock(p, t, m)
      PROVE  UNCHANGED mailbox
  <2>1. UNCHANGED <<ptstate, ptmaxcnt, ptq>>
    BY <1>2 DEF psendBlock, Block, portFixed
  <2> QED BY <2>1, MailboxSame
<1>3. ASSUME psendGo(p)
      PROVE  M!Next
  <2>1. /\ pc[p].at = "psend" /\ Runs(p) /\ StillValid(pc[p].a, pc[p].seq)
        /\ Enqueue(pc[p].a, pc[p].n, semaph) /\ UNCHANGED portFixed
    BY <1>3 DEF psendGo, SendAccepted, Reached
  <2>2. PICK t \in Port : t = pc[p].a
    BY <2>1, <1>0 DEF SeqInv
  <2>3. PICK m \in Msgs : m = pc[p].n
    BY <2>1, <1>0 DEF SeqInv
  <2>4. ptstate[t] = "PTALLOC" /\ ptssem[t] # SYSERR /\ p \in Comers("psend", t)
    BY <2>1, <2>2, <1>0 DEF SeqInv, StillValid, Comers
  <2>5. /\ p \in Unqueued(semaph) /\ Comers("psend", t) \subseteq Proc /\ ptssem[t] \in Sem
    BY <2>1, <2>4, <1>0, RunsUnqueued, WaitersAreComers DEF Comers
  <2>6. Promise(semaph, ptssem[t], Comers("psend", t)) >= 1
    BY <2>4, <2>5, <1>0, PromiseUsed
  <2>7. Len(ptq[t]) < ptmaxcnt[t]
    BY <2>4, <2>6, RoomForSender
  <2>8. M!Put(t)
    BY <2>1, <2>2, <2>3, <2>4, <2>7, <1>0, EnqueueIsPut
  <2> QED BY <2>8 DEF M!Next
<1>4. ASSUME psendStale(p)
      PROVE  UNCHANGED mailbox
  <2>1. UNCHANGED <<ptstate, ptmaxcnt, ptq>>
    BY <1>4 DEF psendStale, portVars
  <2> QED BY <2>1, MailboxSame
<1> QED BY <1>1, <1>2, <1>3, <1>4 DEF sendStep

LEMMA ReceiveRefines ==
    ASSUME IInv, NEW p \in Proc, receiveStep(p)
    PROVE  M!Next \/ UNCHANGED mailbox
<1>0. Types /\ TableOK(semaph) /\ SeqInv /\ WaitInv
  BY DEF IInv
<1>1. ASSUME NEW t \in Port, preceive(p, t)
      PROVE  M!Next
  <2>1. /\ pc[p].at = "user" /\ ptstate[t] = "PTALLOC" /\ WaitPasses(ptrsem[t])
        /\ Dequeue(t, wait(semaph, ptrsem[t], p)) /\ UNCHANGED portFixed
    BY <1>1 DEF preceive, InUser
  <2>2. p \in Unqueued(semaph) /\ Comers("preceive", t) \subseteq Proc
    BY <2>1, <1>0, UserUnqueued DEF Comers
  <2>3. /\ ptrsem[t] \in Sem /\ ptrsem[t] # SYSERR
        /\ semaph[ptrsem[t]].used /\ semaph[ptrsem[t]].cnt > 0
    BY <2>1, SemaphoresAssumption DEF WaitPasses, Used, Sem, SYSERR
  <2>4. Promise(semaph, ptrsem[t], Comers("preceive", t)) >= 1
    BY <2>2, <2>3, <1>0, PromiseTaken
  <2>5. ptq[t] # <<>>
    BY <2>1, <2>3, <2>4, MessageForReceiver
  <2>6. M!Take(t)
    BY <2>1, <2>5, <1>0, DequeueIsTake
  <2> QED BY <2>6 DEF M!Next
<1>2. ASSUME NEW t \in Port, preceiveBlock(p, t)
      PROVE  UNCHANGED mailbox
  <2>1. UNCHANGED <<ptstate, ptmaxcnt, ptq>>
    BY <1>2 DEF preceiveBlock, Block, portFixed
  <2> QED BY <2>1, MailboxSame
<1>3. ASSUME preceiveGo(p), StillValid(pc[p].a, pc[p].seq)
      PROVE  M!Next
  <2>1. /\ pc[p].at = "preceive" /\ Runs(p)
        /\ Dequeue(pc[p].a, semaph) /\ UNCHANGED portFixed
    BY <1>3 DEF preceiveGo, Reached
  <2>2. PICK t \in Port : t = pc[p].a
    BY <2>1, <1>0 DEF SeqInv
  <2>3. ptstate[t] = "PTALLOC" /\ ptrsem[t] # SYSERR /\ p \in Comers("preceive", t)
    BY <2>1, <2>2, <1>0, <1>3 DEF SeqInv, StillValid, Comers
  <2>4. /\ p \in Unqueued(semaph) /\ Comers("preceive", t) \subseteq Proc /\ ptrsem[t] \in Sem
    BY <2>1, <2>3, <1>0, RunsUnqueued, WaitersAreComers DEF Comers
  <2>5. Promise(semaph, ptrsem[t], Comers("preceive", t)) >= 1
    BY <2>3, <2>4, <1>0, PromiseUsed
  <2>6. ptq[t] # <<>>
    BY <2>3, <2>5, MessageForReceiver
  <2>7. M!Take(t)
    BY <2>1, <2>2, <2>3, <2>6, <1>0, DequeueIsTake
  <2> QED BY <2>7 DEF M!Next
<1>4. ASSUME preceiveGo(p), ~ StillValid(pc[p].a, pc[p].seq)
      PROVE  UNCHANGED mailbox
  <2>1. UNCHANGED <<ptstate, ptmaxcnt, ptq>>
    BY <1>4 DEF preceiveGo, portVars
  <2> QED BY <2>1, MailboxSame
<1> QED BY <1>1, <1>2, <1>3, <1>4 DEF receiveStep

LEMMA ClearRefines ==
    ASSUME IInv, NEW p \in Proc, clearStep(p)
    PROVE  M!Next \/ UNCHANGED mailbox
<1>0. Types /\ ClearInv /\ ptq \in [Port -> Seq(Msgs)]
  BY DEF IInv, Types
<1>1. ASSUME NEW t \in Port, NEW to \in {"PTFREE", "PTALLOC"}, ptclear(p, t, to)
      PROVE  M!Next
  <2>1. /\ Limbo(t) /\ UNCHANGED ptmaxcnt /\ ptq' = [ptq EXCEPT ![t] = <<>>]
    BY <1>1 DEF ptclear, SpliceAndFreeSenders
  <2>2. \A u \in Port \ {t} : ptq'[u] = ptq[u]
    BY <2>1, <1>0
  <2>3. M!Close(t)
    BY <2>1, <2>2, <1>0, LimboIsClose
  <2> QED BY <2>3 DEF M!Next
<1>2. ASSUME NEW t \in Port, NEW to \in {"PTFREE", "PTALLOC"}, ptclearDispose(p, t, to)
      PROVE  M!Next
  <2>1. Limbo(t) /\ UNCHANGED <<ptmaxcnt, ptq>>
    BY <1>2 DEF ptclearDispose
  <2>2. M!Close(t)
    BY <2>1, <1>0, LimboIsClose
  <2> QED BY <2>2 DEF M!Next
<1>3. ASSUME disposeNext(p)
      PROVE  UNCHANGED mailbox
  <2>1. UNCHANGED <<ptstate, ptmaxcnt, ptq>>
    BY <1>3 DEF disposeNext, portVars
  <2> QED BY <2>1, MailboxSame
<1>4. ASSUME disposeDone(p)
      PROVE  UNCHANGED mailbox
  <2>1. /\ pc[p].at = "dispose" /\ UNCHANGED <<ptstate, ptmaxcnt>>
        /\ ptq' = [ptq EXCEPT ![pc[p].a] = <<>>]
    BY <1>4 DEF disposeDone, SpliceAndFreeSenders, Reached
  <2>2. pc[p].a \in Port /\ ptstate[pc[p].a] = "PTLIMBO"
    BY <2>1, <1>0 DEF ClearInv
  <2>3. \A u \in Port : ptstate[u] = "PTALLOC" => ptq'[u] = ptq[u]
    BY <2>1, <2>2, <1>0
  <2> QED BY <2>1, <2>3, MailboxSame
<1>5. ASSUME freeReceivers(p)
      PROVE  UNCHANGED mailbox
  <2>1. UNCHANGED <<ptstate, ptmaxcnt, ptq>>
    BY <1>5 DEF freeReceivers, portVars
  <2> QED BY <2>1, MailboxSame
<1>6. ASSUME ptclearEnd(p)
      PROVE  M!Next \/ UNCHANGED mailbox
  <2>1. /\ pc[p].at = "ptclearEnd" /\ ptstate' = [ptstate EXCEPT ![pc[p].a] = pc[p].to]
        /\ UNCHANGED <<ptmaxcnt, ptq>>
    BY <1>6 DEF ptclearEnd, Reached
  <2>2. PICK t \in Port : t = pc[p].a
    BY <2>1, <1>0 DEF ClearInv
  <2>3. /\ ptstate[t] = "PTLIMBO" /\ ptq[t] = <<>> /\ ptmaxcnt[t] \in Caps
        /\ pc[p].to \in {"PTFREE", "PTALLOC"}
    BY <2>1, <2>2, <1>0 DEF ClearInv
  <2>4. CASE pc[p].to = "PTFREE"
    <3>1. \A u \in Port : (ptstate'[u] = "PTALLOC") = (ptstate[u] = "PTALLOC")
      BY <2>1, <2>2, <2>3, <2>4, <1>0 DEF Types
    <3> QED BY <3>1, <2>1, MailboxSame
  <2>5. CASE pc[p].to = "PTALLOC"
    <3>1. ptmaxcnt' = [ptmaxcnt EXCEPT ![t] = ptmaxcnt[t]]
      BY <2>1, <1>0 DEF Types
    <3>2. ptstate' = [ptstate EXCEPT ![t] = "PTALLOC"] /\ ptq'[t] = <<>>
      BY <2>1, <2>2, <2>3, <2>5
    <3>3. M!Open(t)
      BY <3>1, <3>2, <2>1, <2>3, <1>0, AllocIsOpen
    <3> QED BY <3>3 DEF M!Next
  <2> QED BY <2>3, <2>4, <2>5
<1> QED BY <1>1, <1>2, <1>3, <1>4, <1>5, <1>6 DEF clearStep

LEMMA CreateRefines ==
    ASSUME IInv, NEW p \in Proc, NEW c \in load.caps, pcreate(p, c)
    PROVE  M!Next
<1>1. PICK t : t = newport
  OBVIOUS
<1>2. /\ FreePorts # {}
      /\ ptstate' = [ptstate EXCEPT ![t] = "PTALLOC"]
      /\ ptq' = [ptq EXCEPT ![t] = <<>>]
      /\ ptmaxcnt' = [ptmaxcnt EXCEPT ![t] = c]
  BY <1>1 DEF pcreate
<1>3. Types /\ ptq \in [Port -> Seq(Msgs)] /\ load \in Workloads
  BY DEF IInv, Types
<1>4. t \in Port /\ ptstate[t] = "PTFREE" /\ c \in Caps
  BY <1>1, <1>2, <1>3, NewPortFree, MessagingAssumption
<1>5. ptq'[t] = <<>> /\ \A u \in Port \ {t} : ptq'[u] = ptq[u]
  BY <1>2, <1>3, <1>4
<1>6. M!Open(t)
  BY <1>2, <1>3, <1>4, <1>5, AllocIsOpen
<1> QED BY <1>4, <1>6 DEF M!Next

LEMMA StepRefines == IInv /\ [Next]_vars => [M!Next]_mailbox
<1> SUFFICES ASSUME IInv, [Next]_vars PROVE M!Next \/ UNCHANGED mailbox
  OBVIOUS
<1>1. ASSUME UNCHANGED portVars
      PROVE  UNCHANGED mailbox
  <2>1. UNCHANGED <<ptstate, ptmaxcnt, ptq>>
    BY <1>1 DEF portVars
  <2> QED BY <2>1, MailboxSame
<1>2. ASSUME NEW p \in Proc, PortsStep(p)
      PROVE  M!Next \/ UNCHANGED mailbox
  <2>1. CASE \E c \in load.caps : pcreate(p, c) /\ UNCHANGED poolVars
    BY <2>1, CreateRefines
  <2>2. CASE sendStep(p)
    BY <2>2, SendRefines
  <2>3. CASE receiveStep(p)
    BY <2>3, ReceiveRefines
  <2>4. CASE clearStep(p)
    BY <2>4, ClearRefines
  <2> QED BY <2>1, <2>2, <2>3, <2>4, <1>2 DEF PortsStep
<1>3. CASE UNCHANGED vars
  BY <1>1, <1>3 DEF vars
<1>4. CASE Next
  BY <1>1, <1>2, <1>4 DEF Next
<1> QED BY <1>3, <1>4

(* psend, preceive and their waits, with ports cleared, deleted, reset and    *)
(* created anew meanwhile and processes killed anywhere, are the Mailbox: a   *)
(* message enters only an open port that is not full and leaves it first in,  *)
(* first out, once; a call that outlived its port adds and takes nothing; and *)
(* a port that comes into use is empty.                                       *)
THEOREM PortsImplementMailbox == Spec => ImplementsMailbox
<1>1. Init => M!Init
  <2> SUFFICES ASSUME Init PROVE M!Init
    OBVIOUS
  <2>1. /\ ptstate = [t \in Port |-> "PTFREE"] /\ ptmaxcnt = [t \in Port |-> 0]
    BY DEF Init, PortsInit
  <2> QED BY <2>1 DEF M!Init
<1>2. IInv /\ [Next]_vars => [M!Next]_mailbox
  BY StepRefines
<1> QED BY <1>1, <1>2, MessagingInvariance, PTL DEF Spec, ImplementsMailbox, M!MailboxSpec, mailbox
==============================================================================
