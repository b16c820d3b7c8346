--------------------------------- MODULE Ports ---------------------------------
(***************************************************************************)
(* Ports: bounded message queues between processes                         *)
(* (xinu/sys/common/{pinit,pcreate,pdelete,preset,ptclear,psend,preceive}.c). *)
(*                                                                         *)
(* The calls run with interrupts disabled and lose the processor only in   *)
(* wait(), when they block, and at the reschedule that ends sreset(),      *)
(* sdelete() and signal(): each action runs from one such point to the     *)
(* next.  Message nodes are interchangeable, so the list of free nodes is  *)
(* its length.                                                             *)
(***************************************************************************)
EXTENDS Semaphores

CONSTANTS NPORTS, MAXMSGS,
          Msgs,      \* arguments of psend
          Caps,      \* arguments of pcreate
          MaxSeq     \* bound: a port is not created or cleared beyond this ptseq

ASSUME PortsAssumption ==
    /\ NPORTS \in Nat /\ NPORTS > 0
    /\ MAXMSGS \in Nat /\ Caps \subseteq Nat /\ MaxSeq \in Nat

VARIABLES ptstate, ptssem, ptrsem, ptmaxcnt, ptseq,
          ptq,      \* the messages from pthead to pttail
          ptfree,   \* length of the list of free nodes
          ptnextp

portVars == <<ptstate, ptssem, ptrsem, ptmaxcnt, ptseq, ptq, ptfree, ptnextp>>

Port == 0 .. NPORTS - 1

PortsInit ==
    /\ ptstate = [t \in Port |-> "PTFREE"]
    /\ ptssem = [t \in Port |-> SYSERR]
    /\ ptrsem = [t \in Port |-> SYSERR]
    /\ ptmaxcnt = [t \in Port |-> 0]
    /\ ptseq = [t \in Port |-> 0]
    /\ ptq = [t \in Port |-> <<>>]
    /\ ptfree = MAXMSGS
    /\ ptnextp = NPORTS - 1

FreePorts == {k \in 0 .. NPORTS - 1 : ptstate[(ptnextp - k) % NPORTS] = "PTFREE"}
newport == (ptnextp - (CHOOSE k \in FreePorts : \A j \in FreePorts : k <= j)) % NPORTS

pcreate(p, count) ==
    LET t == newport
        s == newsem(semaph, nextsem)
        senders == screate(semaph, s, count)
        next == SearchedTo(semaph, nextsem)
        r == newsem(senders, next)
    IN /\ InUser(p)
       /\ FreePorts # {}
       /\ ptseq[t] < MaxSeq
       /\ ptnextp' = (t - 1) % NPORTS
       /\ ptstate' = [ptstate EXCEPT ![t] = "PTALLOC"]
       /\ ptssem' = [ptssem EXCEPT ![t] = s]
       /\ ptrsem' = [ptrsem EXCEPT ![t] = r]
       /\ semaph' = screate(senders, r, 0)
       /\ nextsem' = SearchedTo(senders, next)
       /\ ptq' = [ptq EXCEPT ![t] = <<>>]
       /\ ptseq' = [ptseq EXCEPT ![t] = @ + 1]
       /\ ptmaxcnt' = [ptmaxcnt EXCEPT ![t] = count]
       /\ UNCHANGED <<ptfree, pc>>

-----------------------------------------------------------------------------
(* psend and preceive.  The wait may block; when it returns, the port may   *)
(* have been cleared or deleted, and its slot even created anew.  Names     *)
(* beginning with Bug are faulty variants for the properties to reject.     *)

StillValid(t, seq) == ptstate[t] = "PTALLOC" /\ ptseq[t] = seq

(* Whether wait(s) returns at once: with SYSERR, or with OK. *)
WaitFails(s) == ~ Used(semaph, s)
WaitPasses(s) == Used(semaph, s) /\ semaph[s].cnt > 0

BugEnqueued(t, msg) == <<msg>> \o ptq[t]
Enqueued(t, msg) == Append(ptq[t], msg)

Enqueue(t, msg, table) ==
    /\ ptfree > 0
    /\ ptfree' = ptfree - 1
    /\ ptq' = [ptq EXCEPT ![t] = Enqueued(t, msg)]
    /\ semaph' = signal(table, ptrsem[t])

Dequeue(t, table) ==
    /\ ptq' = [ptq EXCEPT ![t] = Tail(@)]
    /\ ptfree' = ptfree + 1
    /\ semaph' = signal(table, ptssem[t])

portFixed == <<ptstate, ptssem, ptrsem, ptmaxcnt, ptseq, ptnextp, nextsem>>

(* The calls that do not block ... *)
psend(p, t, msg) ==
    /\ InUser(p)
    /\ ptstate[t] = "PTALLOC"
    /\ WaitPasses(ptssem[t])
    /\ Enqueue(t, msg, wait(semaph, ptssem[t], p))
    /\ UNCHANGED <<portFixed, pc>>

preceive(p, t) ==
    /\ InUser(p)
    /\ ptstate[t] = "PTALLOC"
    /\ WaitPasses(ptrsem[t])
    /\ Dequeue(t, wait(semaph, ptrsem[t], p))
    /\ UNCHANGED <<portFixed, pc>>

(* ... and those that do; seq is kept in pc. *)
Block(p, t, s, place, msg) ==
    /\ InUser(p)
    /\ ptstate[t] = "PTALLOC"
    /\ ~ WaitPasses(s) /\ ~ WaitFails(s)
    /\ semaph' = wait(semaph, s, p)
    /\ Goto(p, Frame(place, t, msg, ptseq[t], ""))
    /\ UNCHANGED <<portFixed, ptq, ptfree>>

psendBlock(p, t, msg) == Block(p, t, ptssem[t], "psend", msg)
preceiveBlock(p, t) == Block(p, t, ptrsem[t], "preceive", 0)

SendAccepted(p) == Reached(p, "psend") /\ StillValid(pc[p].a, pc[p].seq)
SendRefused(p) == Reached(p, "psend") /\ ~ StillValid(pc[p].a, pc[p].seq)

psendGo(p) ==
    /\ SendAccepted(p)
    /\ Enqueue(pc[p].a, pc[p].n, semaph)
    /\ Goto(p, User)
    /\ UNCHANGED portFixed

psendStale(p) ==
    /\ SendRefused(p)
    /\ Goto(p, User)
    /\ UNCHANGED <<semVars, portVars>>

preceiveGo(p) ==
    LET t == pc[p].a
    IN /\ Reached(p, "preceive")
       /\ Goto(p, User)
       /\ IF StillValid(t, pc[p].seq)
            THEN Dequeue(t, semaph) /\ UNCHANGED portFixed
            ELSE UNCHANGED <<semVars, portVars>>

-----------------------------------------------------------------------------
(* _ptclear, called by pdelete (to = PTFREE) and preset (to = PTALLOC).  The *)
(* messages are first given to dispose(), one by one, unless it is PTNODISP; *)
(* what dispose does is the caller's affair and is added where it is known.  *)

Limbo(t) ==
    /\ ptstate[t] = "PTALLOC"
    /\ ptseq[t] + 1 < MaxSeq
    /\ ptstate' = [ptstate EXCEPT ![t] = "PTLIMBO"]
    /\ ptseq' = [ptseq EXCEPT ![t] = @ + 1]

(* sreset or sdelete of one of the port's two semaphores *)
BugCleared(s, to, count) ==
    IF to = "PTALLOC" THEN semaph ELSE sdelete(semaph, s)
Cleared(s, to, count) ==
    IF to = "PTALLOC" THEN sreset(semaph, s, count) ELSE sdelete(semaph, s)

(* pdelete leaves pthead and pttail behind, but nothing reads them before   *)
(* pcreate clears them.                                                     *)
Splice(t) == ptfree + Len(ptq[t])

SpliceAndFreeSenders(p, t, to) ==
    /\ ptfree' = Splice(t)
    /\ ptq' = [ptq EXCEPT ![t] = <<>>]
    /\ semaph' = Cleared(ptssem[t], to, ptmaxcnt[t])
    /\ Goto(p, AtTo("freeReceivers", t, 0, to))
    /\ UNCHANGED <<ptssem, ptrsem, ptmaxcnt, ptnextp, nextsem>>

ptclear(p, t, to) ==
    /\ InUser(p)
    /\ Limbo(t)
    /\ SpliceAndFreeSenders(p, t, to)

(* With a dispose function and messages: the first is disposed of at once. *)
ptclearDispose(p, t, to) ==
    /\ InUser(p)
    /\ ptq[t] # <<>>
    /\ Limbo(t)
    /\ Goto(p, AtTo("dispose", t, 2, to))
    /\ UNCHANGED <<ptssem, ptrsem, ptmaxcnt, ptq, ptfree, ptnextp, nextsem>>

disposeNext(p) ==
    LET t == pc[p].a
    IN /\ Reached(p, "dispose")
       /\ pc[p].n <= Len(ptq[t])
       /\ Goto(p, AtTo("dispose", t, pc[p].n + 1, pc[p].to))
       /\ UNCHANGED <<portVars, nextsem>>

disposeDone(p) ==
    LET t == pc[p].a
    IN /\ Reached(p, "dispose")
       /\ pc[p].n > Len(ptq[t])
       /\ SpliceAndFreeSenders(p, t, pc[p].to)
       /\ UNCHANGED <<ptstate, ptseq>>

freeReceivers(p) ==
    LET t == pc[p].a
    IN /\ Reached(p, "freeReceivers")
       /\ semaph' = Cleared(ptrsem[t], pc[p].to, 0)
       /\ Goto(p, AtTo("ptclearEnd", t, 0, pc[p].to))
       /\ UNCHANGED <<portVars, nextsem>>

ptclearEnd(p) ==
    LET t == pc[p].a
    IN /\ Reached(p, "ptclearEnd")
       /\ ptstate' = [ptstate EXCEPT ![t] = pc[p].to]
       /\ Goto(p, User)
       /\ UNCHANGED <<semVars, ptssem, ptrsem, ptmaxcnt, ptseq, ptq, ptfree, ptnextp>>

-----------------------------------------------------------------------------

(* Processes that were let through to a port that is still the one they     *)
(* waited for, and that have not yet run.                                   *)
GrantedAt(place, t) ==
    {p \in Proc : Reached(p, place) /\ pc[p].a = t /\ pc[p].seq = ptseq[t]}

M == INSTANCE Mailbox WITH
        open <- [t \in Port |-> ptstate[t] = "PTALLOC"],
        cap <- ptmaxcnt,
        box <- [t \in Port |-> IF ptstate[t] = "PTALLOC" THEN ptq[t] ELSE <<>>]
===============================================================================
