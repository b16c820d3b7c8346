------------------------------ MODULE Semaphores ------------------------------
(***************************************************************************)
(* The semaphore calls as the rest of the system uses them.  Module Kernel *)
(* models them against the scheduler; here a process that is not blocked   *)
(* may take its next step at any time, which covers every order that       *)
(* priorities and the clock can produce.                                   *)
(*                                                                         *)
(* The calls are functions from the semaphore table to the semaphore       *)
(* table, so that an action can make several of them before anything else  *)
(* runs, as the code does with interrupts disabled.                        *)
(***************************************************************************)
EXTENDS Integers, Sequences, FiniteSets, SequencesExt

CONSTANTS Proc,  \* processes
          NSEM   \* slots of semaph

ASSUME SemaphoresAssumption == NSEM \in Nat /\ NSEM > 0 /\ IsFiniteSet(Proc)

VARIABLES semaph,   \* the semaphore table
          nextsem,  \* slot that the next search starts from
          pc        \* what each process is doing

semVars == <<semaph, nextsem>>

Sem == 0 .. NSEM - 1
SYSERR == -1
FreeSem == [used |-> FALSE, cnt |-> 0, queue |-> <<>>]

(* pc[p]: user code, a place inside a call with its arguments, or killed; *)
(* seq is the ptseq that a call has read, "to" the state it will leave its *)
(* object in, where they matter.                                           *)
Frame(place, a, n, seq, to) == [at |-> place, a |-> a, n |-> n, seq |-> seq, to |-> to]
At(place, a, n) == Frame(place, a, n, 0, "")
AtTo(place, a, n, to) == Frame(place, a, n, 0, to)
User == At("user", 0, 0)
Dead == At("dead", 0, 0)
Goto(p, k) == pc' = [pc EXCEPT ![p] = k]

SemInit ==
    /\ semaph = [s \in Sem |-> FreeSem]
    /\ nextsem = NSEM - 1
    /\ pc = [p \in Proc |-> User]

Queued(p) == {s \in Sem : p \in Range(semaph[s].queue)}
Runs(p) == Queued(p) = {}
InUser(p) == pc[p].at = "user"
Reached(p, place) == Runs(p) /\ pc[p].at = place

-----------------------------------------------------------------------------
(* newsem() searches downwards from nextsem, cyclically; t is the table.   *)

Used(t, s) == s \in Sem /\ t[s].used
Unused(t, from) == {k \in 0 .. NSEM - 1 : ~ t[(from - k) % NSEM].used}

newsem(t, from) ==
    IF Unused(t, from) = {} THEN SYSERR
    ELSE (from - (CHOOSE k \in Unused(t, from) :
                     \A j \in Unused(t, from) : k <= j)) % NSEM

(* nextsem after the search; a full turn leaves it where it was. *)
SearchedTo(t, from) == IF newsem(t, from) = SYSERR THEN from
                       ELSE (newsem(t, from) - 1) % NSEM

screate(t, s, count) ==
    IF s = SYSERR THEN t
    ELSE [t EXCEPT ![s] = [used |-> TRUE, cnt |-> count, queue |-> <<>>]]

wait(t, s, p) ==
    IF ~ Used(t, s) THEN t
    ELSE [t EXCEPT ![s].cnt = @ - 1,
                   ![s].queue = IF t[s].cnt <= 0 THEN Append(@, p) ELSE @]

signal(t, s) ==
    IF ~ Used(t, s) THEN t
    ELSE [t EXCEPT ![s].cnt = @ + 1,
                   ![s].queue = IF t[s].cnt < 0 THEN Tail(@) ELSE @]

(* sreset and sdelete let every waiter go; its wait() returns OK. *)
sreset(t, s, count) ==
    IF ~ Used(t, s) THEN t ELSE [t EXCEPT ![s].cnt = count, ![s].queue = <<>>]

sdelete(t, s) == IF ~ Used(t, s) THEN t ELSE [t EXCEPT ![s] = FreeSem]

(* kill() of a process other than the caller: dequeue() takes it from the *)
(* queue it is in.                                                         *)
Without(q, p) == RemoveAt(q, CHOOSE i \in DOMAIN q : q[i] = p)
Killed(t, p) == [s \in Sem |->
    IF p \in Range(t[s].queue)
      THEN [t[s] EXCEPT !.cnt = @ + 1, !.queue = Without(@, p)]
      ELSE t[s]]

kill(p) ==
    /\ pc[p].at # "dead"
    /\ \E q \in Proc \ {p} : InUser(q)
    /\ semaph' = Killed(semaph, p)
    /\ Goto(p, Dead)
    /\ UNCHANGED nextsem

scount(s) == IF Used(semaph, s) THEN semaph[s].cnt ELSE SYSERR
Positive(n) == IF n > 0 THEN n ELSE 0

SemTypeOK ==
    /\ semaph \in [Sem -> [used : BOOLEAN, cnt : Int, queue : Seq(Proc)]]
    /\ nextsem \in Sem
    /\ DOMAIN pc = Proc
===============================================================================
