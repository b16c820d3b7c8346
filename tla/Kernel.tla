------------------------------- MODULE Kernel -------------------------------
(***************************************************************************)
(* The process manager of Xinu: process table, ready list, semaphores,     *)
(* one-slot messages and the delta list of timed waits                     *)
(* (xinu/sys/common, xinu/sys/68000/{create,resched}.c and the two clock   *)
(* handlers sun350/clkint.s and mio/clkinit.c).                            *)
(*                                                                         *)
(* A system call runs with interrupts disabled, so a call is one action,   *)
(* or, when it loops or calls resched() before it has finished, a first    *)
(* action followed by the steps kept in cont[p], the continuation of       *)
(* process p inside the kernel.  cont[p] = InUser says that p runs user    *)
(* code with interrupts enabled.  Only the current process takes steps;    *)
(* calls and interrupts happen only while it is in user code.              *)
(*                                                                         *)
(* An erroneous call that returns SYSERR without changing anything is a    *)
(* stuttering step and has no action.                                      *)
(***************************************************************************)
EXTENDS Integers, Sequences, FiniteSets, SequencesExt

CONSTANTS NPROC,      \* slots of proctab; slot 0 is the null process
          NSEM,       \* slots of semaph
          QUANTUM,    \* clock ticks between preemptions
          Counts,     \* arguments of screate, signaln and sreset
          PHMOD,      \* values of the char phasmsg (256)
          MaxCount,   \* bound: signal and signaln stop at this semaphore count
          MaxDefer,   \* bound: stopclk nesting and ticks counted while deferred
          Workloads   \* the workloads that may run, see Workload

Pid == 0 .. NPROC - 1
Sem == 0 .. NSEM - 1
NULLPROC == 0
BADPID == -1
EMPTY == -1
AllCalls == {"create", "kill", "suspend", "resume", "chprio", "setnok",
             "screate", "sdelete", "wait", "signal", "signaln", "sreset",
             "send", "sendf", "receive", "recvclr", "recvtim", "sleep10",
             "stopclk", "strtclk", "tick"}

(* A workload: the board, that is, which clock handler; the system calls and  *)
(* interrupts that happen; the priorities given to create and chprio; the     *)
(* delays given to sleep10 and recvtim; the messages given to send and sendf; *)
(* the processes given to setnok; how many more stacks fit in memory.         *)
Workload == [board : {"sun350", "mio"}, calls : SUBSET AllCalls,
             prios : SUBSET Int, delays : SUBSET Nat, msgs : SUBSET Int,
             kin : SUBSET Int, stacks : Nat]

ASSUME KernelAssumption ==
    /\ NPROC \in Nat /\ NPROC >= 2
    /\ NSEM \in Nat /\ NSEM >= 1
    /\ QUANTUM \in Nat /\ QUANTUM >= 1
    /\ Counts \subseteq Nat
    /\ PHMOD \in Nat /\ PHMOD >= 2
    /\ MaxCount \in Nat /\ MaxDefer \in Nat
    /\ \A w \in Workloads : w \in Workload

VARIABLES
    pstate, pprio, psem, pmsg, phasmsg, pnxtkin,  \* proctab
    currpid, nextproc, numproc,
    rdy,       \* the ready list, head first; the tail runs next
    qkey,      \* q[pid].qkey, kept at 0 while pid is on no keyed list
    preempt,   \* preemption counter
    clockq,    \* the delta list of sleeping and timed-receiving processes
    slnempty,  \* the clock handler's flag: clockq is not empty
    sltop,     \* pid whose key the clock handler decrements (EMPTY: none yet)
    defclk, clkdiff,
    sstate, semcnt, squeue, nextsem,              \* semaph
    stkfree,   \* stacks that getstk can still give out
    cont,      \* kernel continuation of each process
    due,       \* history: ticks a timed waiter still has to wait
    load       \* the workload, chosen once

procVars == <<pprio, psem, pmsg, phasmsg, pnxtkin>>
msgVars == <<pmsg, phasmsg>>
schedVars == <<pstate, currpid, rdy, qkey, preempt, clockq, slnempty, sltop>>
allocVars == <<nextproc, numproc, stkfree>>
deferVars == <<defclk, clkdiff>>
semVars == <<sstate, semcnt, squeue, nextsem>>
vars == <<procVars, schedVars, allocVars, deferVars, semVars, cont, due, load>>

States == {"PRCURR", "PRFREE", "PRREADY", "PRRECV", "PRSLEEP", "PRSUSP",
           "PRWAIT", "PRTRECV"}
Timed == {"PRSLEEP", "PRTRECV"}
Kop(op, a, n) == [op |-> op, a |-> a, n |-> n]
InUser == Kop("user", 0, 0)

(* What a process that is not running may still have to do in the kernel *)
(* when it is dispatched again, and what only the running process does.  *)
ParkedOps == {"user", "receive", "recvtim", "kill", "clpreem", "strtclk"}
LoopOps == {"insertdS", "insertdR", "signaln", "sdelete", "sreset",
            "wakeupC", "wakeupS", "makeup"}

-----------------------------------------------------------------------------
(* Lists (insert.c, queue.c) and the scheduler (ready.c, resched.c), as      *)
(* functions of a record that holds the part of the state they use.          *)

Sched == [pstate |-> pstate, pprio |-> pprio, rdy |-> rdy, qkey |-> qkey,
          currpid |-> currpid, preempt |-> preempt, clockq |-> clockq,
          slnempty |-> slnempty, sltop |-> sltop]

SchedIs(s) == /\ pstate' = s.pstate
              /\ rdy' = s.rdy
              /\ qkey' = s.qkey
              /\ currpid' = s.currpid
              /\ preempt' = s.preempt
              /\ clockq' = s.clockq
              /\ slnempty' = s.slnempty
              /\ sltop' = s.sltop

IndexOf(l, p) == CHOOSE i \in 1 .. Len(l) : l[i] = p
OnList(l, p) == \E i \in 1 .. Len(l) : l[i] = p

dequeue(l, p) == IF OnList(l, p) THEN RemoveAt(l, IndexOf(l, p)) ELSE l

(* The first position whose key is not below k: behind it come the equal   *)
(* keys that are already listed, so equal priorities leave in FIFO order.  *)
BugInsertPosLifo(l, key, k) ==
    CHOOSE i \in 1 .. Len(l) + 1 :
        /\ \A j \in 1 .. i - 1 : key[l[j]] <= k
        /\ i <= Len(l) => key[l[i]] > k

InsertPos(l, key, k) ==
    CHOOSE i \in 1 .. Len(l) + 1 :
        /\ \A j \in 1 .. i - 1 : key[l[j]] < k
        /\ i <= Len(l) => key[l[i]] >= k

insert(s, p) ==
    [s EXCEPT !.rdy = InsertAt(@, InsertPos(@, s.qkey, s.pprio[p]), p),
              !.qkey = [@ EXCEPT ![p] = s.pprio[p]]]

ready(s, p) ==
    IF p \in 1 .. NPROC - 1
      THEN insert([s EXCEPT !.pstate = [@ EXCEPT ![p] = "PRREADY"]], p)
      ELSE s

getlast(s) ==
    LET p == s.rdy[Len(s.rdy)]
    IN [s EXCEPT !.currpid = p,
                 !.rdy = SubSeq(@, 1, Len(@) - 1),
                 !.qkey = [@ EXCEPT ![p] = 0],
                 !.pstate = [@ EXCEPT ![p] = "PRCURR"],
                 !.preempt = QUANTUM]

lastkey(s) == IF s.rdy = <<>> THEN -1 ELSE s.qkey[s.rdy[Len(s.rdy)]]

(* Faulty variants of operators of this module, named Bug..., stand before *)
(* the operator they vary: the properties have to reject each of them.     *)
BugReschedStrict(s) ==
    IF s.pstate[s.currpid] # "PRCURR" THEN getlast(s)
    ELSE IF lastkey(s) <= s.pprio[s.currpid] THEN s
    ELSE getlast(insert([s EXCEPT !.pstate = [@ EXCEPT ![s.currpid] = "PRREADY"]],
                        s.currpid))

resched(s) ==
    IF s.pstate[s.currpid] # "PRCURR" THEN getlast(s)
    ELSE IF lastkey(s) < s.pprio[s.currpid] THEN s
    ELSE getlast(insert([s EXCEPT !.pstate = [@ EXCEPT ![s.currpid] = "PRREADY"]],
                        s.currpid))

(* unsleep.c: take p off the delta list, its remaining delay passing to its *)
(* successor, and point sltop at the new first entry.                       *)
BugUnsleepNoDelta(s, p) ==
    LET l == dequeue(s.clockq, p)
    IN [s EXCEPT !.clockq = l,
                 !.qkey = [@ EXCEPT ![p] = 0],
                 !.slnempty = @ /\ l # <<>>,
                 !.sltop = IF l # <<>> THEN l[1] ELSE @]

unsleep(s, p) ==
    LET i == IndexOf(s.clockq, p)
        l == dequeue(s.clockq, p)
        keys == IF i < Len(s.clockq)
                  THEN [s.qkey EXCEPT ![s.clockq[i + 1]] = @ + s.qkey[p]]
                  ELSE s.qkey
    IN [s EXCEPT !.clockq = l,
                 !.qkey = [keys EXCEPT ![p] = 0],
                 !.slnempty = @ /\ l # <<>>,
                 !.sltop = IF l # <<>> THEN l[1] ELSE @]

-----------------------------------------------------------------------------
(* nulluser() has initialised the tables, created main and resumed it.       *)

Init ==
    /\ load \in Workloads
    /\ pstate = [p \in Pid |-> IF p = NULLPROC THEN "PRREADY"
                               ELSE IF p = NPROC - 1 THEN "PRCURR" ELSE "PRFREE"]
    /\ pprio \in {[p \in Pid |-> IF p = NPROC - 1 THEN k ELSE 0] :
                     k \in {i \in load.prios : i >= 1}}
    /\ psem = [p \in Pid |-> 0]
    /\ pmsg = [p \in Pid |-> 0]
    /\ phasmsg = [p \in Pid |-> 0]
    /\ pnxtkin = [p \in Pid |-> BADPID]
    /\ currpid = NPROC - 1
    /\ nextproc = NPROC - 2
    /\ numproc = 1
    /\ rdy = <<NULLPROC>>
    /\ qkey = [p \in Pid |-> 0]
    /\ preempt = QUANTUM
    /\ clockq = <<>>
    /\ slnempty = FALSE
    /\ sltop = EMPTY
    /\ defclk = 0
    /\ clkdiff = 0
    /\ sstate = [s \in Sem |-> "SFREE"]
    /\ semcnt = [s \in Sem |-> 0]
    /\ squeue = [s \in Sem |-> <<>>]
    /\ nextsem = NSEM - 1
    /\ stkfree = load.stacks
    /\ cont = [p \in Pid |-> InUser]
    /\ due = [p \in Pid |-> 0]

(* The current process is in user code.  A call is made by a process other *)
(* than the null process; signal, signaln and send are also made by        *)
(* interrupt handlers, whatever process they interrupt.                    *)
Interruptible(call) == call \in load.calls /\ cont[currpid] = InUser
Call(call) == Interruptible(call) /\ currpid # NULLPROC
In(op) == cont[currpid].op = op
Goto(k) == cont' = [cont EXCEPT ![currpid] = k]

-----------------------------------------------------------------------------
(* create.c.  newpid() scans downwards from nextproc, cyclically.  A bad     *)
(* priority is found out only after the slot search and the stack            *)
(* allocation: nextproc has moved and the stack stays allocated.             *)

NewSlots == {k \in 0 .. NPROC - 1 : pstate[(nextproc - k) % NPROC] = "PRFREE"}
newpid == LET k == CHOOSE k \in NewSlots : \A j \in NewSlots : k <= j
          IN (nextproc - k) % NPROC

PrevSlot(pid) == (pid - 1) % NPROC

FillEntry(prio) ==
    LET pid == newpid
    IN /\ NewSlots # {} /\ prio >= 1
       /\ nextproc' = PrevSlot(pid)
       /\ numproc' = numproc + 1
       /\ pstate' = [pstate EXCEPT ![pid] = "PRSUSP"]
       /\ pprio' = [pprio EXCEPT ![pid] = prio]
       /\ psem' = [psem EXCEPT ![pid] = 0]
       /\ phasmsg' = [phasmsg EXCEPT ![pid] = 0]
       /\ UNCHANGED pmsg
       /\ pnxtkin' = [pnxtkin EXCEPT ![pid] = BADPID]
       /\ cont' = [cont EXCEPT ![pid] = InUser]

BugCreateFails(prio) ==
    /\ NewSlots = {} \/ prio < 1
    /\ nextproc' = IF NewSlots = {} THEN nextproc ELSE PrevSlot(newpid)
    /\ numproc' = numproc + 1
    /\ UNCHANGED <<pstate, procVars, cont>>

CreateFails(prio) ==
    /\ NewSlots = {} \/ prio < 1
    /\ nextproc' = IF NewSlots = {} THEN nextproc ELSE PrevSlot(newpid)
    /\ UNCHANGED <<numproc, pstate, procVars, cont>>

BugCreate(prio) ==
    /\ Call("create")
    /\ stkfree' = stkfree - 1
    /\ FillEntry(prio) \/ CreateFails(prio)
    /\ UNCHANGED <<currpid, rdy, qkey, preempt, clockq, slnempty, sltop,
                   deferVars, semVars, due>>

create(prio) ==
    /\ Call("create")
    /\ stkfree > 0
    /\ stkfree' = stkfree - 1
    /\ FillEntry(prio) \/ CreateFails(prio)
    /\ UNCHANGED <<currpid, rdy, qkey, preempt, clockq, slnempty, sltop,
                   deferVars, semVars, due>>

-----------------------------------------------------------------------------
(* kill.c.  The first half counts the process out and tells its next of kin, *)
(* which may reschedule; the second half frees the stack and takes the       *)
(* process off the list its state says it is on.  The devices of pdevs are   *)
(* BADDEV here: no close.  Bound: no kill once numproc is 0, when xdone()    *)
(* has reported the end of the system.                                       *)

(* send(pid, msg) as a function: the scheduler state after it *)
BugSendable(pid) == pid \in 1 .. NPROC - 1 /\ pstate[pid] # "PRFREE"

Sendable(pid) == /\ pid \in 1 .. NPROC - 1
                 /\ pstate[pid] # "PRFREE"
                 /\ phasmsg[pid] = 0

BugAfterSend(pid) ==
    IF pstate[pid] = "PRRECV" THEN resched(ready(Sched, pid)) ELSE Sched

AfterSend(pid) ==
    CASE pstate[pid] = "PRRECV" -> resched(ready(Sched, pid))
      [] pstate[pid] = "PRTRECV" -> resched(ready(unsleep(Sched, pid), pid))
      [] OTHER -> Sched

SendEffect(pid, msg) ==
    IF Sendable(pid)
      THEN /\ pmsg' = [pmsg EXCEPT ![pid] = msg]
           /\ phasmsg' = [phasmsg EXCEPT ![pid] = 1]
           /\ due' = IF pstate[pid] = "PRTRECV" THEN [due EXCEPT ![pid] = 0] ELSE due
           /\ SchedIs(AfterSend(pid))
      ELSE UNCHANGED <<msgVars, schedVars, due>>

kill(pid) ==
    /\ Call("kill")
    /\ pid # NULLPROC
    /\ pstate[pid] # "PRFREE"
    /\ numproc > 0
    /\ numproc' = numproc - 1
    /\ SendEffect(pnxtkin[pid], pid)
    /\ Goto(Kop("kill", pid, 0))
    /\ UNCHANGED <<pprio, psem, pnxtkin, nextproc, stkfree, deferVars, semVars>>

(* dequeue(pid) of a process on the ready list *)
RemoveReady(s, pid) == [s EXCEPT !.rdy = dequeue(@, pid),
                                 !.qkey = [@ EXCEPT ![pid] = 0]]

(* What unlinking does to the scheduler's lists, and to the semaphore *)
Freed(pid) == [Sched EXCEPT !.pstate = [@ EXCEPT ![pid] = "PRFREE"]]

UnlinkSched(pid) ==
    CASE pstate[pid] = "PRCURR" -> resched(Freed(pid))
      [] pstate[pid] = "PRREADY" -> RemoveReady(Freed(pid), pid)
      [] pstate[pid] \in Timed -> unsleep(Freed(pid), pid)
      [] OTHER -> Freed(pid)

BugUnlinkNoDequeue(pid) ==
    /\ semcnt' = IF pstate[pid] = "PRWAIT"
                   THEN [semcnt EXCEPT ![psem[pid]] = @ + 1] ELSE semcnt
    /\ UNCHANGED squeue

BugUnlinkNoCount(pid) ==
    /\ squeue' = IF pstate[pid] = "PRWAIT"
                   THEN [squeue EXCEPT ![psem[pid]] = dequeue(@, pid)] ELSE squeue
    /\ UNCHANGED semcnt

UnlinkSem(pid) ==
    IF pstate[pid] = "PRWAIT"
      THEN /\ semcnt' = [semcnt EXCEPT ![psem[pid]] = @ + 1]
           /\ squeue' = [squeue EXCEPT ![psem[pid]] = dequeue(@, pid)]
      ELSE UNCHANGED <<semcnt, squeue>>

killFinish ==
    LET pid == cont[currpid].a
    IN /\ In("kill")
       /\ stkfree' = stkfree + 1
       /\ SchedIs(UnlinkSched(pid))
       /\ UnlinkSem(pid)
       /\ due' = [due EXCEPT ![pid] = 0]
       /\ cont' = [cont EXCEPT ![currpid] = InUser, ![pid] = InUser]
       /\ UNCHANGED <<procVars, nextproc, numproc, deferVars, sstate, nextsem>>

setnok(nok, pid) ==
    /\ Call("setnok")
    /\ pid # NULLPROC
    /\ pnxtkin' = [pnxtkin EXCEPT ![pid] = nok]
    /\ UNCHANGED <<pprio, psem, msgVars, schedVars, allocVars, deferVars,
                   semVars, cont, due>>

-----------------------------------------------------------------------------
(* suspend.c, resume.c, chprio.c *)

Suspendable(pid) == pid # NULLPROC /\ pstate[pid] \in {"PRCURR", "PRREADY"}

suspend(pid) ==
    /\ Call("suspend")
    /\ Suspendable(pid)
    /\ LET s == [Sched EXCEPT !.pstate = [@ EXCEPT ![pid] = "PRSUSP"]]
       IN SchedIs(IF pstate[pid] = "PRREADY" THEN RemoveReady(s, pid) ELSE resched(s))
    /\ UNCHANGED <<procVars, allocVars, deferVars, semVars, cont, due>>

resume(pid) ==
    /\ Call("resume")
    /\ pid # NULLPROC
    /\ pstate[pid] = "PRSUSP"
    /\ SchedIs(resched(ready(Sched, pid)))
    /\ UNCHANGED <<procVars, allocVars, deferVars, semVars, cont, due>>

BugReprioritise(s, pid) ==
    IF s.pstate[pid] \in {"PRREADY", "PRCURR"} THEN resched(s) ELSE s

Reprioritise(s, pid) ==
    CASE s.pstate[pid] = "PRREADY" -> resched(insert([s EXCEPT !.rdy = dequeue(@, pid)], pid))
      [] s.pstate[pid] = "PRCURR" -> resched(s)
      [] OTHER -> s

chprio(pid, prio) ==
    /\ Call("chprio")
    /\ pid # NULLPROC /\ prio > 0
    /\ pstate[pid] # "PRFREE"
    /\ pprio' = [pprio EXCEPT ![pid] = prio]
    /\ SchedIs(Reprioritise([Sched EXCEPT !.pprio = [@ EXCEPT ![pid] = prio]], pid))
    /\ UNCHANGED <<psem, msgVars, pnxtkin, allocVars, deferVars, semVars, cont, due>>

-----------------------------------------------------------------------------
(* screate.c, sdelete.c, sreset.c, wait.c, signal.c, signaln.c *)

FreeSems == {k \in 0 .. NSEM - 1 : sstate[(nextsem - k) % NSEM] = "SFREE"}
newsem == LET k == CHOOSE k \in FreeSems : \A j \in FreeSems : k <= j
          IN (nextsem - k) % NSEM

screate(count) ==
    /\ Call("screate")
    /\ FreeSems # {}
    /\ sstate' = [sstate EXCEPT ![newsem] = "SUSED"]
    /\ semcnt' = [semcnt EXCEPT ![newsem] = count]
    /\ nextsem' = (newsem - 1) % NSEM
    /\ UNCHANGED <<procVars, schedVars, allocVars, deferVars, squeue, cont, due>>

wait(sem) ==
    /\ Call("wait")
    /\ sstate[sem] = "SUSED"
    /\ semcnt' = [semcnt EXCEPT ![sem] = @ - 1]
    /\ IF semcnt[sem] - 1 < 0
         THEN /\ psem' = [psem EXCEPT ![currpid] = sem]
              /\ squeue' = [squeue EXCEPT ![sem] = Append(@, currpid)]
              /\ SchedIs(resched([Sched EXCEPT !.pstate =
                                       [@ EXCEPT ![currpid] = "PRWAIT"]]))
         ELSE UNCHANGED <<psem, squeue, schedVars>>
    /\ UNCHANGED <<pprio, msgVars, pnxtkin, allocVars, deferVars, sstate, nextsem,
                   cont, due>>

(* One increment of the count: the scheduler state after it, the first      *)
(* waiter made ready with ready(getfirst(sqhead), RESCHNO).                 *)
Released(sem) == semcnt[sem] < 0 /\ squeue[sem] # <<>>
AfterRelease(sem) == IF Released(sem) THEN ready(Sched, Head(squeue[sem])) ELSE Sched

Increment(sem) ==
    /\ semcnt' = [semcnt EXCEPT ![sem] = @ + 1]
    /\ squeue' = [squeue EXCEPT ![sem] = IF Released(sem) THEN Tail(@) ELSE @]

signal(sem) ==
    /\ Interruptible("signal")
    /\ sstate[sem] = "SUSED"
    /\ semcnt[sem] < MaxCount
    /\ Increment(sem)
    /\ SchedIs(IF Released(sem) THEN resched(AfterRelease(sem)) ELSE Sched)
    /\ UNCHANGED <<procVars, allocVars, deferVars, sstate, nextsem, cont, due>>

signaln(sem, count) ==
    /\ Interruptible("signaln")
    /\ sstate[sem] = "SUSED" /\ count > 0
    /\ semcnt[sem] + count <= MaxCount
    /\ Goto(Kop("signaln", sem, count))
    /\ UNCHANGED <<procVars, schedVars, allocVars, deferVars, semVars, due>>

signalnLoop ==
    LET sem == cont[currpid].a
        n == cont[currpid].n
    IN /\ In("signaln")
       /\ IF n > 0
            THEN /\ Increment(sem)
                 /\ SchedIs(AfterRelease(sem))
                 /\ Goto(Kop("signaln", sem, n - 1))
            ELSE /\ SchedIs(resched(Sched))
                 /\ Goto(InUser)
                 /\ UNCHANGED <<semcnt, squeue>>
       /\ UNCHANGED <<procVars, allocVars, deferVars, sstate, nextsem, due>>

sdelete(sem) ==
    /\ Call("sdelete")
    /\ sstate[sem] = "SUSED"
    /\ sstate' = [sstate EXCEPT ![sem] = "SFREE"]
    /\ IF squeue[sem] # <<>> THEN Goto(Kop("sdelete", sem, 0)) ELSE UNCHANGED cont
    /\ UNCHANGED <<procVars, schedVars, allocVars, deferVars, semcnt, squeue,
                   nextsem, due>>

sreset(sem, count) ==
    /\ Call("sreset")
    /\ sstate[sem] = "SUSED"
    /\ Goto(Kop("sreset", sem, count))
    /\ UNCHANGED <<procVars, schedVars, allocVars, deferVars, semVars, due>>

(* The loop of sdelete and of sreset that releases every waiter *)
FlushOne(sem) ==
    /\ SchedIs(ready(Sched, Head(squeue[sem])))
    /\ squeue' = [squeue EXCEPT ![sem] = Tail(@)]
    /\ UNCHANGED <<semcnt, cont>>

flushLoop ==
    LET sem == cont[currpid].a
    IN /\ In("sdelete") \/ In("sreset")
       /\ IF squeue[sem] # <<>>
            THEN FlushOne(sem)
            ELSE /\ semcnt' = IF In("sreset")
                                THEN [semcnt EXCEPT ![sem] = cont[currpid].n]
                                ELSE semcnt
                 /\ SchedIs(resched(Sched))
                 /\ Goto(InUser)
                 /\ UNCHANGED squeue
       /\ UNCHANGED <<procVars, allocVars, deferVars, sstate, nextsem, due>>

-----------------------------------------------------------------------------
(* send.c, sendf.c, receive.c, recvclr.c, recvtim.c *)

send(pid, msg) ==
    /\ Interruptible("send")
    /\ Sendable(pid)
    /\ SendEffect(pid, msg)
    /\ UNCHANGED <<pprio, psem, pnxtkin, allocVars, deferVars, semVars, cont>>

sendf(pid, msg) ==
    /\ Call("sendf")
    /\ pid # NULLPROC
    /\ pstate[pid] # "PRFREE"
    /\ pmsg' = [pmsg EXCEPT ![pid] = msg]
    /\ phasmsg' = [phasmsg EXCEPT ![pid] = (@ + 1) % PHMOD]
    /\ SchedIs(IF pstate[pid] = "PRRECV" THEN resched(ready(Sched, pid)) ELSE Sched)
    /\ UNCHANGED <<pprio, psem, pnxtkin, allocVars, deferVars, semVars, cont, due>>

TakeMessage == phasmsg' = [phasmsg EXCEPT ![currpid] = 0]

receive ==
    /\ Call("receive")
    /\ IF phasmsg[currpid] # 0
         THEN TakeMessage /\ UNCHANGED <<schedVars, cont>>
         ELSE /\ SchedIs(resched([Sched EXCEPT !.pstate =
                                       [@ EXCEPT ![currpid] = "PRRECV"]]))
              /\ Goto(Kop("receive", 0, 0))
              /\ UNCHANGED phasmsg
    /\ UNCHANGED <<pprio, psem, pmsg, pnxtkin, allocVars, deferVars, semVars, due>>

recvclr ==
    /\ Call("recvclr")
    /\ phasmsg[currpid] # 0
    /\ TakeMessage
    /\ UNCHANGED <<pprio, psem, pmsg, pnxtkin, schedVars, allocVars, deferVars,
                   semVars, cont, due>>

recvtim(maxwait) ==
    /\ Call("recvtim")
    /\ IF phasmsg[currpid] # 0
         THEN TakeMessage /\ UNCHANGED <<cont, due>>
         ELSE /\ Goto(Kop("insertdR", 1, maxwait))
              /\ due' = [due EXCEPT ![currpid] = maxwait]
              /\ UNCHANGED phasmsg
    /\ UNCHANGED <<pprio, psem, pmsg, pnxtkin, schedVars, allocVars, deferVars,
                   semVars>>

(* Dispatched again after the wait: a message, or the timeout *)
receiveFinish ==
    /\ In("receive") \/ In("recvtim")
    /\ TakeMessage
    /\ Goto(InUser)
    /\ UNCHANGED <<pprio, psem, pmsg, pnxtkin, schedVars, allocVars, deferVars,
                   semVars, due>>

-----------------------------------------------------------------------------
(* sleep10.c and insertd.c.  The search of insertd is a loop over positions  *)
(* i of clockq that subtracts the keys it passes from the key k.             *)

sleep10(n) ==
    /\ Call("sleep10")
    /\ IF n = 0
         THEN SchedIs(resched(Sched)) /\ UNCHANGED <<cont, due>>
         ELSE /\ Goto(Kop("insertdS", 1, n))
              /\ due' = [due EXCEPT ![currpid] = n]
              /\ UNCHANGED schedVars
    /\ UNCHANGED <<procVars, allocVars, deferVars, semVars>>

BugDelta(s, i, k) ==
    [s EXCEPT !.clockq = InsertAt(@, i, s.currpid),
              !.qkey = [@ EXCEPT ![s.currpid] = k],
              !.slnempty = TRUE,
              !.sltop = IF i = 1 THEN s.currpid ELSE s.clockq[1]]

LinkDelta(s, i, k) ==
    LET keys == IF i <= Len(s.clockq)
                  THEN [s.qkey EXCEPT ![s.currpid] = k, ![s.clockq[i]] = @ - k]
                  ELSE [s.qkey EXCEPT ![s.currpid] = k]
    IN [s EXCEPT !.clockq = InsertAt(s.clockq, i, s.currpid),
                 !.qkey = keys,
                 !.slnempty = TRUE,
                 !.sltop = IF i = 1 THEN s.currpid ELSE s.clockq[1]]

insertdLoop ==
    LET c == cont[currpid]
        timed == IF c.op = "insertdS" THEN "PRSLEEP" ELSE "PRTRECV"
    IN /\ In("insertdS") \/ In("insertdR")
       /\ IF c.a <= Len(clockq) /\ qkey[clockq[c.a]] < c.n
            THEN /\ Goto(Kop(c.op, c.a + 1, c.n - qkey[clockq[c.a]]))
                 /\ UNCHANGED schedVars
            ELSE /\ SchedIs(resched([LinkDelta(Sched, c.a, c.n) EXCEPT
                                        !.pstate = [@ EXCEPT ![currpid] = timed]]))
                 /\ Goto(IF c.op = "insertdS" THEN InUser ELSE Kop("recvtim", 0, 0))
       /\ UNCHANGED <<procVars, allocVars, deferVars, semVars, due>>

-----------------------------------------------------------------------------
(* The clock interrupt, one action per tenth of a second, and wakeup.c.      *)
(* preempt is kept at PreemptMin below 0 and a key at KeyMin: both handlers  *)
(* only test the sign, or equality with 0 from above, of what is below.      *)

PreemptMin == -1
KeyMin == -2
AtLeast(low, n) == IF n < low THEN low ELSE n
TickedDue == [p \in Pid |-> AtLeast(0, due[p] - 1)]
TickedKeys == IF slnempty
                THEN [qkey EXCEPT ![sltop] = AtLeast(KeyMin, @ - 1)]
                ELSE qkey

(* sun350/clkint.s wakes the first sleeper when its key becomes negative,   *)
(* mio/clkinit.c when it becomes zero.                                      *)
Expired == /\ slnempty
           /\ IF load.board = "sun350" THEN TickedKeys[sltop] < 0
                                  ELSE TickedKeys[sltop] = 0
Deferred == load.board = "sun350" /\ defclk # 0

tick ==
    /\ Interruptible("tick")
    /\ due' = TickedDue
    /\ IF Deferred
         THEN /\ clkdiff < MaxDefer
              /\ clkdiff' = clkdiff + 1
              /\ UNCHANGED <<qkey, cont>>
         ELSE /\ qkey' = TickedKeys
              /\ Goto(IF Expired THEN Kop("wakeupC", 0, 0) ELSE Kop("clpreem", 0, 0))
              /\ UNCHANGED clkdiff
    /\ UNCHANGED <<procVars, pstate, currpid, rdy, preempt, clockq, slnempty, sltop,
                   allocVars, defclk, semVars>>

(* End of wakeup(): refresh slnempty and sltop, then resched *)
BugWakeupStaleTop == resched([Sched EXCEPT !.slnempty = clockq # <<>>])

AfterWakeup ==
    resched([Sched EXCEPT !.slnempty = clockq # <<>>,
                          !.sltop = IF clockq # <<>> THEN clockq[1] ELSE @])

BugExpiredHead == clockq # <<>> /\ qkey[clockq[1]] < 0
ExpiredHead == clockq # <<>> /\ qkey[clockq[1]] <= 0

WakeOne ==
    /\ SchedIs(ready([Sched EXCEPT !.clockq = Tail(@)], clockq[1]))
    /\ due' = [due EXCEPT ![clockq[1]] = 0]
    /\ UNCHANGED cont

wakeupLoop ==
    /\ In("wakeupC") \/ In("wakeupS")
    /\ IF ExpiredHead
         THEN WakeOne
         ELSE /\ SchedIs(AfterWakeup)
              /\ Goto(IF In("wakeupC") THEN Kop("clpreem", 0, 0)
                                      ELSE Kop("strtclk", 0, 0))
              /\ UNCHANGED due
    /\ UNCHANGED <<procVars, allocVars, deferVars, semVars>>

QuantumOver(n) == IF load.board = "sun350" THEN n < 0 ELSE n = 0

clpreem ==
    LET n == AtLeast(PreemptMin, preempt - 1)
        s == [Sched EXCEPT !.preempt = n]
        over == QuantumOver(preempt - 1)
    IN /\ In("clpreem")
       /\ SchedIs(IF over THEN resched(s) ELSE s)
       /\ Goto(InUser)
       /\ UNCHANGED <<procVars, allocVars, deferVars, semVars, due>>

-----------------------------------------------------------------------------
(* ssclock.c *)

stopclk ==
    /\ Call("stopclk")
    /\ defclk < MaxDefer
    /\ defclk' = defclk + 1
    /\ UNCHANGED <<procVars, schedVars, allocVars, clkdiff, semVars, cont, due>>

strtclk ==
    /\ Call("strtclk")
    /\ defclk > 0
    /\ defclk' = defclk - 1
    /\ IF defclk - 1 > 0
         THEN UNCHANGED <<preempt, clkdiff, cont>>
         ELSE /\ preempt' = AtLeast(PreemptMin, preempt - clkdiff)
              /\ clkdiff' = 0
              /\ Goto(IF slnempty THEN Kop("makeup", 1, clkdiff)
                                 ELSE Kop("strtclk", 0, 0))
    /\ UNCHANGED <<procVars, pstate, currpid, rdy, qkey, clockq, slnempty, sltop,
                   allocVars, semVars, due>>

makeupLoop ==
    LET i == cont[currpid].a
        m == cont[currpid].n
    IN /\ In("makeup")
       /\ IF i <= Len(clockq) /\ qkey[clockq[i]] < m
            THEN /\ qkey' = [qkey EXCEPT ![clockq[i]] = 0]
                 /\ Goto(Kop("makeup", i + 1, m - qkey[clockq[i]]))
            ELSE /\ qkey' = IF i <= Len(clockq)
                              THEN [qkey EXCEPT ![clockq[i]] = @ - m] ELSE qkey
                 /\ Goto(Kop("wakeupS", 0, 0))
       /\ UNCHANGED <<procVars, pstate, currpid, rdy, preempt, clockq, slnempty,
                      sltop, allocVars, deferVars, semVars, due>>

strtclkFinish ==
    /\ In("strtclk")
    /\ SchedIs(IF preempt <= 0 THEN resched(Sched) ELSE Sched)
    /\ Goto(InUser)
    /\ UNCHANGED <<procVars, allocVars, deferVars, semVars, due>>

-----------------------------------------------------------------------------
(* Every step of the current process inside the kernel *)
KernelStep ==
    \/ killFinish \/ signalnLoop \/ flushLoop \/ receiveFinish \/ insertdLoop
    \/ wakeupLoop \/ clpreem \/ makeupLoop \/ strtclkFinish

ProcessCall ==
    \/ \E prio \in load.prios : create(prio)
    \/ \E pid \in Pid : kill(pid) \/ suspend(pid) \/ resume(pid)
    \/ \E pid \in Pid, prio \in load.prios : chprio(pid, prio)
    \/ \E pid \in Pid, nok \in load.kin : setnok(nok, pid)

SemaphoreCall ==
    \/ \E n \in Counts : screate(n)
    \/ \E sem \in Sem : wait(sem) \/ signal(sem) \/ sdelete(sem)
    \/ \E sem \in Sem, n \in Counts : signaln(sem, n) \/ sreset(sem, n)

MessageCall ==
    \/ \E pid \in Pid, m \in load.msgs : send(pid, m) \/ sendf(pid, m)
    \/ receive \/ recvclr
    \/ \E n \in load.delays : recvtim(n)

ClockCall ==
    \/ \E n \in load.delays : sleep10(n)
    \/ tick \/ stopclk \/ strtclk

Next == /\ KernelStep \/ ProcessCall \/ SemaphoreCall \/ MessageCall \/ ClockCall
        /\ UNCHANGED load

Spec == Init /\ [][Next]_vars

(* Kernel code runs to completion, and the clock keeps interrupting: the     *)
(* device raises an interrupt 100 times a second for ever, so among          *)
(* infinitely many moments with interrupts enabled some see a tick.          *)
FairSpec == /\ Spec
            /\ WF_vars(KernelStep /\ UNCHANGED load)
            /\ SF_vars(tick /\ UNCHANGED load)

-----------------------------------------------------------------------------
(* Properties *)

KopType == [op : ParkedOps \cup LoopOps, a : Int, n : Int]

(* Types of the process table, the lists, the semaphore table and the clock *)
(* variables.                                                               *)
TypeOK ==
    /\ pstate \in [Pid -> States]
    /\ pprio \in [Pid -> Int] /\ psem \in [Pid -> Sem]
    /\ pmsg \in [Pid -> Int] /\ phasmsg \in [Pid -> Int]
    /\ pnxtkin \in [Pid -> Int]
    /\ currpid \in Pid /\ nextproc \in Pid /\ numproc \in Int
    /\ rdy \in Seq(Pid) /\ qkey \in [Pid -> Int] /\ preempt \in Int
    /\ clockq \in Seq(Pid) /\ slnempty \in BOOLEAN /\ sltop \in Pid \cup {EMPTY}
    /\ defclk \in Nat /\ clkdiff \in Nat
    /\ sstate \in [Sem -> {"SFREE", "SUSED"}]
    /\ semcnt \in [Sem -> Int] /\ squeue \in [Sem -> Seq(Pid)]
    /\ nextsem \in Sem /\ stkfree \in Nat
    /\ cont \in [Pid -> KopType] /\ due \in [Pid -> Int]

NoDup(l) == \A i, j \in 1 .. Len(l) : i # j => l[i] # l[j]

(* The null process is "always eligible to run" (proc.h).                    *)
NullAlwaysEligible == pstate[NULLPROC] \in {"PRREADY", "PRCURR"}

(* A process is on exactly the list its pstate says it is on, once: ready    *)
(* list, delta list or the queue of the semaphore in psem; the current       *)
(* process is the only one marked PRCURR.  kill, suspend, chprio and unsleep *)
(* unlink a process knowing only its state, so this is what keeps them from  *)
(* corrupting the shared q[] table.  And the null process is always running  *)
(* or ready, so getlast in resched never finds the ready list empty.         *)
ListsMatchStates ==
    /\ \A p \in Pid :
         /\ OnList(rdy, p) <=> pstate[p] = "PRREADY"
         /\ OnList(clockq, p) <=> pstate[p] \in Timed
         /\ \A s \in Sem : OnList(squeue[s], p) <=> pstate[p] = "PRWAIT" /\ psem[p] = s
         /\ p = currpid <=> pstate[p] = "PRCURR"
    /\ NoDup(rdy) /\ NoDup(clockq) /\ \A s \in Sem : NoDup(squeue[s])
    /\ NullAlwaysEligible

Busy(sem) == cont[currpid].op \in {"sdelete", "sreset"} /\ cont[currpid].a = sem

(* Outside sdelete and sreset, a semaphore whose count is -n has exactly n   *)
(* waiters and one whose count is not negative has none; a free table slot   *)
(* has no waiter left behind.                                                *)
SemCountMatchesQueue ==
    \A s \in Sem : ~ Busy(s) =>
        IF sstate[s] = "SFREE" \/ semcnt[s] >= 0
          THEN squeue[s] = <<>> ELSE Len(squeue[s]) = - semcnt[s]

(* Whenever user code runs, no ready process has a higher priority than the  *)
(* running one: every path that readies a process or changes a priority also *)
(* reaches resched().                                                        *)
HighestPriorityRuns ==
    cont[currpid] = InUser =>
        \A p \in Pid : pstate[p] = "PRREADY" => pprio[p] <= pprio[currpid]

(* A ready process of the running one's priority is never left without an    *)
(* armed preemption counter, although the mio handler tests --preempt == 0   *)
(* and a counter that has passed zero never fires again.                     *)
PreemptionArmed ==
    (cont[currpid] = InUser /\ \E p \in Pid : pstate[p] = "PRREADY"
                                         /\ pprio[p] = pprio[currpid])
        => preempt > PreemptMin /\ (load.board = "mio" => preempt > 0)

(* Whenever user code runs, the two variables the clock handler uses         *)
(* describe the delta list: slnempty says whether there is an entry and      *)
(* sltop points at the key of the first one.                                 *)
ClockHandlerView ==
    cont[currpid] = InUser =>
        /\ slnempty <=> clockq # <<>>
        /\ clockq # <<>> => sltop = clockq[1]

(* numproc is the "number of live user processes" (initialize.c), corrected  *)
(* for the deaths kill has counted but not yet carried out.                  *)
Live == {p \in Pid \ {NULLPROC} : pstate[p] # "PRFREE"}
Killers == {p \in Pid : cont[p].op = "kill"}
NumprocCountsLive == numproc = Cardinality(Live) - Cardinality(Killers)
StackFreedOnce == stkfree + Cardinality(Live) <= load.stacks + 1

(* Without a next of kin - whose message makes kill reschedule in its middle *)
(* (kill.c:31-40) - every death is counted once, and no stack is freed twice: *)
(* free stacks and stacks of live processes never exceed what there is (one  *)
(* stack belongs to main, which Init has created).                           *)
DeathAccounted == "setnok" \notin load.calls => NumprocCountsLive /\ StackFreedOnce

(* A process blocked in receive has no message waiting, and one blocked in     *)
(* recvtim has none unless sendf, which does not wake it, has been used.       *)
BlockedMeansNoMessage ==
    \A p \in Pid :
        \/ pstate[p] = "PRRECV"
        \/ pstate[p] = "PRTRECV" /\ "sendf" \notin load.calls
        => phasmsg[p] = 0

(* A message, once accepted, stays in pmsg unchanged until its receiver      *)
(* takes it or the slot is given to a new process.                           *)
MessageKept ==
    [][\A p \in Pid : phasmsg[p] # 0 /\ p # currpid /\ pstate[p] # "PRFREE"
                      /\ "sendf" \notin load.calls
                         => phasmsg'[p] # 0 /\ pmsg'[p] = pmsg[p]]_vars

(* sleep10(n) and the timeout of recvtim(n) end after at least n clock       *)
(* ticks, whatever other processes enter, leave or are killed off the delta  *)
(* list in between ("delay the caller for a time specified in tenths of      *)
(* seconds", sleep10.c).                                                     *)
NoEarlyWakeup ==
    [][\A p \in Pid :
          pstate[p] \in Timed /\ pstate'[p] \in {"PRREADY", "PRCURR"} /\ phasmsg'[p] = 0
             /\ "stopclk" \notin load.calls => due[p] = 0]_vars

(* On the mio board the delta list is exact: after every call and every tick *)
(* the key of a timed waiter is what it still has to wait longer than the    *)
(* waiter before it, whatever was inserted before it, woken, or taken out of *)
(* the middle by a message (insertd.c, unsleep.c, wakeup.c).  A delay of 0   *)
(* never ends on that board: its key is never again 0 after a tick.          *)
DeltaListExact ==
    (load.board = "mio" /\ 0 \notin load.delays /\ cont[currpid] = InUser) =>
        \A i \in 1 .. Len(clockq) :
            due[clockq[i]] = qkey[clockq[i]] + IF i = 1 THEN 0 ELSE due[clockq[i - 1]]

(* Round robin: a ready process does not wait for ever behind processes of   *)
(* the same priority.                                                        *)
ReadyEventuallyRuns ==
    \A p \in Pid \ {NULLPROC} : pstate[p] = "PRREADY" ~> pstate[p] # "PRREADY"

(* A sleeping or timed-receiving process is eventually woken.                *)
TimedWaitEnds == \A p \in Pid : pstate[p] \in Timed ~> pstate[p] \notin Timed
=============================================================================
