--------------------------------- MODULE Spool ---------------------------------
(***************************************************************************)
(* The data structures of the print spooler (xinu/apps/common/spooler.c    *)
(* and include/spooler.h): jobs (SPL_QJOBS) on a free and on an active     *)
(* list, and data nodes (SPL_DNODE) on a free list or linked to the job    *)
(* whose text they hold.  The lists are linked as in the code, because the *)
(* code changes links outside of its semaphores.                           *)
(*                                                                         *)
(* A spooler is a record s.  Node 0 is what a null pointer points to: code *)
(* that follows one and writes there shows as a change of node 0.  A byte  *)
(* is a pair of its file and its place there.                              *)
(***************************************************************************)
EXTENDS Integers, Sequences, FiniteSets, FiniteSetsExt, SequencesExt

CONSTANTS NumDnodes, NumQjobs,  \* SPL_NUMDNODES, SPL_NUMQJOBS
          SzData,               \* SPL_SZDATA, in bytes
          MaxJobid              \* 10000: where the sequence starts again

ASSUME SpoolAssumption ==
    /\ NumDnodes \in Nat \ {0} /\ NumQjobs \in Nat \ {0} /\ SzData \in Nat \ {0}
    /\ MaxJobid \in Nat /\ MaxJobid > NumQjobs + 1

Dnode == 1 .. NumDnodes
Qjob == 1 .. NumQjobs

FreeDnode == [status |-> {}, jobid |-> 0, link |-> 0, buf |-> <<>>]
FreeQjob == [jobid |-> 0, uname |-> "", hostip |-> 0, iptr |-> 0, fillp |-> 0,
             flink |-> 0, blink |-> 0]

spool_init ==
    [dn |-> [d \in {0} \union Dnode |->
                 IF d \in 1 .. NumDnodes - 1 THEN [FreeDnode EXCEPT !.link = d + 1]
                 ELSE FreeDnode],
     job |-> [q \in {0} \union Qjob |->
                 [FreeQjob EXCEPT !.flink = IF q \in 1 .. NumQjobs - 1 THEN q + 1 ELSE 0,
                                  !.blink = IF q = 0 THEN 0 ELSE q - 1]],
     dnode_start |-> 1, dnode_end |-> NumDnodes,
     qjfree_start |-> 1, qjfree_end |-> NumQjobs,
     qjactive_start |-> 0, qjactive_end |-> 0,
     bytesusd |-> 0, sequence |-> 1]

-----------------------------------------------------------------------------
(* Jobs.  spool_connect takes one from the free list, puts it at the end of *)
(* the active list and only then gives its fields their first values.       *)

TakeQjob(s) ==
    LET rest == s.job[s.qjfree_start].flink
    IN [s EXCEPT !.qjfree_start = rest,
                 !.job[rest].blink = IF rest # 0 THEN 0 ELSE @]

AppendQjob(s, q) ==
    IF s.qjactive_start = 0
    THEN [s EXCEPT !.qjactive_start = q, !.qjactive_end = q, !.job[q].blink = 0]
    ELSE [s EXCEPT !.job[s.qjactive_end].flink = q, !.qjactive_end = q,
                   !.job[q].blink = s.qjactive_end]

StartQjob(s, q) ==
    [s EXCEPT !.job[q] = [FreeQjob EXCEPT !.jobid = s.sequence, !.blink = s.job[q].blink],
              !.sequence = IF @ + 1 = MaxJobid THEN 1 ELSE @ + 1]

(* spool_retqjob: off the active list, and then to the end of the free list *)
UnlinkQjob(s, q) ==
    LET next == s.job[q].flink
        prev == s.job[q].blink
    IN CASE s.qjactive_start = q ->
              [s EXCEPT !.qjactive_start = next,
                        !.job[next].blink = IF next # 0 THEN 0 ELSE @]
         [] s.qjactive_start # q /\ s.qjactive_end = q ->
              [s EXCEPT !.job[prev].flink = 0, !.qjactive_end = prev]
         [] OTHER ->
              [s EXCEPT !.job[prev].flink = next, !.job[next].blink = prev]

FreeTheQjob(s, q) ==
    LET last == IF s.qjfree_start = 0 THEN 0 ELSE s.qjfree_end
    IN [s EXCEPT !.job[q] = [@ EXCEPT !.jobid = 0, !.iptr = 0, !.fillp = 0,
                                      !.flink = 0, !.blink = last],
                 !.job[last].flink = IF last # 0 THEN q ELSE @,
                 !.qjfree_start = IF last = 0 THEN q ELSE @,
                 !.qjfree_end = q]

(* The calls that name the job check that it is still the caller's. *)
spool_username(s, q, key, uname) ==
    IF s.job[q].jobid = key THEN [s EXCEPT !.job[q].uname = uname] ELSE s

spool_hostip(s, q, key, ip) ==
    IF s.job[q].jobid = key THEN [s EXCEPT !.job[q].hostip = ip] ELSE s

spool_disconnect(s, q, key) ==
    IF s.job[q].jobid = key
    THEN [s EXCEPT !.dn[s.job[q].fillp].status = @ \union {"END"}]
    ELSE s

-----------------------------------------------------------------------------
(* Data nodes. *)

(* spool_getdnode, once it may have the first free node *)
TakeDnode(s, key) ==
    LET d == s.dnode_start
    IN [s EXCEPT !.dnode_start = s.dn[d].link,
                 !.dn[d] = [FreeDnode EXCEPT !.status = {"USED"}, !.jobid = key],
                 !.bytesusd = @ + SzData]

BugRetdnode(s, d) ==
    LET t == [s EXCEPT !.dn[d] = FreeDnode, !.bytesusd = @ - SzData]
    IN IF s.dnode_start = 0 THEN [t EXCEPT !.dnode_start = d]
       ELSE [t EXCEPT !.dn[s.dnode_end].link = d, !.dnode_end = d]

(* The node is cleared before the semaphore of the list is taken, but while  *)
(* its caller waits for that nobody looks at the node.                       *)
spool_retdnode(s, d) ==
    LET t == [s EXCEPT !.dn[d] = FreeDnode, !.dnode_end = d, !.bytesusd = @ - SzData]
    IN IF s.dnode_start = 0 THEN [t EXCEPT !.dnode_start = d]
       ELSE [t EXCEPT !.dn[s.dnode_end].link = d]

(* The last free node is kept for the first job while that job is filled.   *)
(* Of a job that has no node yet the status is read through a null pointer: *)
(* atnull says if what stands there looks like an END.                       *)
BugLastForAnother(s, key, atnull) == FALSE
LastForAnother(s, key, atnull) ==
    LET first == s.job[s.qjactive_start]
        ended == IF first.fillp = 0 THEN atnull ELSE "END" \in s.dn[first.fillp].status
    IN s.dn[s.dnode_start].link = 0 /\ ~ ended /\ first.jobid # key

(* spool_write links a node behind the one it has filled, *)
BugLinkDnode(s, q, full, d) ==
    IF full = 0
    THEN [s EXCEPT !.job[q].iptr = d, !.job[q].fillp = d,
                   !.dn[d].status = @ \union {"BEG"}]
    ELSE [s EXCEPT !.dn[full].link = d]

LinkDnode(s, q, full, d) ==
    IF full = 0
    THEN [s EXCEPT !.job[q].iptr = d, !.job[q].fillp = d,
                   !.dn[d].status = @ \union {"BEG"}]
    ELSE [s EXCEPT !.dn[full].link = d, !.job[q].fillp = d]

(* and copies into it what there is room for. *)
Room(s, d) == SzData - Len(s.dn[d].buf)

CopyInto(s, d, bytes) ==
    LET n == IF Len(bytes) > Room(s, d) THEN Room(s, d) ELSE Len(bytes)
    IN [s EXCEPT !.dn[d].buf = @ \o SubSeq(bytes, 1, n),
                 !.dn[d].status = IF n = Room(s, d) THEN @ \union {"FULL"} ELSE @]

NotCopied(s, d, bytes) == SubSeq(bytes, Room(s, d) + 1, Len(bytes))

-----------------------------------------------------------------------------
(* What is reached from where, for the properties; a list that runs in a    *)
(* circle is cut.                                                           *)

RECURSIVE DnodesFrom(_, _, _), QjobsFrom(_, _, _)
DnodesFrom(s, d, n) ==
    IF d = 0 \/ n = 0 THEN <<>> ELSE <<d>> \o DnodesFrom(s, s.dn[d].link, n - 1)
QjobsFrom(s, q, n) ==
    IF q = 0 \/ n = 0 THEN <<>> ELSE <<q>> \o QjobsFrom(s, s.job[q].flink, n - 1)

FreeDnodes(s) == DnodesFrom(s, s.dnode_start, NumDnodes + 1)
DnodesOf(s, q) == DnodesFrom(s, s.job[q].iptr, NumDnodes + 1)
FreeQjobs(s) == QjobsFrom(s, s.qjfree_start, NumQjobs + 1)
ActiveQjobs(s) == QjobsFrom(s, s.qjactive_start, NumQjobs + 1)
=============================================================================
