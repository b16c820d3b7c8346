-------------------------------- MODULE Spooler --------------------------------
(***************************************************************************)
(* The calls of the print spooler (xinu/apps/common/spooler.c) and the     *)
(* despooler (despool.c), over the structures of module Spool.             *)
(*                                                                         *)
(* A call is a frame, and its steps are what it does between two waits and *)
(* between two semaphore operations.  qjfree_sem and busd_sem are held over *)
(* no wait: what they protect is part of a step.  spl_dnode_sem is held     *)
(* while spl_qjact_sem is waited for, and the other way round, so these two *)
(* have a holder.  All users and the despooler have the same priority:      *)
(* unless the workload lets the clock switch between them (preempt), a      *)
(* process runs until it waits.                                             *)
(***************************************************************************)
EXTENDS Spool

CONSTANTS SpoolUser, Despooler, Nobody, SpoolLoads

VARIABLES spl,     \* the structures
          call,    \* the call each user is in
          desp,    \* the despooler
          dnode_sem, qjact_sem,  \* who holds them
          running, \* who is in the middle of something
          paper,   \* history: what was printed
          spload   \* the workload

spoolVars == <<spl, call, desp, dnode_sem, qjact_sem, running, paper, spload>>

Nothing == [which |-> "", word |-> "", uname |-> "", host |-> 0, next |-> 0]

Frame == [pc |-> "idle", q |-> 0, key |-> 0, d |-> 0, full |-> 0, rest |-> <<>>,
          ok |-> TRUE, rm |-> Nothing]

SpoolInit ==
    /\ spl = spool_init
    /\ call = [p \in SpoolUser |-> Frame]
    /\ desp = [pc |-> "poll", q |-> 0, d |-> 0, next |-> 0, eof |-> FALSE, text |-> <<>>]
    /\ dnode_sem = Nobody /\ qjact_sem = Nobody /\ running = Nobody
    /\ paper = <<>>
    /\ spload \in SpoolLoads

-----------------------------------------------------------------------------
(* Who runs. *)

Waits(p) ==
    LET pc == IF p = Despooler THEN desp.pc ELSE call[p].pc
    IN \/ pc \in {"append", "reserve", "lprm", "unlink"} /\ qjact_sem # Nobody
       \/ pc \in {"get", "giveback", "free", "drop", "give"} /\ dnode_sem # Nobody
       \/ pc = "get" /\ spl.dnode_start = 0

Runs(p) ==
    /\ running \notin {Nobody, p} /\ ~ spload.preempt => Waits(running)
    /\ ~ Waits(p)

Goes(p, f) ==
    /\ call' = [call EXCEPT ![p] = f]
    /\ running' = IF f.pc = "idle" THEN Nobody ELSE p

Returns(p, ok) == Goes(p, [call[p] EXCEPT !.pc = "idle", !.ok = ok])

(* A user begins a call; the first step of it follows. *)
Calls(p, f) == call[p].pc = "idle" /\ Goes(p, f)
Connects == [Frame EXCEPT !.pc = "take"]
Writes(q, key, bytes) ==
    [Frame EXCEPT !.pc = "write", !.q = q, !.key = key, !.rest = bytes]
Removes(which, word, uname, host) ==
    [Frame EXCEPT !.pc = "lprm",
                  !.rm = [which |-> which, word |-> word, uname |-> uname,
                          host |-> host, next |-> 0]]

-----------------------------------------------------------------------------
(* spool_connect *)

ConnectTake(p) ==
    /\ call[p].pc = "take" /\ Runs(p)
    /\ IF spl.qjfree_start = 0
       THEN Returns(p, FALSE) /\ UNCHANGED spl
       ELSE /\ spl' = TakeQjob(spl)
            /\ Goes(p, [call[p] EXCEPT !.pc = "append", !.q = spl.qjfree_start])
    /\ UNCHANGED <<desp, dnode_sem, qjact_sem, paper, spload>>

(* A job that is put behind one whose first values are still to be set drops *)
(* off the list when they are, for the link is one of them, and is never      *)
(* seen again.  Unless the workload says so (crowd), the clock does not let   *)
(* another client in between.                                                *)
Starting(q) == \E p \in SpoolUser : call[p].pc = "start" /\ call[p].q = q

ConnectAppend(p) ==
    /\ call[p].pc = "append" /\ Runs(p)
    /\ spload.crowd \/ ~ \E q \in Qjob : Starting(q)
    /\ spl' = AppendQjob(spl, call[p].q)
    /\ Goes(p, [call[p] EXCEPT !.pc = "start"])
    /\ UNCHANGED <<desp, dnode_sem, qjact_sem, paper, spload>>

ConnectStart(p) ==
    /\ call[p].pc = "start" /\ Runs(p)
    /\ spl' = StartQjob(spl, call[p].q)
    /\ Goes(p, [call[p] EXCEPT !.pc = "idle", !.key = spl.sequence])
    /\ UNCHANGED <<desp, dnode_sem, qjact_sem, paper, spload>>

-----------------------------------------------------------------------------
(* spool_write *)

(* Copies into node d of structure s, and asks for another node if there is *)
(* something left.                                                           *)
Copies(p, s, d) ==
    LET rest == NotCopied(s, d, call[p].rest)
    IN /\ spl' = CopyInto(s, d, call[p].rest)
       /\ Goes(p, [call[p] EXCEPT !.pc = IF rest = <<>> THEN "idle" ELSE "get",
                                  !.rest = rest, !.full = d, !.ok = TRUE])

StillMine(p) == spl.job[call[p].q].jobid = call[p].key

(* The node being filled has to be in use, of this job, and the last one. *)
FillingIsSound(p, d) ==
    /\ "USED" \in spl.dn[d].status
    /\ spl.dn[d].jobid = call[p].key
    /\ spl.dn[d].link = 0

SpoolWrite(p) ==
    /\ call[p].pc = "write" /\ Runs(p)
    /\ LET job == spl.job[call[p].q]
           d == job.fillp
           asks(full) == Goes(p, [call[p] EXCEPT !.pc = "get", !.full = full]) /\ UNCHANGED spl
       IN IF ~ StillMine(p) \/ (job.iptr # 0 /\ ~ FillingIsSound(p, d))
          THEN Returns(p, FALSE) /\ UNCHANGED spl
          ELSE CASE job.iptr = 0 -> asks(0)
                 [] job.iptr # 0 /\ "FULL" \in spl.dn[d].status -> asks(d)
                 [] OTHER -> Copies(p, spl, d)
    /\ UNCHANGED <<desp, dnode_sem, qjact_sem, paper, spload>>

(* spool_getdnode: the last free node may have to be left to another job. *)
GetDnode(p) ==
    /\ call[p].pc = "get" /\ Runs(p)
    /\ IF spl.dn[spl.dnode_start].link = 0
       THEN /\ dnode_sem' = p
            /\ Goes(p, [call[p] EXCEPT !.pc = "reserve"])
            /\ UNCHANGED spl
       ELSE /\ spl' = TakeDnode(spl, call[p].key)
            /\ Goes(p, [call[p] EXCEPT !.pc = "link", !.d = spl.dnode_start])
            /\ UNCHANGED dnode_sem
    /\ UNCHANGED <<desp, qjact_sem, paper, spload>>

GetLastDnode(p) ==
    /\ call[p].pc = "reserve" /\ Runs(p)
    /\ dnode_sem' = Nobody
    /\ IF LastForAnother(spl, call[p].key, spload.atnull)
       THEN /\ call' = [call EXCEPT ![p].pc = "get"]
            /\ running' = Nobody
            /\ UNCHANGED spl
       ELSE /\ spl' = TakeDnode(spl, call[p].key)
            /\ Goes(p, [call[p] EXCEPT !.pc = "link", !.d = spl.dnode_start])
    /\ UNCHANGED <<desp, qjact_sem, paper, spload>>

(* The job may have gone while the call waited for the node. *)
Link(p) ==
    /\ call[p].pc = "link" /\ Runs(p)
    /\ IF StillMine(p)
       THEN Copies(p, LinkDnode(spl, call[p].q, call[p].full, call[p].d), call[p].d)
       ELSE Goes(p, [call[p] EXCEPT !.pc = "giveback"]) /\ UNCHANGED spl
    /\ UNCHANGED <<desp, dnode_sem, qjact_sem, paper, spload>>

GiveBack(p) ==
    /\ call[p].pc = "giveback" /\ Runs(p)
    /\ spl' = spool_retdnode(spl, call[p].d)
    /\ Returns(p, FALSE)
    /\ UNCHANGED <<desp, dnode_sem, qjact_sem, paper, spload>>

-----------------------------------------------------------------------------
(* spool_lprm with its three cases: the job being printed, the jobs of a    *)
(* user or (-all) of a host, and the job with a number.  Only the host a    *)
(* job came from may remove it, and there only its user or root.            *)

Wanted(rm, q) ==
    CASE rm.which \in {"active", "all"} -> TRUE
      [] rm.which = "user" -> spl.job[q].uname = rm.word
      [] rm.which = "job" -> spl.job[q].jobid = rm.word

Permitted(rm, q) ==
    /\ spl.job[q].hostip = rm.host
    /\ rm.which = "all" \/ rm.uname \in {"root", spl.job[q].uname}

(* All but the job being printed go back at once, with their nodes; of that *)
(* one the despooler keeps the first node, which becomes its last.          *)
RemoveQjob(s, q) ==
    IF q = s.qjactive_start THEN [s EXCEPT !.dn[s.job[q].iptr].status = @ \union {"END"}]
    ELSE FreeTheQjob(UnlinkQjob(s, q), q)

LprmBegin(p) ==
    /\ call[p].pc = "lprm" /\ Runs(p)
    /\ qjact_sem' = p
    /\ Goes(p, [call[p] EXCEPT !.pc = "find", !.q = spl.qjactive_start])
    /\ UNCHANGED <<spl, desp, dnode_sem, paper, spload>>

LprmFind(p) ==
    /\ call[p].pc = "find" /\ Runs(p)
    /\ LET q == call[p].q
           rm == call[p].rm
           all == rm.which \in {"user", "all"}
           next == spl.job[q].flink
           first == spl.job[q].iptr
       IN CASE q = 0 \/ (Wanted(rm, q) /\ ~ Permitted(rm, q) /\ ~ all) ->
                 /\ Returns(p, TRUE)
                 /\ qjact_sem' = Nobody
                 /\ UNCHANGED spl
            [] q # 0 /\ Wanted(rm, q) /\ Permitted(rm, q) ->
                 /\ spl' = RemoveQjob(spl, q)
                 /\ Goes(p, [call[p] EXCEPT !.pc = "free", !.rm.next = IF all THEN next ELSE 0,
                                !.d = IF q = spl.qjactive_start THEN spl.dn[first].link
                                      ELSE first])
                 /\ UNCHANGED qjact_sem
            [] OTHER ->
                 /\ Goes(p, [call[p] EXCEPT !.q = next])
                 /\ UNCHANGED <<spl, qjact_sem>>
    /\ UNCHANGED <<desp, dnode_sem, paper, spload>>

LprmFree(p) ==
    /\ call[p].pc = "free" /\ Runs(p)
    /\ IF call[p].d = 0
       THEN /\ Goes(p, [call[p] EXCEPT !.pc = "find", !.q = call[p].rm.next])
            /\ UNCHANGED spl
       ELSE /\ spl' = spool_retdnode(spl, call[p].d)
            /\ Goes(p, [call[p] EXCEPT !.d = spl.dn[call[p].d].link])
    /\ UNCHANGED <<desp, dnode_sem, qjact_sem, paper, spload>>

-----------------------------------------------------------------------------
(* despool_d *)

Continues(d) ==
    /\ desp' = d
    /\ running' = IF d.pc \in {"poll", "first", "look", "print"} THEN Nobody ELSE Despooler

(* After 30 seconds without a node, or with one that does not fill up, the  *)
(* job is given up.                                                         *)
Expires == spload.slow

DespoolPoll ==
    /\ desp.pc = "poll" /\ Runs(Despooler) /\ qjact_sem = Nobody
    /\ spl.qjactive_start # 0
    /\ Continues([desp EXCEPT !.pc = "first", !.q = spl.qjactive_start])
    /\ UNCHANGED <<spl, call, dnode_sem, qjact_sem, paper, spload>>

DespoolFirst ==
    /\ desp.pc = "first" /\ Runs(Despooler)
    /\ LET d == spl.job[desp.q].iptr
       IN \/ d # 0 /\ Continues([desp EXCEPT !.pc = "look", !.d = d])
          \/ d = 0 /\ Expires /\ Continues([desp EXCEPT !.pc = "unlink"])
    /\ UNCHANGED <<spl, call, dnode_sem, qjact_sem, paper, spload>>

(* A node that is full is printed although the next is not linked to it     *)
(* yet.  Unless the workload says so (tight), the writer gets there before  *)
(* the despooler looks, which it does twice in a second.                    *)
DespoolLook ==
    /\ desp.pc = "look" /\ Runs(Despooler)
    /\ LET dn == spl.dn[desp.d]
       IN \/ /\ dn.status \intersect {"END", "FULL"} # {}
             /\ spload.tight \/ "END" \in dn.status \/ dn.link # 0
             /\ Continues([desp EXCEPT !.pc = "print", !.eof = "END" \in dn.status,
                                       !.next = dn.link, !.text = dn.buf])
          \/ /\ dn.status \intersect {"END", "FULL"} = {}
             /\ Expires
             /\ Continues([desp EXCEPT !.pc = "drop"])
    /\ UNCHANGED <<spl, call, dnode_sem, qjact_sem, paper, spload>>

(* backend_write *)
BackendWrite ==
    /\ desp.pc = "print" /\ Runs(Despooler)
    /\ paper' = paper \o [i \in DOMAIN desp.text |-> <<spl.job[desp.q].jobid, desp.text[i]>>]
    /\ Continues([desp EXCEPT !.pc = "give", !.text = <<>>])
    /\ UNCHANGED <<spl, call, dnode_sem, qjact_sem, spload>>

DespoolGive ==
    /\ desp.pc \in {"drop", "give"} /\ Runs(Despooler)
    /\ spl' = spool_retdnode(spl, desp.d)
    /\ Continues([desp EXCEPT !.pc = IF desp.pc = "drop" \/ desp.eof THEN "unlink"
                                     ELSE "advance"])
    /\ UNCHANGED <<call, dnode_sem, qjact_sem, paper, spload>>

DespoolAdvance ==
    /\ desp.pc = "advance" /\ Runs(Despooler)
    /\ spl' = [spl EXCEPT !.job[desp.q].iptr = desp.next]
    /\ Continues([desp EXCEPT !.pc = "look", !.d = desp.next])
    /\ UNCHANGED <<call, dnode_sem, qjact_sem, paper, spload>>

DespoolUnlink ==
    /\ desp.pc = "unlink" /\ Runs(Despooler)
    /\ spl' = UnlinkQjob(spl, desp.q)
    /\ Continues([desp EXCEPT !.pc = "retqjob"])
    /\ UNCHANGED <<call, dnode_sem, qjact_sem, paper, spload>>

DespoolFree ==
    /\ desp.pc = "retqjob" /\ Runs(Despooler)
    /\ spl' = FreeTheQjob(spl, desp.q)
    /\ Continues([desp EXCEPT !.pc = "poll", !.q = 0, !.d = 0, !.next = 0, !.eof = FALSE])
    /\ UNCHANGED <<call, dnode_sem, qjact_sem, paper, spload>>

-----------------------------------------------------------------------------

despool_d ==
    \/ DespoolPoll \/ DespoolFirst \/ DespoolLook \/ BackendWrite
    \/ DespoolGive \/ DespoolAdvance \/ DespoolUnlink \/ DespoolFree

InCall(p) ==
    \/ ConnectTake(p) \/ ConnectAppend(p) \/ ConnectStart(p)
    \/ SpoolWrite(p) \/ GetDnode(p) \/ GetLastDnode(p) \/ Link(p) \/ GiveBack(p)
    \/ LprmBegin(p) \/ LprmFind(p) \/ LprmFree(p)
=============================================================================
