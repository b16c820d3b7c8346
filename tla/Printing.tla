-------------------------------- MODULE Printing --------------------------------
(***************************************************************************)
(* The spooler with all of its users: the line printer daemon, the TFTP    *)
(* server, the test page (xinu/apps/common/testpage.c), and the despooler. *)
(***************************************************************************)
EXTENDS Lpd, Tftpd

CONSTANTS PageUser,  \* testpage_d, as a user of the spooler
          PAGE       \* bytes of the test page

ASSUME PrintingAssumption == PageUser \in SpoolUser /\ PAGE \in Nat

VARIABLES tpg_sem,    \* presses of the button not answered yet
          pressed,    \* bound: how often the button was pressed
          testpage_d  \* its local variables

pageVars == <<tpg_sem, pressed, testpage_d>>
printVars == <<spoolVars, lpdVars, tftpVars, pageVars>>

Resting == [pc |-> "wait", sdd |-> 0, skey |-> 0, sent |-> 0]

PrintingInit ==
    /\ SpoolInit /\ LpdInit /\ TftpInit
    /\ tpg_sem = 0 /\ pressed = 0 /\ testpage_d = Resting

-----------------------------------------------------------------------------
(* testpage_d *)

(* The interrupt of the button signals tpg_sem. *)
pressButton ==
    /\ pressed < spload.pages
    /\ pressed' = pressed + 1 /\ tpg_sem' = tpg_sem + 1
    /\ UNCHANGED <<testpage_d, spoolVars>>

PageBegin ==
    /\ testpage_d.pc = "wait" /\ tpg_sem > 0
    /\ tpg_sem' = tpg_sem - 1
    /\ Calls(PageUser, Connects)
    /\ testpage_d' = [testpage_d EXCEPT !.pc = "connect"]
    /\ StaysInSpooler /\ UNCHANGED pressed

PageConnected ==
    /\ testpage_d.pc = "connect" /\ call[PageUser].pc = "idle"
    /\ LET f == call[PageUser]
       IN IF f.ok
          THEN /\ testpage_d' = [Resting EXCEPT !.pc = "write", !.sdd = f.q, !.skey = f.key]
               /\ UNCHANGED <<call, running>>
          ELSE Calls(PageUser, Connects) /\ UNCHANGED testpage_d
    /\ StaysInSpooler /\ UNCHANGED <<tpg_sem, pressed>>

(* What spool_write returns is not looked at. *)
PageWrite ==
    /\ testpage_d.pc = "write" /\ testpage_d.sent < PAGE /\ call[PageUser].pc = "idle"
    /\ LET t == testpage_d
           size == IF PAGE - t.sent > SzData THEN SzData ELSE PAGE - t.sent
       IN /\ Calls(PageUser, Writes(t.sdd, t.skey, [n \in 1 .. size |-> <<0, t.sent + n>>]))
          /\ testpage_d' = [t EXCEPT !.sent = @ + size]
    /\ StaysInSpooler /\ UNCHANGED <<tpg_sem, pressed>>

PageEnd ==
    /\ testpage_d.pc = "write" /\ testpage_d.sent = PAGE /\ call[PageUser].pc = "idle"
    /\ spl' = spool_disconnect(spl, testpage_d.sdd, testpage_d.skey)
    /\ testpage_d' = Resting
    /\ UNCHANGED <<call, desp, dnode_sem, qjact_sem, running, paper, spload, tpg_sem, pressed>>

pageStep ==
    \/ Runs(PageUser) /\ (PageBegin \/ PageConnected \/ PageWrite \/ PageEnd)
    \/ InCall(PageUser) /\ UNCHANGED pageVars

-----------------------------------------------------------------------------

DespoolerStep == despool_d /\ UNCHANGED <<lpdVars, tftpVars, pageVars>>
LpAccepts == lp_d /\ UNCHANGED <<tftpVars, pageVars>>
LpSlot(i) == lpdStep(i) /\ UNCHANGED <<tftpVars, pageVars>>
TftpServer == tftpStep /\ UNCHANGED <<lpdVars, pageVars>>
TftpClient == tftpClient /\ UNCHANGED <<lpdVars, pageVars>>
TestPage == pageStep /\ UNCHANGED <<lpdVars, tftpVars>>
Button == pressButton /\ UNCHANGED <<lpdVars, tftpVars>>

PrintingNext ==
    \/ DespoolerStep \/ LpAccepts \/ TftpServer \/ TftpClient \/ TestPage \/ Button
    \/ \E i \in Slot : LpSlot(i)

(* A process that is ready again and again gets to run - ready processes of  *)
(* equal priority take turns (property ReadyEventuallyRuns of Kernel), and    *)
(* while a writer looks for a node twice a second, the others are ready only  *)
(* in between.  Clients go on with what they began; nobody has to lose a      *)
(* datagram or press the button.  Only where everything is to be printed in   *)
(* the end (drains) is any of this needed, and asked for.                     *)
PrintingFairness ==
    /\ SF_printVars(spload.drains /\ DespoolerStep)
    /\ SF_printVars(spload.drains /\ TftpServer)
    /\ SF_printVars(spload.drains /\ TestPage)
    /\ \A i \in Slot : SF_printVars(spload.drains /\ LpSlot(i))
    /\ WF_printVars(spload.drains /\ LpAccepts)
    /\ WF_printVars(/\ spload.drains
                    /\ ClientStart \/ ClientAck \/ ClientAgain
                    /\ UNCHANGED <<lpdVars, pageVars>>)

PrintingSpec == PrintingInit /\ [][PrintingNext]_printVars /\ PrintingFairness

-----------------------------------------------------------------------------
(* Where the nodes are. *)

(* The text of a job ends at a node marked as the end, and the despooler has *)
(* printed the node it has not yet gone on from.                             *)
RECURSIVE UpToEnd(_)
UpToEnd(chain) ==
    IF chain = <<>> THEN <<>>
    ELSE IF "END" \in spl.dn[Head(chain)].status THEN <<Head(chain)>>
    ELSE <<Head(chain)>> \o UpToEnd(Tail(chain))

From(d) == UpToEnd(DnodesFrom(spl, d, NumDnodes + 1))
Chain(q) ==
    CASE q = desp.q /\ desp.pc \in {"unlink", "retqjob"} -> <<>>
      [] q = desp.q /\ desp.pc = "advance" -> From(desp.next)
      [] OTHER -> From(spl.job[q].iptr)

Users == {p \in SpoolUser : call[p].pc # "idle"}
HeldBy(p) == IF call[p].pc \in {"link", "giveback"} THEN <<call[p].d>>
             ELSE IF call[p].pc = "free" THEN DnodesFrom(spl, call[p].d, NumDnodes + 1)
             ELSE <<>>

(* The fields of a job that is put on the active list get their first values *)
(* after that: until then it has no number, and its link still leads into     *)
(* the free list.                                                            *)
RECURSIVE Numbered(_, _)
Numbered(q, n) ==
    IF q = 0 \/ n = 0 THEN <<>>
    ELSE IF spl.job[q].jobid = 0 THEN <<q>>
    ELSE <<q>> \o Numbered(spl.job[q].flink, n - 1)

Active == Numbered(spl.qjactive_start, NumQjobs + 1)
Places == FreeDnodes(spl) \o FlattenSeq([i \in DOMAIN Active |-> Chain(Active[i])])
              \o FlattenSeq([i \in 1 .. Cardinality(Users) |-> HeldBy(SetToSeq(Users)[i])])

(* Two of the slots of lpd never take jobs at the same time unless a third   *)
(* is left for a client that asks for something else (lpd.c:590-640): slots  *)
(* pass the check in any order and while others come and go.                 *)
OneSlotReserved ==
    Cardinality({i \in Slot : lpd_slots[i].status = 1 /\ lp_dd[i].cflag}) < LPD_NSLOTS

(* Every node is on the free list, in the text of exactly one job or held by *)
(* exactly one writer; the bytes in use are counted exactly; both lists of   *)
(* jobs are whole, in both directions, and have no job in common; and no     *)
(* null pointer was followed to write.  The semaphores cover only a part of  *)
(* this: nodes are linked and jobs started outside of them                   *)
(* (spooler.c:320-380, 660-800).  Nor do the connections that receive jobs   *)
(* take the slot that is reserved.                                           *)
SpoolerConsistent ==
    /\ Len(Places) = NumDnodes /\ ToSet(Places) = Dnode
    /\ spl.bytesusd = SzData * (NumDnodes - Len(FreeDnodes(spl)))
    /\ Active # <<>> => spl.qjactive_end = Last(Active)
    /\ \A i \in 2 .. Len(Active) : spl.job[Active[i]].blink = Active[i - 1]
    /\ IsInjective(Active \o FreeQjobs(spl))
    /\ Qjob \ ToSet(Active \o FreeQjobs(spl)) =
           {call[p].q : p \in {u \in Users : call[u].pc = "append"}}
               \union (IF desp.pc = "retqjob" THEN {desp.q} ELSE {})
    /\ spl.dn[0] = FreeDnode /\ spl.job[0] = FreeQjob
    /\ OneSlotReserved

-----------------------------------------------------------------------------
(* The spooler implements PrintQueue: what is printed is, job by job and in  *)
(* the order of the connects, what was written to each, up to where it was   *)
(* removed or given up - whoever writes, and however the nodes run out.      *)

Printable == SelectSeq(Active, LAMBDA q : spl.job[q].jobid # 0
                           /\ ~ (q = desp.q /\ desp.pc \in {"unlink", "retqjob"}))
RECURSIVE TextIn(_)
TextIn(nodes) ==
    IF nodes = <<>> THEN <<>> ELSE spl.dn[Head(nodes)].buf \o TextIn(Tail(nodes))

Entry(q, chain) ==
    LET printed == q = desp.q /\ desp.pc = "give"
    IN [key |-> spl.job[q].jobid,
        text |-> TextIn(IF printed THEN Tail(chain) ELSE chain),
        closed |-> chain # <<>> /\ "END" \in spl.dn[Last(chain)].status]
Entries(jobs) == [i \in DOMAIN jobs |-> Entry(jobs[i], Chain(jobs[i]))]

Queue == INSTANCE PrintQueue WITH
             queue <- Entries(Printable), paper <- paper

ImplementsPrintQueue == Queue!Spec

(* What the server writes for a file is always the beginning of the file,    *)
(* converted as a whole: repeated and lost datagrams, a CR at the end of a   *)
(* block and the block that is written behind make no difference; and the    *)
(* last block is acknowledged when all of it was written (tftpd.c:180-400).  *)
AsText(f) == IF f.netascii THEN Converted(f.text) \o CrIf(KeepsCr(f.text)) ELSE f.text
TftpSpoolsTheFile ==
    spooled.file # 0 =>
        /\ IsPrefix(spooled.text, AsText(Files[spooled.file]))
        /\ tftp_d.pc = "lastread" => spooled.text = AsText(Files[spooled.file])

(* All that was accepted is printed in the end, and all nodes and jobs come  *)
(* back, although jobs together need more nodes than there are and each      *)
(* waits for nodes while it holds some: the last free node is kept for the   *)
(* job that is being printed (spooler.c:700-760).                            *)
Total == FoldSeq(LAMBDA c, n : n + FoldSeq(LAMBDA t, m : IF t[1] = "piece" /\ Len(t) = 2 THEN m + t[2] ELSE m,
                                           0, c.says), 0, spload.conns)
             + FoldSeq(LAMBDA f, n : n + Len(AsText(f)), 0, spload.files)

AtRest ==
    /\ Active = <<>> /\ Len(FreeDnodes(spl)) = NumDnodes /\ Len(FreeQjobs(spl)) = NumQjobs
    /\ accepted = Len(spload.conns) /\ lpd_sem = LPD_NSLOTS
    /\ tpg_sem = 0 /\ Users = {}
    /\ Len(paper) = Total + PAGE * pressed

SpoolerDrains == spload.drains ~> AtRest
=============================================================================
