---------------------------------- MODULE Lpd ----------------------------------
(***************************************************************************)
(* The line printer daemon (xinu/apps/common/lpd.c): lp_d accepts          *)
(* connections and hands each to the lp_dd process of a free slot, which   *)
(* talks to the client and calls the spooler.                              *)
(*                                                                         *)
(* A client is what it says: commands, sub-commands, pieces of files and   *)
(* the zero byte behind each file.  A read returns one of these; the code  *)
(* takes a buffer that holds several of them apart in the same way.  When   *)
(* a client has said everything it closes the connection.                  *)
(***************************************************************************)
EXTENDS Spooler

CONSTANTS LPD_NSLOTS, SlotUser

ASSUME LpdAssumption ==
    /\ LPD_NSLOTS \in Nat \ {0}
    /\ SlotUser \in [0 .. LPD_NSLOTS - 1 -> SpoolUser]

VARIABLES lpd_sem, lpd_slots,
          lp_dd,     \* the local variables of the process of each slot
          accepted   \* how many of the connections were accepted

lpdVars == <<lpd_sem, lpd_slots, lp_dd, accepted>>

Slot == 0 .. LPD_NSLOTS - 1

Listening == [pc |-> "receive", sdd |-> 0, skey |-> 0, cflag |-> FALSE, lfsize |-> 0,
              sent |-> 0, hears |-> <<>>]

LpdInit ==
    /\ lpd_sem = LPD_NSLOTS
    /\ lpd_slots = [i \in Slot |-> [status |-> 0, command |-> "", state |-> {},
                                    fsize |-> 0, conn |-> 0]]
    /\ lp_dd = [i \in Slot |-> Listening]
    /\ accepted = 0

-----------------------------------------------------------------------------
(* lp_d: waits for a slot and for a connection.  What it sends is received  *)
(* by the process of the slot before that does anything else.               *)

lp_d ==
    /\ lpd_sem > 0 /\ accepted < Len(spload.conns)
    /\ LET i == Min({j \in Slot : lpd_slots[j].status = 0})
       IN /\ lpd_slots' = [lpd_slots EXCEPT ![i] =
                 [status |-> 1, command |-> "", state |-> {}, fsize |-> 0,
                  conn |-> accepted + 1]]
          /\ lp_dd' = [lp_dd EXCEPT ![i] =
                 [Listening EXCEPT !.pc = "read", !.hears = spload.conns[accepted + 1].says]]
    /\ lpd_sem' = lpd_sem - 1
    /\ accepted' = accepted + 1
    /\ UNCHANGED spoolVars

-----------------------------------------------------------------------------
(* lp_dd *)

Host(i) == spload.conns[lpd_slots[i].conn].host

(* top_recv: the slot is given up, and then the job is ended. *)
TopRecv(i) ==
    /\ lpd_slots' = [lpd_slots EXCEPT ![i].status = 0]
    /\ lpd_sem' = lpd_sem + 1
    /\ spl' = IF lp_dd[i].sdd = 0 THEN spl
              ELSE spool_disconnect(spl, lp_dd[i].sdd, lp_dd[i].skey)
    /\ lp_dd' = [lp_dd EXCEPT ![i] = Listening]
    /\ UNCHANGED <<call, desp, dnode_sem, qjact_sem, running, paper, spload, accepted>>

Hears(i) == Head(lp_dd[i].hears)
Heard(i) == [lp_dd[i] EXCEPT !.hears = Tail(@)]
Reads(i) ==
    /\ lp_dd[i].pc = "read" /\ lp_dd[i].hears # <<>>
    /\ call[SlotUser[i]].pc = "idle"

StaysInSpooler == UNCHANGED <<spl, desp, dnode_sem, qjact_sem, paper, spload>>

LpdClosed(i) == lp_dd[i].pc = "read" /\ lp_dd[i].hears = <<>> /\ TopRecv(i)

(* Jobs are removed by a user who has seen their text in the queue, and not   *)
(* while more of the first one is to be printed than the node in print: the   *)
(* despooler would follow links of nodes that lprm has freed.                 *)
MayRemove ==
    /\ \A q \in ToSet(ActiveQjobs(spl)) : spl.job[q].iptr # 0
    /\ spl.qjactive_start # 0 => "END" \in spl.dn[spl.job[spl.qjactive_start].iptr].status

(* No command yet.  The states of the queue are only shown. *)
LpdCommand(i) ==
    /\ Reads(i) /\ lpd_slots[i].command = ""
    /\ CASE Hears(i)[1] = "job" ->
              /\ lpd_slots' = [lpd_slots EXCEPT ![i].command = "RECVJOB", ![i].state = {"WAITSC"}]
              /\ lp_dd' = [lp_dd EXCEPT ![i] = Heard(i)]
              /\ UNCHANGED <<lpd_sem, accepted, spoolVars>>
         [] Hears(i)[1] = "remove" ->
              /\ MayRemove
              /\ lpd_slots' = [lpd_slots EXCEPT ![i].command = "RMJOBS"]
              /\ Calls(SlotUser[i], Removes(Hears(i)[2], Hears(i)[3], Hears(i)[4], Host(i)))
              /\ lp_dd' = [lp_dd EXCEPT ![i] = [Heard(i) EXCEPT !.pc = "remove"]]
              /\ StaysInSpooler /\ UNCHANGED <<lpd_sem, accepted>>
         [] Hears(i)[1] \notin {"job", "remove"} -> TopRecv(i)

LpdRemoved(i) ==
    /\ lp_dd[i].pc = "remove" /\ call[SlotUser[i]].pc = "idle" /\ TopRecv(i)

(* One slot is kept for commands other than "receive a job". *)
CheckSlots(i) ==
    \E j \in Slot \ {i} : lpd_slots[j].status = 0 \/ lpd_slots[j].command # "RECVJOB"

LpdSubcommand(i) ==
    /\ Reads(i) /\ lpd_slots[i].command = "RECVJOB" /\ "WAITSC" \in lpd_slots[i].state
    /\ CASE Hears(i)[1] = "abort" ->
              /\ lp_dd' = [lp_dd EXCEPT ![i] = Heard(i)]
              /\ UNCHANGED <<lpd_sem, lpd_slots, accepted, spoolVars>>
         [] Hears(i)[1] \in {"data", "control"} /\ (lp_dd[i].cflag \/ CheckSlots(i)) ->
              /\ lpd_slots' = [lpd_slots EXCEPT
                     ![i].state = (@ \ {"WAITSC"})
                         \union {IF Hears(i)[1] = "data" THEN "RECVDATA" ELSE "RECVCONT"},
                     ![i].fsize = Hears(i)[2]]
              /\ lp_dd' = [lp_dd EXCEPT ![i] = [Heard(i) EXCEPT !.cflag = TRUE, !.lfsize = 0,
                     !.pc = IF lp_dd[i].sdd = 0 THEN "connect" ELSE "read"]]
              /\ IF lp_dd[i].sdd = 0
                 THEN Calls(SlotUser[i], Connects) /\ UNCHANGED spl
                 ELSE /\ spl' = IF Hears(i)[1] = "control" THEN spl
                                ELSE spool_hostip(spl, lp_dd[i].sdd, lp_dd[i].skey, Host(i))
                      /\ UNCHANGED <<call, running>>
              /\ UNCHANGED <<desp, dnode_sem, qjact_sem, paper, spload, lpd_sem, accepted>>
         [] OTHER -> TopRecv(i)

(* spool_connect is called again until it finds a job. *)
LpdConnected(i) ==
    /\ lp_dd[i].pc = "connect" /\ call[SlotUser[i]].pc = "idle"
    /\ LET f == call[SlotUser[i]]
       IN IF ~ f.ok
          THEN /\ Calls(SlotUser[i], Connects)
               /\ UNCHANGED <<spl, lp_dd>>
          ELSE /\ spl' = IF "RECVDATA" \in lpd_slots[i].state
                         THEN spool_hostip(spl, f.q, f.key, Host(i)) ELSE spl
               /\ lp_dd' = [lp_dd EXCEPT ![i].pc = "read", ![i].sdd = f.q, ![i].skey = f.key]
               /\ UNCHANGED <<call, running>>
    /\ UNCHANGED <<desp, dnode_sem, qjact_sem, paper, spload, lpd_sem, lpd_slots, accepted>>

(* When all of a file has come, the zero byte is next. *)
AfterPiece(i, lfsize, done, was) ==
    IF lfsize = lpd_slots[i].fsize
    THEN [lpd_slots EXCEPT ![i].state = (@ \ {was}) \union {"RECV00", done}]
    ELSE lpd_slots

(* An empty file has no pieces: the zero byte is looked at as one of them.  *)
LpdData(i) ==
    /\ Reads(i) /\ "RECVDATA" \in lpd_slots[i].state /\ "RECV00" \notin lpd_slots[i].state
    /\ LET n == IF Hears(i)[1] = "piece" THEN Hears(i)[2] ELSE 0
           m == lp_dd[i]
       IN /\ Calls(SlotUser[i], Writes(m.sdd, m.skey,
                 [k \in 1 .. n |-> <<lpd_slots[i].conn, m.sent + k>>]))
          /\ lp_dd' = [lp_dd EXCEPT ![i] =
                 [(IF n = 0 THEN m ELSE Heard(i)) EXCEPT
                     !.pc = "write", !.lfsize = @ + n, !.sent = @ + n]]
    /\ StaysInSpooler /\ UNCHANGED <<lpd_sem, lpd_slots, accepted>>

LpdWritten(i) ==
    /\ lp_dd[i].pc = "write" /\ call[SlotUser[i]].pc = "idle"
    /\ IF call[SlotUser[i]].ok
       THEN /\ lpd_slots' = AfterPiece(i, lp_dd[i].lfsize, "DATADONE", "RECVDATA")
            /\ lp_dd' = [lp_dd EXCEPT ![i].pc = "read"]
            /\ UNCHANGED <<lpd_sem, accepted, spoolVars>>
       ELSE TopRecv(i)

(* extract_control: of the control file only the names are kept. *)
LpdControl(i) ==
    /\ Reads(i) /\ "RECVCONT" \in lpd_slots[i].state /\ "RECV00" \notin lpd_slots[i].state
    /\ LET m == [Heard(i) EXCEPT !.lfsize = @ + Hears(i)[2]]
       IN /\ spl' = spool_username(spl, m.sdd, m.skey, Hears(i)[3])
          /\ lp_dd' = [lp_dd EXCEPT ![i] = m]
          /\ lpd_slots' = AfterPiece(i, m.lfsize, "CONTDONE", "RECVCONT")
    /\ UNCHANGED <<call, desp, dnode_sem, qjact_sem, running, paper, spload, lpd_sem, accepted>>

(* The zero byte; when both files are there, the job is complete. *)
LpdZero(i) ==
    /\ Reads(i) /\ "RECV00" \in lpd_slots[i].state
    /\ LET both == {"DATADONE", "CONTDONE"} \subseteq lpd_slots[i].state
           m == lp_dd[i]
       IN IF Hears(i)[1] # "zero" THEN TopRecv(i)
          ELSE /\ spl' = IF both THEN spool_disconnect(spl, m.sdd, m.skey) ELSE spl
               /\ lpd_slots' = [lpd_slots EXCEPT ![i].state =
                      IF both THEN {"WAITSC"} ELSE (@ \ {"RECV00"}) \union {"WAITSC"}]
               /\ lp_dd' = [lp_dd EXCEPT ![i] =
                      IF both THEN [Heard(i) EXCEPT !.sdd = 0] ELSE Heard(i)]
               /\ UNCHANGED <<call, desp, dnode_sem, qjact_sem, running, paper, spload,
                              lpd_sem, accepted>>

lpdTalk(i) ==
    \/ LpdClosed(i) \/ LpdCommand(i) \/ LpdRemoved(i) \/ LpdSubcommand(i)
    \/ LpdConnected(i) \/ LpdData(i) \/ LpdWritten(i) \/ LpdControl(i) \/ LpdZero(i)

lpdStep(i) ==
    \/ Runs(SlotUser[i]) /\ lpdTalk(i)
    \/ InCall(SlotUser[i]) /\ UNCHANGED lpdVars
=============================================================================
