--------------------------------- MODULE Tftpd ---------------------------------
(***************************************************************************)
(* The TFTP server (xinu/apps/common/tftpd.c), which writes what it        *)
(* receives to the spooler: one transfer at a time, acknowledging a block   *)
(* first and writing it while the next is on its way, from two buffers.     *)
(* The client is the one of RFC 783, which is not part of this code; the    *)
(* datagrams between the two may be lost and repeated but keep their order. *)
(***************************************************************************)
EXTENDS Spooler

CONSTANTS TftpUser,  \* the server, as a user of the spooler
          SEGSIZE,   \* characters in a full block
          MaxTimeouts, MaxReads,  \* 5 and 40: when the server gives up
          CR, LF, NUL

ASSUME TftpAssumption ==
    /\ TftpUser \in SpoolUser /\ SEGSIZE \in Nat \ {0}
    /\ MaxTimeouts \in Nat /\ MaxReads \in Nat

VARIABLES tftp_d,    \* the server
          tftpc,     \* the client
          toServer, toClient,  \* datagrams on their way
          faults,    \* bound: what may still be lost, repeated or late
          spooled    \* history: the file being served and what was written for it

tftpVars == <<tftp_d, tftpc, toServer, toClient, faults, spooled>>

BF_ALLOC == -3
BF_FREE == -2
Buffer(n) == [counter |-> n, data |-> <<>>]

Waiting == [pc |-> "wrq", dev |-> 0, key |-> 0, netascii |-> FALSE, block |-> 0, ack |-> 0,
            current |-> 0, nextone |-> 0, bfs |-> [b \in {0, 1} |-> Buffer(BF_FREE)],
            crflag |-> FALSE, timeouts |-> 0, reads |-> 0]

TftpInit ==
    /\ tftp_d = Waiting
    /\ tftpc = [pc |-> "start", file |-> 1, block |-> 0]
    /\ toServer = <<>> /\ toClient = <<>>
    /\ faults = spload.faults
    /\ spooled = [file |-> 0, text |-> <<>>]

-----------------------------------------------------------------------------
(* The client: external.  A file is [text, netascii]; its last block is the *)
(* first that is not full, and may be empty.                                *)

Files == spload.files
Text == Files[tftpc.file].text
FileBlock(n) == SubSeq(Text, (n - 1) * SEGSIZE + 1, Min({n * SEGSIZE, Len(Text)}))
LastBlock == Len(Text) \div SEGSIZE + 1

Wrq == <<"WRQ", Files[tftpc.file].netascii, tftpc.file>>
Data(n) == <<"DATA", n, FileBlock(n)>>
Said == IF tftpc.block = 0 THEN Wrq ELSE Data(tftpc.block)

ClientStart ==
    /\ tftpc.pc = "start" /\ tftpc.file <= Len(Files) /\ tftp_d.pc = "wrq"
    /\ toServer' = Append(toServer, Wrq)
    /\ tftpc' = [tftpc EXCEPT !.pc = "sent", !.block = 0]
    /\ UNCHANGED <<tftp_d, toClient, faults, spooled, spoolVars>>

ClientAck ==
    /\ toClient # <<>>
    /\ toClient' = Tail(toClient)
    /\ IF tftpc.pc # "sent" \/ Head(toClient) # tftpc.block
       THEN UNCHANGED <<tftpc, toServer>>
       ELSE IF tftpc.block = LastBlock
       THEN tftpc' = [tftpc EXCEPT !.pc = "start", !.file = @ + 1] /\ UNCHANGED toServer
       ELSE /\ tftpc' = [tftpc EXCEPT !.block = @ + 1]
            /\ toServer' = Append(toServer, Data(tftpc.block + 1))
    /\ UNCHANGED <<tftp_d, faults, spooled, spoolVars>>

(* Nothing is on its way; or, at the cost of a fault, the answer is late. *)
Quiet == toServer = <<>> /\ toClient = <<>> /\ tftp_d.pc \in {"wrq", "read", "lastread"}

Late(cost) == faults' = faults - cost /\ cost \in {0, 1} /\ (cost = 1 \/ Quiet) /\ faults >= cost

(* (A client that asks more than MaxReads times makes the server give up    *)
(* before anything is written: see ClientQuits.)                            *)
ClientAgain ==
    /\ tftpc.pc = "sent" /\ tftp_d.reads + Len(toServer) <= MaxReads
    /\ \E cost \in {0, 1} : Late(cost)
    /\ toServer' = Append(toServer, Said)
    /\ UNCHANGED <<tftp_d, tftpc, toClient, spooled, spoolVars>>

(* It gives up: silently, or with an error packet - but not before the      *)
(* server has written something: spool_disconnect of a job that has no node *)
(* follows a null pointer.                                                  *)
ClientQuits ==
    /\ tftpc.pc = "sent" /\ spload.slow /\ tftpc.file = spooled.file /\ spooled.text # <<>>
    /\ \E e \in {<<>>, <<<<"ERROR">>>>} : toServer' = toServer \o e
    /\ tftpc' = [tftpc EXCEPT !.pc = "start", !.file = @ + 1]
    /\ UNCHANGED <<tftp_d, toClient, faults, spooled, spoolVars>>

Lose ==
    /\ faults > 0 /\ faults' = faults - 1
    /\ \/ toServer # <<>> /\ toServer' = Tail(toServer) /\ UNCHANGED toClient
       \/ toClient # <<>> /\ toClient' = Tail(toClient) /\ UNCHANGED toServer
    /\ UNCHANGED <<tftp_d, tftpc, spooled, spoolVars>>

-----------------------------------------------------------------------------
(* tftp_write_behind: the conversion from netascii, with a CR at the end of  *)
(* a block kept for the next one.                                            *)

CrIf(cr) == IF cr THEN <<CR>> ELSE <<>>

RECURSIVE Converted(_)
Converted(p) ==
    CASE p = <<>> -> <<>>
      [] Len(p) = 1 -> IF p[1] = CR THEN <<>> ELSE p
      [] Len(p) > 1 /\ p[1] = CR /\ p[2] \in {NUL, LF} ->
            <<IF p[2] = LF THEN LF ELSE CR>> \o Converted(SubSeq(p, 3, Len(p)))
      [] OTHER -> <<p[1]>> \o Converted(Tail(p))

(* A CR is kept if it is the last character and not taken by an earlier CR. *)
RECURSIVE KeepsCr(_)
KeepsCr(p) ==
    CASE p = <<>> -> FALSE
      [] Len(p) = 1 -> p[1] = CR
      [] Len(p) > 1 /\ p[1] = CR /\ p[2] \in {NUL, LF} -> KeepsCr(SubSeq(p, 3, Len(p)))
      [] OTHER -> KeepsCr(Tail(p))

BugKeptBefore(p, crflag) == p
KeptBefore(p, crflag) == CrIf(crflag) \o p

WriteBehind(t) == t.bfs[t.nextone].data
Behind(t) == t.bfs[t.nextone].counter > 0
Flushed(t) ==
    IF t.bfs[t.nextone].counter < -1 THEN t
    ELSE [t EXCEPT !.bfs[t.nextone].counter = BF_FREE, !.nextone = 1 - @]

(* The server's own side of a write-behind: its buffers, the spool_write, and *)
(* where it goes on; with nothing to write it goes on at once.                 *)
WritesBehind(t, during, after) ==
    LET p == KeptBefore(WriteBehind(t), t.crflag)
        out == IF t.netascii THEN Converted(p) ELSE WriteBehind(t)
        cr == IF t.netascii THEN KeepsCr(p) ELSE FALSE
    IN IF Behind(t) /\ out # <<>>
       THEN /\ Calls(TftpUser, Writes(t.dev, t.key, out))
            /\ tftp_d' = [Flushed(t) EXCEPT !.pc = during, !.crflag = cr]
            /\ spooled' = [spooled EXCEPT !.text = @ \o out]
       ELSE /\ tftp_d' = [Flushed(t) EXCEPT !.pc = after,
                             !.crflag = IF Behind(t) THEN cr ELSE @]
            /\ UNCHANGED <<call, running, spooled>>

-----------------------------------------------------------------------------
(* tftp_d *)

Idle == call[TftpUser].pc = "idle"
SpoolerApart == UNCHANGED <<desp, dnode_sem, qjact_sem, paper, spload>>

(* tftp_wait_for_wrq begins by throwing away what is queued. *)
ToTop == tftp_d' = Waiting /\ toServer' = <<>>

WaitForWrq ==
    /\ tftp_d.pc = "wrq" /\ toServer # <<>>
    /\ toServer' = Tail(toServer)
    /\ IF Head(toServer)[1] = "WRQ"
       THEN /\ tftp_d' = [Waiting EXCEPT !.pc = "connect", !.netascii = Head(toServer)[2]]
            /\ Calls(TftpUser, Connects)
            /\ spooled' = [file |-> Head(toServer)[3], text |-> <<>>]
       ELSE UNCHANGED <<tftp_d, call, running, spooled>>
    /\ SpoolerApart /\ UNCHANGED <<spl, tftpc, toClient, faults>>

TftpConnected ==
    /\ tftp_d.pc = "connect" /\ Idle
    /\ LET f == call[TftpUser]
       IN IF ~ f.ok THEN ToTop /\ UNCHANGED spl
          ELSE /\ tftp_d' = [tftp_d EXCEPT !.pc = "ack", !.dev = f.q, !.key = f.key, !.block = 1,
                                           !.bfs[0].counter = BF_ALLOC]
               /\ spl' = spool_hostip(spl, f.q, f.key, 0)
               /\ UNCHANGED toServer
    /\ SpoolerApart
    /\ UNCHANGED <<call, running, tftpc, toClient, faults, spooled>>

SendAck ==
    /\ tftp_d.pc = "ack" /\ Idle
    /\ toClient' = Append(toClient, tftp_d.ack)
    /\ WritesBehind(tftp_d, "behind", "read")
    /\ SpoolerApart /\ UNCHANGED <<spl, tftpc, toServer, faults>>

(* In netascii mode tftp_write_behind ends without a return statement: what *)
(* its caller finds may be the 1 that means an error.                       *)
BehindDone ==
    /\ tftp_d.pc = "behind" /\ Idle
    /\ \E ok \in (IF tftp_d.netascii THEN BOOLEAN ELSE {TRUE}) :
           IF ok /\ call[TftpUser].ok
           THEN tftp_d' = [tftp_d EXCEPT !.pc = "read"] /\ UNCHANGED toServer
           ELSE ToTop
    /\ UNCHANGED <<tftpc, toClient, faults, spooled, spoolVars>>

Disconnects(t) == spl' = spool_disconnect(spl, t.dev, t.key)

ReadTimeout ==
    /\ tftp_d.pc = "read" /\ toServer = <<>>
    /\ tftpc.pc = "sent" => tftp_d.timeouts < MaxTimeouts
    /\ \E cost \in {0, 1} : Late(cost)
    /\ IF tftp_d.timeouts < MaxTimeouts
       THEN /\ tftp_d' = [tftp_d EXCEPT !.pc = "ack", !.timeouts = @ + 1]
            /\ UNCHANGED <<spl, toServer>>
       ELSE Disconnects(tftp_d) /\ ToTop
    /\ SpoolerApart
    /\ UNCHANGED <<call, running, tftpc, toClient, spooled>>

(* tftp_writeit: the block is left for the write-behind, and the other       *)
(* buffer, which is always free by then, becomes the one that is read into.  *)
WriteIt(t, text) ==
    [t EXCEPT !.bfs = [b \in {0, 1} |-> IF b = t.current THEN [counter |-> Len(text), data |-> text]
                                       ELSE Buffer(BF_ALLOC)],
              !.current = 1 - @]

Accept(t, text) ==
    IF Len(text) = SEGSIZE
    THEN [WriteIt(t, text) EXCEPT !.pc = "ack", !.ack = t.block, !.block = @ + 1,
                                  !.timeouts = 0, !.reads = 0]
    ELSE [WriteIt(t, text) EXCEPT !.pc = "last"]

Expected(t, n) == n = t.block

(* A block that is not the expected one: whatever is queued is thrown away,  *)
(* and the one before is acknowledged again.  Any other is taken for the     *)
(* expected one.                                                             *)
ReadData ==
    /\ tftp_d.pc = "read" /\ toServer # <<>> /\ Head(toServer)[1] = "DATA"
    /\ LET n == Head(toServer)[2]
       IN /\ toServer' = IF Expected(tftp_d, n) THEN Tail(toServer) ELSE <<>>
          /\ tftp_d' = IF n = tftp_d.block - 1 /\ ~ Expected(tftp_d, n)
                       THEN [tftp_d EXCEPT !.pc = "ack"]
                       ELSE Accept(tftp_d, Head(toServer)[3])
    /\ UNCHANGED <<tftpc, toClient, faults, spooled, spoolVars>>

ReadOther ==
    /\ tftp_d.pc = "read" /\ toServer # <<>> /\ Head(toServer)[1] # "DATA"
    /\ CASE Head(toServer)[1] = "ERROR" -> ToTop /\ UNCHANGED spl
         [] Head(toServer)[1] = "WRQ" /\ tftp_d.reads > MaxReads -> Disconnects(tftp_d) /\ ToTop
         [] OTHER -> /\ tftp_d' = [tftp_d EXCEPT !.reads = @ + 1]
                     /\ toServer' = Tail(toServer)
                     /\ UNCHANGED spl
    /\ SpoolerApart /\ UNCHANGED <<call, running, tftpc, toClient, faults, spooled>>

LastBehind ==
    /\ tftp_d.pc = "last" /\ Idle
    /\ WritesBehind(tftp_d, "lastbehind", "cr")
    /\ SpoolerApart /\ UNCHANGED <<spl, tftpc, toServer, toClient, faults>>

LastBehindDone ==
    /\ tftp_d.pc = "lastbehind" /\ Idle
    /\ \E ok \in (IF tftp_d.netascii THEN BOOLEAN ELSE {TRUE}) :
           IF ok /\ call[TftpUser].ok
           THEN tftp_d' = [tftp_d EXCEPT !.pc = "cr"] /\ UNCHANGED toServer
           ELSE ToTop
    /\ UNCHANGED <<tftpc, toClient, faults, spooled, spoolVars>>

LastCr ==
    /\ tftp_d.pc = "cr" /\ tftp_d.crflag /\ Idle
    /\ Calls(TftpUser, Writes(tftp_d.dev, tftp_d.key, <<CR>>))
    /\ tftp_d' = [tftp_d EXCEPT !.crflag = FALSE]
    /\ spooled' = [spooled EXCEPT !.text = Append(@, CR)]
    /\ SpoolerApart /\ UNCHANGED <<spl, tftpc, toServer, toClient, faults>>

FinalAck ==
    /\ tftp_d.pc = "cr" /\ ~ tftp_d.crflag /\ Idle
    /\ Disconnects(tftp_d)
    /\ toClient' = Append(toClient, tftp_d.block)
    /\ tftp_d' = [tftp_d EXCEPT !.pc = "lastread"]
    /\ SpoolerApart /\ UNCHANGED <<call, running, tftpc, toServer, faults, spooled>>

(* One more read, in case the last acknowledgement was lost. *)
LastRead ==
    /\ tftp_d.pc = "lastread"
    /\ \/ /\ toServer = <<>>
          /\ \E cost \in {0, 1} : Late(cost)
          /\ UNCHANGED toClient
       \/ /\ toServer # <<>>
          /\ toClient' = IF Head(toServer)[1] = "DATA" /\ Head(toServer)[2] = tftp_d.block
                         THEN Append(toClient, tftp_d.block) ELSE toClient
          /\ UNCHANGED faults
    /\ ToTop
    /\ UNCHANGED <<tftpc, spooled, spoolVars>>

tftpTalk ==
    \/ WaitForWrq \/ TftpConnected \/ SendAck \/ BehindDone \/ ReadTimeout \/ ReadData
    \/ ReadOther \/ LastBehind \/ LastBehindDone \/ LastCr \/ FinalAck \/ LastRead

tftpStep ==
    \/ Runs(TftpUser) /\ tftpTalk
    \/ InCall(TftpUser) /\ UNCHANGED tftpVars

tftpClient == ClientStart \/ ClientAck \/ ClientAgain \/ ClientQuits \/ Lose
=============================================================================
