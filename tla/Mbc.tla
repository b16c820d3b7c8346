---------------------------------- MODULE Mbc ----------------------------------
(***************************************************************************)
(* The mailbox interface between the board and the printer                 *)
(* (xinu/sys/miombc): packets in shared memory pass from one side to the    *)
(* other through one mailbox in each direction.  The board's side is the    *)
(* interrupt handler, the MBC process (priority 40), and the de-spooler     *)
(* (priority 35) in backend_write, which runs only while MBC waits, and     *)
(* with interrupts disabled.  MBC itself may be interrupted anywhere.       *)
(*                                                                         *)
(* The printer is not code of the repository: it does what the driver       *)
(* expects of it.  Sizes are in bytes of shared memory, as in miostart.     *)
(***************************************************************************)
EXTENDS Integers, Sequences, FiniteSets

CONSTANTS MAX_SHARE_MEM, HEADER, MAILBOXES, SIZE_READ_PACK, SIZE_WRITE_PACK,
          MIN_PRGP_SIZE, MIN_IOGP_SIZE, PERCENT_READ,
          MESS_LIST_SIZE,
          INTERRUPTS_AHEAD,   \* bound: interrupts that MBC has yet to wait for
          MbcLoads

VARIABLES
    mbc,       \* the MBC process: place, place to return to, packet, command, count
    mess,      \* MessList from head to tail, with InQueue, MIO_Mail and IntrMIO
    pools,     \* ReadPool, WritePool, IOGPPool
    blocks,    \* ReadBlockPool, WriteBlockPool
    per,       \* Mess_4_Per and per_mess_ptr
    idle,      \* PrinterStatus.idle_mode
    pr, io,    \* the mailboxes to the printer and to the board
    printer,   \* the packets the printer has, each with the request in it
    writer,    \* the de-spooler: buffers given to backend_write, and done; packet in WritePrn
    printed,   \* history: the buffers the printer received
    resets,
    mbcload

boardVars == <<mbc, mess, pools, blocks, per, idle>>
mbcVars == <<boardVars, pr, io, printer, writer, printed, resets, mbcload>>

(* The negotiation uses a packet of its own, where the first READ will be. *)
Temporary == 0

IoRequests == {"RETRIEVE_IO_CONFIG", "IDENTIFY", "BUFF_CONFIG", "ASYNC_IO_STATUS"}
Requests == {"ASCII_STATUS", "ASYNC_PER_STATUS", "INQUIRE_IO_STATUS", "OTHER_REQUEST"}

-----------------------------------------------------------------------------
(* Buffer negotiation: how many packets there are and where their data lie.  *)

AtLeast(x, y) == IF x > y THEN x ELSE y

Negotiated(config) ==
    LET prsize == AtLeast(config[1], MIN_PRGP_SIZE)
        iosize == AtLeast(config[2], MIN_IOGP_SIZE)
        mix == AtLeast(config[3], PERCENT_READ)
        avail == MAX_SHARE_MEM - 2 * (prsize + HEADER) - 2 * (iosize + HEADER) - MAILBOXES
        r == (avail * mix) \div ((SIZE_READ_PACK + HEADER) * 100)
        w == (avail * (100 - mix)) \div ((SIZE_WRITE_PACK + HEADER) * 100)
        rest == avail - r * (SIZE_READ_PACK + HEADER) - w * (SIZE_WRITE_PACK + HEADER)
    IN [reads |-> IF mix > 50 /\ rest > SIZE_READ_PACK + HEADER THEN r + 1 ELSE r,
        writes |-> w, io |-> iosize, pr |-> prsize]

(* The headers follow the mailboxes, the data the headers; of the two PR_GP  *)
(* packets that memory is reserved for one is built.                         *)
Built(n) ==
    LET count == n.reads + n.writes + 3
        kind == [p \in 1 .. count |->
                   IF p <= n.reads THEN "read" ELSE IF p <= n.reads + n.writes THEN "write"
                   ELSE IF p = count THEN "prgp" ELSE "iogp"]
        size == [read |-> SIZE_READ_PACK, write |-> SIZE_WRITE_PACK, iogp |-> n.io,
                 prgp |-> n.pr]
        start[p \in 1 .. count + 1] ==
          IF p = 1 THEN MAILBOXES + (4 + n.reads + n.writes) * HEADER
                   ELSE start[p - 1] + size[kind[p - 1]]
    IN [kind |-> kind, reads |-> n.reads, writes |-> n.writes,
        data_end |-> [p \in 1 .. count |-> start[p + 1]]]

Layouts == [config \in {l.config : l \in MbcLoads} |-> Built(Negotiated(config))]
Layout == Layouts[mbcload.config]
Packets == DOMAIN Layout.kind
Kind(p) == IF p = Temporary THEN "iogp" ELSE Layout.kind[p]

(* A workload: what the printer asks for in the buffer negotiation, which    *)
(* requests it makes, how many buffers are printed, how often it resets the  *)
(* board, and whether it may interrupt between the two halves of             *)
(* DeliverPacket.                                                           *)
ASSUME MbcAssumption ==
    /\ {MAX_SHARE_MEM, HEADER, MAILBOXES, SIZE_READ_PACK, SIZE_WRITE_PACK, MIN_PRGP_SIZE,
        MIN_IOGP_SIZE, MESS_LIST_SIZE, INTERRUPTS_AHEAD} \subseteq Nat \ {0}
    /\ PERCENT_READ \in 0 .. 100
    /\ \A l \in MbcLoads :
          /\ l \in [config : Nat \X Nat \X (0 .. 100), requests : SUBSET Requests,
                    buffers : Nat, resets : Nat, races : BOOLEAN]
          /\ Negotiated(l.config).reads >= 2

-----------------------------------------------------------------------------

NoPacket == 0
Restarted ==
    [mbc |-> [at |-> "selftest", ret |-> "", pkt |-> NoPacket, cmd |-> "", i |-> 0,
              flagged |-> TRUE],
     mess |-> [list |-> <<>>, inqueue |-> 0, mail |-> TRUE, intr |-> 0],
     pools |-> [read |-> <<>>, write |-> <<>>, iogp |-> <<Temporary>>],
     blocks |-> [read |-> 0, write |-> 0],
     per |-> [due |-> FALSE, pkt |-> NoPacket],
     idle |-> TRUE,
     pr |-> [vld |-> FALSE, clrrsp |-> TRUE, pkt |-> NoPacket, what |-> ""],
     io |-> [vld |-> FALSE, clrreq |-> FALSE, pkt |-> NoPacket, cmd |-> "", idle |-> TRUE]]

MbcInit ==
    /\ mbcload \in MbcLoads
    /\ mbc = Restarted.mbc /\ mess = Restarted.mess /\ pools = Restarted.pools
    /\ blocks = Restarted.blocks /\ per = Restarted.per /\ idle = Restarted.idle
    /\ pr = Restarted.pr /\ io = Restarted.io
    /\ printer = {} /\ printed = <<>>
    /\ writer = [given |-> 0, done |-> 0, pkt |-> NoPacket]
    /\ resets = 0

-----------------------------------------------------------------------------
(* The MBC process.  Names beginning with Bug are faulty variants for the    *)
(* properties to reject.                                                     *)

GotoMbc(place) == mbc' = [mbc EXCEPT !.at = place]
Done(place) == mbc' = [mbc EXCEPT !.at = place, !.ret = "", !.pkt = NoPacket, !.cmd = ""]
Deliver(p, what, place) ==
    mbc' = [mbc EXCEPT !.at = "deliver", !.ret = place, !.pkt = p, !.cmd = what]

(* DeliverPacket: spin while the mailbox is full, and fill it. *)
deliverTest ==
    /\ mbc.at = "deliver" /\ ~ pr.vld
    /\ GotoMbc("deliverNow")
    /\ UNCHANGED <<mess, pools, blocks, per, idle, pr>>
deliverNow ==
    /\ mbc.at = "deliverNow"
    /\ pr' = [pr EXCEPT !.vld = TRUE, !.pkt = mbc.pkt, !.what = mbc.cmd]
    /\ IF mbc.ret = "reply" THEN GotoMbc("reply") ELSE Done(mbc.ret)
    /\ UNCHANGED <<mess, pools, blocks, per, idle>>

(* SendMail takes a packet from the pool and delivers it; nothing looks at   *)
(* its answer when the pool is empty.                                        *)
SendMail(cmd, place) ==
    IF pools.iogp # <<>>
      THEN /\ Deliver(Head(pools.iogp), cmd, place)
           /\ pools' = [pools EXCEPT !.iogp = Tail(@)]
      ELSE GotoMbc(place) /\ UNCHANGED pools

(* miostart: the three requests of the negotiation, one after the other. *)
NextRequest(cmd) ==
    CASE cmd = "" -> "RETRIEVE_IO_CONFIG"
      [] cmd = "RETRIEVE_IO_CONFIG" -> "IDENTIFY"
      [] cmd = "IDENTIFY" -> "BUFF_CONFIG"
negotiate ==
    /\ \/ mbc.at = "selftest" /\ ~ pr.clrrsp /\ SendMail(NextRequest(""), "reply")
       \/ /\ mbc.at = "replied" /\ mbc.cmd \in {"RETRIEVE_IO_CONFIG", "IDENTIFY"}
          /\ SendMail(NextRequest(mbc.cmd), "reply")
       \/ /\ mbc.at = "replied" /\ mbc.cmd = "BUFF_CONFIG"
          /\ mbc' = [mbc EXCEPT !.at = "build", !.i = 0]
          /\ UNCHANGED pools
    /\ UNCHANGED <<mess, blocks, per, idle, pr>>

(* The packets are built and handed to the printer, which returns each READ  *)
(* at once; the WRITEs and the PR_GP need only be taken.                     *)
build ==
    LET p == mbc.i + 1
    IN /\ mbc.at = "build" /\ p \in Packets
       /\ mbc' = [mbc EXCEPT !.i = p, !.pkt = p, !.cmd = "NEW_PACKET",
                             !.at = IF Kind(p) = "iogp" THEN "build" ELSE "deliver",
                             !.ret = IF Kind(p) = "read" THEN "readBack" ELSE "taken"]
       /\ pools' = IF Kind(p) # "iogp" THEN pools
                   ELSE IF p = Layout.reads + Layout.writes + 1 THEN [pools EXCEPT !.iogp = <<p>>]
                   ELSE [pools EXCEPT !.iogp = Append(@, p)]
       /\ UNCHANGED <<mess, blocks, per, idle, pr>>

built ==
    /\ \/ mbc.at = "taken" /\ ~ pr.vld /\ GotoMbc("build")
       \/ mbc.at = "build" /\ mbc.i + 1 \notin Packets /\ GotoMbc("wait")
    /\ UNCHANGED <<mess, pools, blocks, per, idle, pr>>

(* ProcessMail: the oldest message is taken off the list ... *)
BugDequeued(m) == [m EXCEPT !.list = Tail(@), !.inqueue = @ - 1, !.mail = FALSE]
Dequeued(m) ==
    [m EXCEPT !.list = Tail(@), !.inqueue = @ - 1, !.mail = @ /\ m.inqueue # 1]

Process(m, place) ==
    /\ mess' = Dequeued(m)
    /\ mbc' = [mbc EXCEPT !.at = "process", !.ret = place, !.pkt = Head(m.list)[1],
                          !.cmd = Head(m.list)[2]]
    /\ UNCHANGED <<pools, blocks, per, idle, pr>>

waitIntr == [mess EXCEPT !.intr = @ - 1]

mailInStart ==
    \/ mbc.at \in {"reply", "readBack"} /\ mess.intr > 0 /\ Process(waitIntr, mbc.at)
    \/ mbc.at = "taken" /\ mess.mail /\ Process(mess, "taken")

(* ... and acted upon.  What it was decides what miostart does next.         *)
AfterMail ==
    CASE mbc.ret = "reply" -> IF mbc.cmd \in IoRequests THEN "replied" ELSE "reply"
      [] mbc.ret = "readBack" -> "build"
      [] OTHER -> mbc.ret

Processed == IF mbc.ret = "reply" THEN GotoMbc(AfterMail) ELSE Done(AfterMail)

(* An answer of the printer is kept, and its packet goes back to the pool.   *)
IoReply ==
    /\ pools' = [pools EXCEPT !.iogp = Append(@, mbc.pkt)]
    /\ Processed
    /\ UNCHANGED blocks

(* Requests about the display, self tests, descriptions and the configuration *)
(* change nothing here, and the packet goes back with the answer.             *)
Answered ==
    /\ Deliver(mbc.pkt, "ANSWER", AfterMail)
    /\ UNCHANGED <<pools, blocks>>

ProcessMail ==
    /\ mbc.at = "process"
    /\ CASE mbc.cmd = "READBLOCK" ->
              /\ blocks' = [blocks EXCEPT !.read = @ + 1]
              /\ pools' = [pools EXCEPT !.read = Append(@, mbc.pkt)]
              /\ Processed
         [] mbc.cmd \in {"WRITEBLOCK", "ASCII_STATUS"} ->
              /\ blocks' = [blocks EXCEPT !.write = @ + 1]
              /\ pools' = [pools EXCEPT !.write = Append(@, mbc.pkt)]
              /\ Processed
         [] mbc.cmd \in IoRequests -> IoReply
         [] OTHER -> Answered
    /\ UNCHANGED <<mess, per, idle, pr>>

(* MBC_Main: wait for an interrupt; process the mail; the first time, tell   *)
(* the printer that the board is ready; return one WRITE packet.             *)
mbcWait ==
    /\ mbc.at = "wait" /\ mess.intr > 0
    /\ mess' = waitIntr
    /\ GotoMbc("mail")
    /\ UNCHANGED <<pools, blocks, per, idle, pr>>

mbcMail ==
    \/ mbc.at = "mail" /\ mess.mail /\ Process(mess, "mail")
    \/ /\ mbc.at = "mail" /\ ~ mess.mail
       /\ GotoMbc(IF mbc.flagged THEN "online" ELSE "write")
       /\ UNCHANGED <<mess, pools, blocks, per, idle, pr>>

mbcOnline ==
    /\ mbc.at = "online"
    /\ IF pools.iogp # <<>>
         THEN /\ mbc' = [mbc EXCEPT !.at = "deliver", !.ret = "write", !.flagged = FALSE,
                                    !.pkt = Head(pools.iogp), !.cmd = "ASYNC_IO_STATUS"]
              /\ pools' = [pools EXCEPT !.iogp = Tail(@)]
         ELSE mbc' = [mbc EXCEPT !.at = "write", !.flagged = FALSE] /\ UNCHANGED pools
    /\ UNCHANGED <<mess, blocks, per, idle, pr>>

(* ReadPrn *)
mbcWrite ==
    /\ mbc.at = "write"
    /\ IF blocks.write > 0
         THEN /\ blocks' = [blocks EXCEPT !.write = @ - 1]
              /\ IF pools.write # <<>>
                   THEN /\ Deliver(Head(pools.write), "UNDERSTOOD", "wait")
                        /\ pools' = [pools EXCEPT !.write = Tail(@)]
                   ELSE GotoMbc("wait") /\ UNCHANGED pools
         ELSE GotoMbc("wait") /\ UNCHANGED <<pools, blocks>>
    /\ UNCHANGED <<mess, per, idle, pr>>

InterruptsOn == writer.pkt = NoPacket

MbcProcess ==
    /\ InterruptsOn
    /\ \/ deliverTest \/ deliverNow \/ negotiate \/ build \/ built \/ mailInStart
       \/ ProcessMail \/ mbcWait \/ mbcMail \/ mbcOnline \/ mbcWrite
    /\ UNCHANGED <<io, printer, writer, printed, resets, mbcload>>

-----------------------------------------------------------------------------
(* The interrupt handler: ReadMail, and a status message that is due.        *)

MayInterrupt == InterruptsOn /\ (mbcload.races \/ mbc.at # "deliverNow")

Listed(p, cmd) ==
    [mess EXCEPT !.list = Append(@, <<p, cmd>>), !.inqueue = @ + 1, !.mail = TRUE,
                 !.intr = @ + 1]

ReadMail ==
    /\ MayInterrupt
    /\ io.vld /\ ~ io.clrreq
    /\ io' = Restarted.io
    /\ IF io.cmd \in {"ASYNC_PER_STATUS", "INQUIRE_IO_STATUS"}
         THEN /\ per' = [due |-> TRUE, pkt |-> io.pkt]
              /\ idle' = IF io.cmd = "ASYNC_PER_STATUS" THEN io.idle ELSE idle
              /\ UNCHANGED <<mbc, mess>>
         ELSE IF Len(mess.list) + 1 = MESS_LIST_SIZE
           THEN GotoMbc("hung") /\ UNCHANGED <<mess, per, idle>>
           ELSE mess' = Listed(io.pkt, io.cmd) /\ UNCHANGED <<mbc, per, idle>>
    /\ UNCHANGED <<pools, blocks, pr, printer, writer, printed, resets, mbcload>>

(* cmn_isr, on the clock's interrupts too *)
BugDue == per.due
Due == per.due /\ ~ pr.vld /\ ~ pr.clrrsp
deliverDue ==
    /\ MayInterrupt
    /\ Due
    /\ per' = Restarted.per
    /\ pr' = [pr EXCEPT !.vld = TRUE, !.pkt = per.pkt, !.what = "UNDERSTOOD"]
    /\ UNCHANGED <<mbc, mess, pools, blocks, idle, io, printer, writer, printed,
                   resets, mbcload>>

(* A reset starts the board anew, and the printer forgets its packets. *)
reboot ==
    /\ MayInterrupt
    /\ io.clrreq
    /\ mbc' = Restarted.mbc /\ mess' = Restarted.mess /\ pools' = Restarted.pools
    /\ blocks' = Restarted.blocks /\ per' = Restarted.per /\ idle' = Restarted.idle
    /\ pr' = Restarted.pr /\ io' = Restarted.io
    /\ printer' = {} /\ printed' = <<>>
    /\ writer' = [given |-> 0, done |-> 0, pkt |-> NoPacket]
    /\ UNCHANGED <<resets, mbcload>>

-----------------------------------------------------------------------------
(* backend_write.  It sends when the printer is not idle, no status message  *)
(* is due and two READ packets are there, and looks again every 0.2 s; a      *)
(* buffer of the spooler fits in one packet.                                  *)

MbcWaits == mbc.at \in {"wait", "reply", "readBack"} /\ mess.intr = 0
Sending == writer.given > writer.done
LastBuffer == writer.given = mbcload.buffers

backend_write ==
    /\ ~ Sending /\ InterruptsOn /\ writer.given < mbcload.buffers
    /\ writer' = [writer EXCEPT !.given = @ + 1]
    /\ UNCHANGED <<boardVars, pr, io, printer, printed, resets, mbcload>>

BugMaySend == ~ idle /\ ~ per.due /\ blocks.read > 2
MaySend == ~ idle /\ ~ per.due /\ blocks.read >= 2

WritePrn ==
    /\ Sending /\ MbcWaits /\ InterruptsOn /\ MaySend
    /\ pools' = [pools EXCEPT !.read = Tail(@)]
    /\ blocks' = [blocks EXCEPT !.read = @ - 1]
    /\ writer' = [writer EXCEPT !.pkt = Head(pools.read)]
    /\ UNCHANGED <<mbc, mess, per, idle, pr, io, printer, printed, resets, mbcload>>

(* It spins for the mailbox with interrupts disabled. *)
DeliverPacket ==
    /\ ~ InterruptsOn /\ ~ pr.vld
    /\ pr' = [pr EXCEPT !.vld = TRUE, !.pkt = writer.pkt,
                        !.what = IF LastBuffer THEN "LOGICAL_BREAK" ELSE "DATA"]
    /\ writer' = [writer EXCEPT !.done = @ + 1, !.pkt = NoPacket]
    /\ UNCHANGED <<mbc, mess, pools, blocks, per, idle, io, printer, printed, resets, mbcload>>

-----------------------------------------------------------------------------
(* The printer.                                                              *)

acknowledge ==
    /\ pr.clrrsp
    /\ pr' = [pr EXCEPT !.clrrsp = FALSE]
    /\ UNCHANGED <<boardVars, io, printer, writer, printed, resets, mbcload>>

take ==
    /\ pr.vld
    /\ pr' = [pr EXCEPT !.vld = FALSE, !.pkt = NoPacket, !.what = ""]
    /\ printer' = printer \union {<<pr.pkt, IF pr.what \in IoRequests THEN pr.what ELSE "">>}
    /\ printed' = IF pr.what \in {"DATA", "LOGICAL_BREAK"} THEN Append(printed, pr.what) ELSE printed
    /\ UNCHANGED <<boardVars, io, writer, resets, mbcload>>

Mail(p, req) ==
    IF req # "" THEN {req}
    ELSE CASE Kind(p) = "read" -> {"READBLOCK"}
           [] Kind(p) = "write" -> {"WRITEBLOCK"}
           [] Kind(p) = "prgp" -> mbcload.requests
           [] OTHER -> {}

post(p, req) ==
    /\ <<p, req>> \in printer
    /\ ~ io.vld /\ ~ io.clrreq /\ mess.intr < INTERRUPTS_AHEAD
    /\ \E cmd \in Mail(p, req), state \in BOOLEAN :
          /\ cmd # "ASYNC_PER_STATUS" => ~ state
          /\ io' = [io EXCEPT !.vld = TRUE, !.pkt = p, !.cmd = cmd, !.idle = state]
    /\ printer' = printer \ {<<p, req>>}
    /\ UNCHANGED <<boardVars, pr, writer, printed, resets, mbcload>>

reset ==
    /\ resets < mbcload.resets /\ ~ io.clrreq
    /\ io' = [io EXCEPT !.clrreq = TRUE]
    /\ resets' = resets + 1
    /\ UNCHANGED <<boardVars, pr, printer, writer, printed, mbcload>>

-----------------------------------------------------------------------------

MbcNext ==
    \/ MbcProcess
    \/ ReadMail \/ deliverDue \/ reboot
    \/ backend_write \/ WritePrn \/ DeliverPacket
    \/ acknowledge \/ take \/ reset \/ \E mail \in printer : post(mail[1], mail[2])

MbcSpec == MbcInit /\ [][MbcNext]_mbcVars

(* MBC, of the highest priority, runs when it can; an interrupt that is      *)
(* pending comes; every interrupt looks for a message that is due, also that  *)
(* of the mail which keeps the mailbox in use; the de-spooler gets the        *)
(* processor in the end (module Kernel).  The printer takes its mail,         *)
(* answers requests and returns the READ packets.                            *)
PrinterAnswers == \E mail \in printer : mail[2] # "" /\ post(mail[1], mail[2])
PrinterReads == \E mail \in printer : Kind(mail[1]) = "read" /\ post(mail[1], mail[2])
MbcFairness ==
    /\ SF_mbcVars(MbcProcess) /\ WF_mbcVars(ReadMail) /\ WF_mbcVars(reboot)
    /\ SF_mbcVars(deliverDue) /\ SF_mbcVars(WritePrn) /\ WF_mbcVars(DeliverPacket)
    /\ WF_mbcVars(acknowledge) /\ WF_mbcVars(take)
    /\ SF_mbcVars(PrinterAnswers) /\ SF_mbcVars(PrinterReads)

FairMbcSpec == MbcSpec /\ MbcFairness

-----------------------------------------------------------------------------

(* Ranges of the counts and of what the printer holds. *)
MbcTypeOK ==
    /\ mess.intr \in Nat /\ mess.inqueue \in Nat
    /\ blocks \in [{"read", "write"} -> Nat]
    /\ printer \subseteq ((Packets \union {Temporary}) \X (IoRequests \union {""}))
    /\ writer.done <= writer.given /\ writer.pkt \in Packets \union {NoPacket}

Times(seq, p) == Cardinality({i \in DOMAIN seq : seq[i] = p})
Bit01(b) == IF b THEN 1 ELSE 0
Copies(p) ==
    Cardinality({mail \in printer : mail[1] = p})
      + Bit01(pr.vld /\ pr.pkt = p) + Bit01(io.vld /\ io.pkt = p)
      + Bit01(per.due /\ per.pkt = p) + Bit01(writer.pkt = p /\ ~ InterruptsOn)
      + Bit01(mbc.at \in {"deliver", "deliverNow", "process"} /\ mbc.pkt = p)
      + Times(pools.read \o pools.write, p) + Times(pools.iogp, p)
      + Cardinality({i \in DOMAIN mess.list : mess.list[i][1] = p})

(* Every packet is in one place: with the printer, in a mailbox, on its way   *)
(* through the list, in a pool or in DeliverPacket; the counts that decide    *)
(* what is done agree with the lists; when MBC waits nothing is left to be     *)
(* done, so the list never fills up; and the packets negotiated lie in shared  *)
(* memory (mbc_misc.c:94-115, mbc_rmail.c:70-226, mbc_pmail.c:94-163,          *)
(* mbc_main.c:107-162, mbc_start.c:228-384).                                  *)
MailAccounted ==
    /\ \A p \in (IF mbc.i = 0 THEN {Temporary} ELSE 1 .. mbc.i) : Copies(p) = 1
    /\ blocks.read = Len(pools.read) /\ blocks.write = Len(pools.write)
    /\ mess.inqueue = Len(mess.list) /\ (mbc.i > 0 => mess.mail = (mess.inqueue > 0))
    /\ mbc.at = "wait" /\ mess.intr = 0 => mess.list = <<>> /\ blocks.write = 0
    /\ mbc.at # "hung"
    /\ \A p \in Packets : Layout.data_end[p] <= MAX_SHARE_MEM

(* The printer receives every buffer once, in order, and the break after the  *)
(* last one only (mbc_main.c:40-74, mbc_write.c:66-101, common_isr.c:55-59).   *)
PrintedInOrder ==
    LET sent == IF pr.vld /\ pr.what \in {"DATA", "LOGICAL_BREAK"} THEN <<pr.what>> ELSE <<>>
    IN printed \o sent =
         [i \in 1 .. writer.done |-> IF i = mbcload.buffers THEN "LOGICAL_BREAK" ELSE "DATA"]

(* A packet that carries a request of the printer goes back to it; and a buffer *)
(* goes out unless the printer is idle, asks for the status, or sends requests  *)
(* again and again (common_isr.c:55-59, mbc_main.c:112-150, 50-73).           *)
Away(kind) ==
    /\ mbc.i = Cardinality(Packets)
    /\ \A p \in Packets : Kind(p) = kind => <<p, "">> \notin printer
PacketsComeBack ==
    /\ \A kind \in {"write", "prgp"} : Away(kind) ~> ~ Away(kind)
    /\ []<>idle \/ []<>(per.due) \/ []<>(blocks.write > 0) \/ (Sending ~> ~ Sending)
=============================================================================
