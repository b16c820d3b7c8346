---------------------------------- MODULE Tty ----------------------------------
(***************************************************************************)
(* The terminal driver (xinu/sys/common/tty_*.c, xinu/sys/mio/tty_*.c):    *)
(* the input and output interrupt handlers, line editing, flow control,    *)
(* and the calls getc, putc, read and control of the upper half.           *)
(*                                                                         *)
(* Interrupts are off in both handlers and in the calls, which lose the    *)
(* processor only where they block and at a final reschedule: each action  *)
(* runs from one such point to the next.  ttywrite is ttyputc repeated.    *)
(* The terminal is the console (tty_init.c) unless its modes are changed.  *)
(***************************************************************************)
EXTENDS Semaphores, FiniteSetsExt

CONSTANTS IBUFLEN, OBUFLEN, EBUFLEN, OBMINSP,
          Workloads

(* Characters by what the driver does with them; "x" stands for the rest,  *)
(* RETURN arrives as NEWLINE (icrlf).                                      *)
Chars == {"x", "NEWLINE", "EOF", "KILL", "ERASE", "STOP", "START"}
Modes == {"IMRAW", "IMCBREAK", "IMCOOKED"}
AllCalls == {"getc", "nextc", "read", "putc", "mode", "echo"}

(* A workload: the calls made, the characters typed, the counts that read  *)
(* is given, who reads, who writes, whether input is stored even when the   *)
(* ring is full, and whether writers may come too late (see Prompt).        *)
Workload == [calls : SUBSET AllCalls, typed : SUBSET Chars, counts : SUBSET Nat,
             readers : SUBSET Proc, writers : SUBSET Proc, overrun : BOOLEAN,
             late : BOOLEAN]

ASSUME TtyAssumption ==
    /\ IBUFLEN \in Nat /\ IBUFLEN > 1 /\ EBUFLEN \in Nat /\ EBUFLEN > 1
    /\ OBMINSP \in Nat /\ OBMINSP > 0 /\ OBUFLEN \in Nat /\ OBUFLEN >= 2 * OBMINSP
    /\ NSEM >= 2
    /\ \A w \in Workloads : w \in Workload

VARIABLES
    ihead, itail, ibuff, icnt, icursor, imode, iecho,
    out,      \* the output half, with the semaphores: see OutInit
    unread,   \* history: what was typed and neither edited away nor read
    load

inVars == <<ihead, itail, ibuff, icnt, icursor, unread>>
modeVars == <<imode, iecho>>
vars == <<inVars, modeVars, out, semaph, nextsem, pc, load>>

isem == NSEM - 1
osem == NSEM - 2

(* ehead, etail, ohead, otail: the echo and output rings; odsend: sends     *)
(* delayed; tx: fttyoint, transmit interrupts are on; oheld; unsent:        *)
(* history, characters stored in obuff less characters sent from it.        *)
OutInit == [ehead |-> 0, etail |-> 0, ohead |-> 0, otail |-> 0, odsend |-> 0,
            tx |-> FALSE, oheld |-> FALSE, unsent |-> 0]

Init ==
    /\ load \in Workloads
    /\ ihead = 0 /\ itail = 0 /\ icnt = 0 /\ icursor = 0
    /\ ibuff = [i \in 0 .. IBUFLEN - 1 |-> "x"]
    /\ imode = "IMCOOKED" /\ iecho = TRUE
    /\ out = OutInit
    /\ unread = <<>>
    /\ semaph = [s \in Sem |->
                    CASE s = isem -> [FreeSem EXCEPT !.used = TRUE]
                      [] s = osem -> [FreeSem EXCEPT !.used = TRUE, !.cnt = OBUFLEN]
                      [] OTHER -> FreeSem]
    /\ nextsem = (NSEM - 3) % NSEM
    /\ pc = [p \in Proc |-> User]

-----------------------------------------------------------------------------
(* The output half, as functions of [out, sems].                           *)

signaln(t, s, n) == LET after[k \in 0 .. n] ==
                          IF k = 0 THEN t ELSE signal(after[k - 1], s)
                    IN after[n]

(* Space is given back at once while there is plenty, and OBMINSP at a time *)
(* when there is little.                                                    *)
Credits(o) ==
    LET ct == o.sems[osem].cnt
    IN IF ct > OBMINSP THEN [o EXCEPT !.sems = signal(@, osem)]
       ELSE IF o.out.odsend + 1 = OBMINSP
              THEN [o EXCEPT !.out.odsend = 0, !.sems = signaln(@, osem, OBMINSP)]
              ELSE [o EXCEPT !.out.odsend = @ + 1]

ttyoin(o) ==
    IF o.out.ehead # o.out.etail
      THEN [o EXCEPT !.out.etail = (@ + 1) % EBUFLEN]
    ELSE IF o.out.oheld THEN [o EXCEPT !.out.tx = FALSE]
    ELSE IF o.sems[osem].cnt < OBUFLEN
      THEN Credits([o EXCEPT !.out.otail = (@ + 1) % OBUFLEN, !.out.unsent = @ - 1])
    ELSE [o EXCEPT !.out.tx = FALSE]

ttyostart(o) == IF o.out.tx THEN o ELSE ttyoin([o EXCEPT !.out.tx = TRUE])

eputc(o) == ttyostart([o EXCEPT !.out.ehead = (@ + 1) % EBUFLEN])
eputs(o, n) == LET after[k \in 0 .. n] == IF k = 0 THEN o ELSE eputc(after[k - 1])
               IN after[n]

Output == [out |-> out, sems |-> semaph]
OutputIs(o) == out' = o.out /\ semaph' = o.sems

(* Writers that a signal has let through and that have not stored yet.      *)
Admitted == {p \in load.writers : Reached(p, "putc")}

(* Bound: unless the load is late, such a writer stores its character before *)
(* the transmitter has sent everything else.  The code does not ensure it:   *)
(* ttyoin looks at the semaphore only (tty_oin.c:36), so it can send a place *)
(* that nobody has filled, and the character stored there later stays.       *)
Prompt == load.late \/ out.unsent > 0 \/ Admitted = {}

-----------------------------------------------------------------------------
(* Input interrupts.                                                       *)

(* A character is stored in the ring.  Bound: a run whose load has not       *)
(* overrun does not go on where the code overwrites unread input, which     *)
(* happens at the end of a line and after a change of mode within a line.   *)
BugStore(ch) ==
    /\ load.overrun \/ icnt + icursor < IBUFLEN
    /\ ibuff' = [ibuff EXCEPT ![ihead] = ch]
    /\ ihead' = ihead + 1
    /\ unread' = Append(unread, ch)

Store(ch) ==
    /\ load.overrun \/ icnt + icursor < IBUFLEN
    /\ ibuff' = [ibuff EXCEPT ![ihead] = ch]
    /\ ihead' = (ihead + 1) % IBUFLEN
    /\ unread' = Append(unread, ch)

(* echoch: NEWLINE goes out as two characters (ecrlf), EOF as ^D (evis).   *)
EchoLen(ch) == IF ch = "x" THEN 1 ELSE 2
echoch(o, ch) == IF iecho THEN eputs(o, EchoLen(ch)) ELSE o

rawInput(ch) ==
    /\ icnt < IBUFLEN
    /\ Store(ch)
    /\ icnt' = icnt + 1
    /\ semaph' = signal(semaph, isem)
    /\ UNCHANGED <<itail, icursor, out>>

(* Flow control; every other character also ends a hold.                   *)
Unheld == [Output EXCEPT !.out.oheld = FALSE]
BugResumed == Unheld
Resumed == ttyostart(Unheld)

flowInput(ch) ==
    /\ OutputIs(IF ch = "START" THEN Resumed ELSE [Output EXCEPT !.out.oheld = TRUE])
    /\ UNCHANGED inVars

cbreakInput(ch) ==
    IF icnt >= IBUFLEN
      THEN OutputIs(eputc(Unheld)) /\ UNCHANGED inVars
      ELSE LET o == echoch(Unheld, ch)
           IN /\ Store(ch)
              /\ icnt' = icnt + 1
              /\ OutputIs([o EXCEPT !.sems = signal(@, isem)])
              /\ UNCHANGED <<itail, icursor>>

KillLine == ihead' = (ihead - icursor) % IBUFLEN

cookedKill ==
    /\ KillLine
    /\ icursor' = 0
    /\ unread' = SubSeq(unread, 1, Len(unread) - icursor)
    /\ OutputIs(eputs(Unheld, 2))
    /\ UNCHANGED <<itail, ibuff, icnt>>

(* erase1: backspace, blank, backspace; without echo, only ttyostart.      *)
cookedErase ==
    IF icursor = 0 THEN OutputIs(Unheld) /\ UNCHANGED inVars
    ELSE /\ ihead' = (ihead - 1) % IBUFLEN
         /\ icursor' = icursor - 1
         /\ unread' = Front(unread)
         /\ OutputIs(IF iecho THEN eputs(Unheld, 3) ELSE ttyostart(Unheld))
         /\ UNCHANGED <<itail, ibuff, icnt>>

(* The end of a line is stored whether or not there is room.                *)
cookedEndLine(ch) ==
    LET o == IF ch = "EOF" THEN echoch(echoch(Unheld, ch), "NEWLINE") ELSE echoch(Unheld, ch)
    IN /\ Store(ch)
       /\ icnt' = icnt + icursor + 1
       /\ icursor' = 0
       /\ OutputIs([o EXCEPT !.sems = signaln(@, isem, icursor + 1)])
       /\ UNCHANGED itail

cookedOrdinary ==
    IF Positive(icnt) + icursor >= IBUFLEN - 1
      THEN OutputIs(eputc(Unheld)) /\ UNCHANGED inVars
      ELSE /\ Store("x")
           /\ icursor' = icursor + 1
           /\ OutputIs(echoch(Unheld, "x"))
           /\ UNCHANGED <<itail, icnt>>

cookedInput(ch) ==
    \/ ch = "KILL" /\ cookedKill
    \/ ch = "ERASE" /\ cookedErase
    \/ ch \in {"NEWLINE", "EOF"} /\ cookedEndLine(ch)
    \/ ch = "x" /\ cookedOrdinary

ttyiin(ch) ==
    /\ out.tx \/ Prompt
    /\ \/ imode = "IMRAW" /\ rawInput(ch)
       \/ imode # "IMRAW" /\ ch \in {"STOP", "START"} /\ flowInput(ch)
       \/ imode = "IMCBREAK" /\ ch \notin {"STOP", "START"} /\ cbreakInput(ch)
       \/ imode = "IMCOOKED" /\ cookedInput(ch)
    /\ UNCHANGED <<modeVars, nextsem, pc, load>>

(* The transmitter is ready for the next character. *)
transmit ==
    /\ out.tx /\ Prompt
    /\ OutputIs(ttyoin(Output))
    /\ UNCHANGED <<inVars, modeVars, nextsem, pc, load>>

-----------------------------------------------------------------------------
(* The upper half.                                                         *)

Passes(s) == semaph[s].cnt > 0
Tokens(s, n) == [semaph EXCEPT ![s].cnt = @ - n]

(* Take n characters from the tail of the ring. *)
Take(n) ==
    /\ itail' = (itail + n) % IBUFLEN
    /\ icnt' = icnt - n
    /\ unread' = SubSeq(unread, n + 1, Len(unread))
    /\ UNCHANGED <<ihead, ibuff, icursor>>

Blocks(p, s, k) ==
    /\ ~ Passes(s)
    /\ semaph' = wait(semaph, s, p)
    /\ Goto(p, k)
    /\ UNCHANGED <<inVars, out>>

getc(p) ==
    \/ InUser(p) /\ Passes(isem) /\ Take(1) /\ semaph' = Tokens(isem, 1) /\ UNCHANGED <<pc, out>>
    \/ InUser(p) /\ Blocks(p, isem, At("getc", 0, 0))
    \/ Reached(p, "getc") /\ Take(1) /\ Goto(p, User) /\ UNCHANGED <<semaph, out>>

(* TCNEXTC looks at the next character; interrupts are on again before the  *)
(* semaphore is given back.                                                 *)
nextc(p) ==
    \/ /\ InUser(p) /\ Passes(isem)
       /\ semaph' = Tokens(isem, 1)
       /\ Goto(p, At("nextc", 0, 0))
       /\ UNCHANGED <<inVars, out>>
    \/ InUser(p) /\ Blocks(p, isem, At("nextc", 0, 0))
    \/ /\ Reached(p, "nextc")
       /\ semaph' = signal(semaph, isem)
       /\ Goto(p, User)
       /\ UNCHANGED <<inVars, out>>

(* The character i places from the tail, and how many of n characters read  *)
(* takes: from place "from" on it stops behind a NEWLINE; it stops in front *)
(* of an EOF, and takes an EOF that comes first.                            *)
Peek(i) == ibuff[(itail + i - 1) % IBUFLEN]
Taken(n, from, first) ==
    LET ends == {i \in from .. n : Peek(i) = "NEWLINE"}
        eofs == {i \in 1 .. n : Peek(i) = "EOF"}
        stops == ends \union {IF i = 1 /\ first THEN 1 ELSE i - 1 : i \in eofs}
    IN IF stops = {} THEN n ELSE Min(stops)

Stopped(n, from) == \E i \in 1 .. n : Peek(i) = "EOF" \/ (i >= from /\ Peek(i) = "NEWLINE")

(* The first half of ttyread takes what is there, without looking whether   *)
(* the first character is a NEWLINE, and makes the semaphore agree.         *)
BugReset(k) == semaph
Reset(k) == sreset(semaph, isem, icnt - k)

read(p, n) ==
    LET count == IF n = 0 THEN icnt ELSE n
        now == IF count < icnt THEN count ELSE icnt
        k == Taken(now, 2, TRUE)
    IN /\ InUser(p)
       /\ count > 0
       /\ IF now > 0
            THEN Take(k) /\ semaph' = Reset(k)
            ELSE UNCHANGED <<inVars, semaph>>
       /\ IF Stopped(now, 2) \/ now >= count THEN UNCHANGED pc
          ELSE Goto(p, At("readLater", k, count - now))
       /\ UNCHANGED out

(* The second half waits for each further character; while it need not      *)
(* block it goes on.  a: characters read before; n: still to read.          *)
LaterCount(p) == Taken(Min({pc[p].n, semaph[isem].cnt}), 1, pc[p].a = 0)
LaterDone(p, k) == k = pc[p].n \/ Stopped(Min({pc[p].n, semaph[isem].cnt}), 1)

readLater(p) ==
    \/ /\ Reached(p, "readLater") /\ Passes(isem)
       /\ LET k == LaterCount(p)
          IN /\ Take(k)
             /\ semaph' = Tokens(isem, k)
             /\ Goto(p, IF LaterDone(p, k) THEN User
                        ELSE At("readLater", pc[p].a + k, pc[p].n - k))
       /\ UNCHANGED out
    \/ /\ Reached(p, "readLater")
       /\ Blocks(p, isem, At("readWoken", pc[p].a, pc[p].n))
    \/ /\ Reached(p, "readWoken")
       /\ LET k == Taken(1, 1, pc[p].a = 0)
          IN /\ Take(k)
             /\ semaph' = IF k = 0 THEN signal(semaph, isem) ELSE semaph
             /\ Goto(p, IF Stopped(1, 1) \/ pc[p].n = 1 THEN User
                        ELSE At("readLater", pc[p].a + 1, pc[p].n - 1))
       /\ UNCHANGED out

(* Store one character in obuff and start the transmitter. *)
Put(table) ==
    OutputIs(ttyostart([out |-> [out EXCEPT !.ohead = (@ + 1) % OBUFLEN, !.unsent = @ + 1],
                        sems |-> table]))

putc(p) ==
    \/ InUser(p) /\ Passes(osem) /\ Put(Tokens(osem, 1)) /\ UNCHANGED <<pc, inVars>>
    \/ InUser(p) /\ Blocks(p, osem, At("putc", 0, 0))
    \/ Reached(p, "putc") /\ Put(semaph) /\ Goto(p, User) /\ UNCHANGED inVars

ttycntl ==
    /\ \/ "mode" \in load.calls /\ imode' \in Modes \ {imode} /\ UNCHANGED iecho
       \/ "echo" \in load.calls /\ iecho' = ~ iecho /\ UNCHANGED imode
    /\ UNCHANGED <<inVars, out, semaph, pc>>

upperHalf ==
    /\ \/ \E p \in load.readers :
             \/ "getc" \in load.calls /\ getc(p)
             \/ "nextc" \in load.calls /\ nextc(p)
             \/ \E n \in load.counts : read(p, n)
             \/ readLater(p)
       \/ \E p \in load.writers : putc(p)
    /\ UNCHANGED modeVars

Next ==
    \/ \E ch \in load.typed : ttyiin(ch)
    \/ transmit
    \/ (upperHalf \/ ttycntl) /\ UNCHANGED <<nextsem, load>>

Spec == Init /\ [][Next]_vars

(* The transmitter interrupts again after each character; echoes go first, *)
(* but the line is faster than the typist, so their ring empties again and  *)
(* again and output gets its turn; and a writer that was let through is     *)
(* dispatched in the end (module Kernel).                                   *)
OutputTurn == out.ehead = out.etail /\ transmit
Dispatched(p) == Reached(p, "putc") /\ putc(p) /\ UNCHANGED <<modeVars, nextsem, load>>
TtyFairness ==
    /\ WF_vars(transmit) /\ SF_vars(OutputTurn) /\ []<>(out.ehead = out.etail)
    /\ \A p \in Proc : WF_vars(Dispatched(p))
FairSpec == Spec /\ TtyFairness

-----------------------------------------------------------------------------

TypeOK ==
    /\ SemTypeOK
    /\ ihead \in 0 .. IBUFLEN - 1 /\ itail \in 0 .. IBUFLEN - 1
    /\ icursor \in 0 .. IBUFLEN /\ icnt \in Int
    /\ imode \in Modes /\ iecho \in BOOLEAN
    /\ out.ohead \in 0 .. OBUFLEN - 1 /\ out.otail \in 0 .. OBUFLEN - 1
    /\ out.ehead \in 0 .. EBUFLEN - 1 /\ out.etail \in 0 .. EBUFLEN - 1
    /\ out.odsend \in 0 .. OBMINSP - 1

(* What was typed and neither edited away nor read is in the input ring, in *)
(* order, and is what icnt and icursor count: neither editing, nor the wrap  *)
(* of either end, nor read's early returns lose or repeat a character       *)
(* (tty_iin.c:81-124, tty_read.c:43-97).                                    *)
InputIntact ==
    /\ TypeOK
    /\ Len(unread) = icnt + icursor
    /\ \A i \in 1 .. Len(unread) : Peek(i) = unread[i]

(* With one reader, the input semaphore and the token the reader was given  *)
(* are the characters of the ended lines, through read's sreset and the     *)
(* look-ahead (tty_read.c:49-73, tty_cntl.c:30-36).                         *)
InputSemaphore ==
    Positive(scount(isem)) + Cardinality({p \in load.readers :
        \E place \in {"getc", "nextc", "readWoken"} : Reached(p, place)}) = icnt

(* Free space, delayed sends, writers let through that have not stored yet  *)
(* and characters stored and not sent make up obuff; nothing is sent that   *)
(* was not stored, or, where writers come too late, no more than they are   *)
(* about to store; sends are only delayed while space is short, so none stay *)
(* behind when the buffer empties (tty_putc.c:24-29, tty_oin.c:36-45).      *)
OutputAccounting ==
    /\ Positive(scount(osem)) + out.odsend + out.unsent + Cardinality(Admitted) = OBUFLEN
    /\ out.unsent >= IF load.late THEN - Cardinality(Admitted) ELSE 0
    /\ out.odsend > 0 => scount(osem) <= OBMINSP
    /\ (out.ohead - out.otail) % OBUFLEN = out.unsent % OBUFLEN

(* The rings, the counts and the semaphores of both directions agree, for   *)
(* every interleaving of the interrupt handlers and the processes.          *)
CharactersAccounted == InputIntact /\ InputSemaphore /\ OutputAccounting

(* A writer that blocks on a full buffer gets to write, unless the output   *)
(* is held: the transmitter is never off with characters to send, and the   *)
(* delayed sends do come (tty_oin.c:31-47, tty_putc.c:29, tty_iin.c:54-65). *)
BlockedWriterReleased ==
    \A p \in Proc : (pc[p].at = "putc") ~> (pc[p].at = "user" \/ out.oheld)
===============================================================================
