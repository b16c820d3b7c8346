--------------------------------- MODULE MCTty ---------------------------------
(* Input: a ring of four characters and one reader; line editing with every  *)
(* kind of read, changes of mode, and changes of echo.  Output: a buffer of  *)
(* five, two writers, flow control, and sends delayed below three places;    *)
(* also with writers that are dispatched late.                               *)
(* Overrun: what the code does when the input ring is full.                  *)
EXTENDS Tty

Load(calls, typed, counts, readers, writers, overrun, late) ==
    [calls |-> calls, typed |-> typed, counts |-> counts, readers |-> readers,
     writers |-> writers, overrun |-> overrun, late |-> late]

Editing == {"x", "NEWLINE", "EOF", "KILL", "ERASE"}

SafetyLoads ==
    {Load({"getc", "nextc", "read"}, Editing, {0, 1, 3}, {"r"}, {}, FALSE, FALSE),
     Load({"read", "mode"}, {"x", "NEWLINE"}, {1}, {"r"}, {}, FALSE, FALSE),
     Load({"read", "echo"}, {"x", "NEWLINE", "ERASE"}, {2}, {"r"}, {}, FALSE, FALSE),
     Load({"putc"}, {"x", "STOP", "START"}, {}, {}, {"v", "w"}, FALSE, FALSE),
     Load({"putc"}, {"x"}, {}, {}, {"v", "w"}, FALSE, TRUE)}

OverrunLoads == {Load({"read"}, {"x", "NEWLINE"}, {1}, {"r"}, {}, TRUE, FALSE)}
===============================================================================
