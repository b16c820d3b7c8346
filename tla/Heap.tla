--------------------------------- MODULE Heap ---------------------------------
(***************************************************************************)
(* What the memory calls promise to their callers: getmem and getstk give  *)
(* out bytes that nobody else has and refuse only when there is no run of  *)
(* free bytes long enough; freemem takes back exactly what was given.      *)
(* Nothing is said about how free memory is kept.                          *)
(***************************************************************************)
EXTENDS Integers

CONSTANTS MEMORY,   \* the bytes between end and maxaddr
          Sizes     \* sizes that may be asked for, already rounded

VARIABLES used,     \* extents given out
          outcome   \* the last call and its result

Extent(at, len) == [at |-> at, len |-> len]
Bytes(e) == e.at .. e.at + e.len - 1
Given == UNION {Bytes(e) : e \in used}
Room(at, len) == Bytes(Extent(at, len)) \subseteq MEMORY \ Given

Init == used = {} /\ outcome = <<"none", "OK">>

Give(len) ==
    /\ outcome' = <<"alloc", "OK">>
    /\ \E at \in MEMORY : Room(at, len) /\ used' = used \union {Extent(at, len)}

Refuse(len) ==
    /\ outcome' = <<"alloc", "SYSERR">>
    /\ ~ \E at \in MEMORY : Room(at, len)
    /\ UNCHANGED used

TakeBack ==
    /\ outcome' = <<"free", "OK">>
    /\ \E e \in used : used' = used \ {e}

RejectFree == outcome' = <<"free", "SYSERR">> /\ UNCHANGED used

Next == \/ \E len \in Sizes : Give(len) \/ Refuse(len)
        \/ TakeBack
        \/ RejectFree

HeapSpec == Init /\ [][Next]_<<used, outcome>>
===============================================================================
