-------------------------------- MODULE Memory --------------------------------
(***************************************************************************)
(* The memory calls: getmem, getstk, freemem and the macro freestk         *)
(* (xinu/sys/common/{getmem,freemem}.c, xinu/sys/68000/getstk.c, mem.h).   *)
(*                                                                         *)
(* Every call searches and changes memlist with interrupts disabled, so it *)
(* is one action.  memlist is linked in address order (freemem links a     *)
(* block in front of the first block above it), so it is the set of its    *)
(* blocks and "the first that ..." is the lowest one.                      *)
(***************************************************************************)
EXTENDS Integers, FiniteSets, FiniteSetsExt

CONSTANTS MEMSIZE,    \* length of the first block, a whole number of words
          HeapSizes,  \* arguments of getmem
          StackSizes  \* arguments of getstk

ASSUME MemoryAssumption ==
    /\ MEMSIZE \in Nat /\ MEMSIZE % 4 = 0 /\ MEMSIZE >= 8
    /\ HeapSizes \subseteq Nat \ {0}
    /\ StackSizes \subseteq Nat \ {0}

(* Every stack size in the code is a multiple of 8: for any other, freestk *)
(* computes another base than the one getstk gave out.                     *)
ASSUME StackAssumption == \A n \in StackSizes : n % 8 = 0

VARIABLES memlist,  \* the free blocks
          used,     \* history: blocks given out and not freed
          outcome   \* history: the last call and its result

vars == <<memlist, used, outcome>>

MEMORY == 0 .. MEMSIZE - 1
Block(at, len) == [at |-> at, len |-> len]
End(b) == b.at + b.len
Bytes(b) == b.at .. End(b) - 1

(* mem.h: sizes of stacks are rounded up to words of 4 bytes, sizes of heap *)
(* blocks to the 8 bytes of a struct mblock.  Names beginning with Bug are  *)
(* faulty variants that the properties have to reject.                      *)
roundew(n) == ((n + 3) \div 4) * 4
BugRoundmb(n) == n
roundmb(n) == ((n + 7) \div 8) * 8

Heap(at, len, n) == [at |-> at, len |-> len, size |-> n, stack |-> FALSE]
Stack(at, len, n) == [at |-> at, len |-> len, size |-> n, stack |-> TRUE]

Init ==
    /\ memlist = {Block(0, MEMSIZE)}
    /\ used = {}
    /\ outcome = <<"none", "OK">>

-----------------------------------------------------------------------------

Fitting(n) == {b \in memlist : b.len >= n}

FirstFit(n) == CHOOSE b \in Fitting(n) : \A c \in Fitting(n) : b.at <= c.at
LastFit(n) == CHOOSE b \in Fitting(n) : \A c \in Fitting(n) : b.at >= c.at

Leftover(b, n) == IF b.len = n THEN {} ELSE {Block(b.at + n, b.len - n)}

getmem(nbytes) ==
    LET n == roundmb(nbytes)
        b == FirstFit(n)
    IN /\ Fitting(n) # {}
       /\ memlist' = (memlist \ {b}) \union Leftover(b, n)
       /\ used' = used \union {Heap(b.at, n, nbytes)}
       /\ outcome' = <<"alloc", "OK">>

(* A stack is cut from the top of the last block that fits. *)
getstk(nbytes) ==
    LET n == roundew(nbytes)
        b == LastFit(n)
    IN /\ Fitting(n) # {}
       /\ memlist' = (memlist \ {b}) \union
                       (IF b.len = n THEN {} ELSE {Block(b.at, b.len - n)})
       /\ used' = used \union {Stack(End(b) - n, n, nbytes)}
       /\ outcome' = <<"alloc", "OK">>

refuse(n) ==
    /\ Fitting(n) = {}
    /\ outcome' = <<"alloc", "SYSERR">>
    /\ UNCHANGED <<memlist, used>>

-----------------------------------------------------------------------------
(* freemem.c: q is the last block below the freed one, p the first that is  *)
(* not; each is a set with at most one element.                             *)

Below(at) == {b \in memlist : b.at < at /\ \A c \in memlist : c.at < at => c.at <= b.at}
NotBelow(at) == {b \in memlist : b.at >= at /\ \A c \in memlist : c.at >= at => c.at >= b.at}

BugOverlaps(at, len) == \E q \in Below(at) : End(q) > at
Overlaps(at, len) ==
    \/ \E q \in Below(at) : End(q) > at
    \/ \E p \in NotBelow(at) : at + len > p.at

BugNeighbours(at, len) == {q \in Below(at) : End(q) = at}
Neighbours(at, len) ==
    {q \in Below(at) : End(q) = at} \union {p \in NotBelow(at) : p.at = at + len}

(* The freed bytes and the blocks that touch them become one block. *)
Joined(blocks) ==
    LET lo == Min({b.at : b \in blocks})
    IN Block(lo, Max({End(b) : b \in blocks}) - lo)

Freed(at, len) ==
    (memlist \ Neighbours(at, len))
        \union {Joined(Neighbours(at, len) \union {Block(at, len)})}

freemem(at, size) ==
    LET len == roundmb(size)
    IN IF size = 0 \/ at > MEMSIZE \/ at < 0 \/ Overlaps(at, len)
         THEN outcome' = <<"free", "SYSERR">> /\ UNCHANGED memlist
         ELSE outcome' = <<"free", "OK">> /\ memlist' = Freed(at, len)

(* freestk(p, len) with p the address of the stack's highest word and len   *)
(* the size that create() asked for, after its own rounding.                *)
freestk(top, len) == freemem(top - roundmb(len) + 4, roundmb(len))

(* A caller frees what it was given, with the size it asked for; ...        *)
free(u) ==
    /\ used' = used \ {u}
    /\ IF u.stack THEN freestk(u.at + u.len - 4, roundew(u.size))
                  ELSE freemem(u.at, u.size)

(* ... or frees bytes some of which are free: a block that was freed before, *)
(* or one with too large a size.                                             *)
freeTooMuch(at, size) ==
    /\ at % 4 = 0
    /\ \E b \in memlist : at .. at + roundmb(size) - 1 \intersect Bytes(b) # {}
    /\ freemem(at, size)
    /\ UNCHANGED used

(* A free block begins with its header, a struct mblock of 8 bytes.  What is *)
(* given out is a multiple of 8, but the first block is a multiple of 4 only  *)
(* (maxaddr is 4 below a round address): then 4 bytes may be left, and mlen   *)
(* is written over the first word of what follows.  From there on memory is   *)
(* what the owner of that word makes of it, and the model stops.              *)
HeadersFit == \A b \in memlist : b.len >= 8

Next ==
    /\ HeadersFit
    /\ \/ \E n \in HeapSizes : getmem(n) \/ refuse(roundmb(n))
       \/ \E n \in StackSizes : getstk(n) \/ refuse(roundew(n))
       \/ \E u \in used : free(u)
       \/ \E at \in MEMORY, n \in HeapSizes : freeTooMuch(at, n)

Spec == Init /\ [][Next]_vars

-----------------------------------------------------------------------------

(* Blocks are whole words, and what is given out whole headers. *)
TypeOK ==
    /\ \A b \in memlist : /\ b.at \in MEMORY /\ b.at % 4 = 0
                          /\ b.len \in 4 .. MEMSIZE /\ b.len % 4 = 0
                          /\ End(b) <= MEMSIZE
    /\ \A u \in used : Bytes(u) \subseteq MEMORY /\ u.len % 8 = 0 /\ u.stack \in BOOLEAN
    /\ outcome \in {"none", "alloc", "free"} \X {"OK", "SYSERR"}

(* Every byte is in exactly one free block or in exactly one block that was *)
(* given out: first fit, stacks cut from above, coalescing and rejected     *)
(* double frees neither lose memory nor give any of it out twice, as long    *)
(* as no header is written over what follows its block                       *)
(* (getmem.c:26-42, getstk.c:27-44, freemem.c:24-44).                       *)
MemoryPartitioned ==
  /\ TypeOK
  /\ \A i \in MEMORY :
        Cardinality({b \in memlist : i \in Bytes(b)})
            + Cardinality({u \in used : i \in Bytes(u)}) = 1

(* Free memory is never split between two adjacent blocks, so a request is  *)
(* refused only when no run of free bytes is long enough, and a rejected    *)
(* free changes nothing: the memory calls implement Heap.                   *)
H == INSTANCE Heap WITH
        Sizes <- {roundmb(n) : n \in HeapSizes} \union {roundew(n) : n \in StackSizes},
        used <- {Block(u.at, u.len) : u \in used}

ImplementsHeap == H!HeapSpec
===============================================================================
