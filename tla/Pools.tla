--------------------------------- MODULE Pools ---------------------------------
(***************************************************************************)
(* Buffer pools (xinu/sys/common/{mkpool,mkdpool,getbuf,freebuf}.c).       *)
(*                                                                         *)
(* The first word of a buffer links it into its pool's free list while it  *)
(* is free and holds the number of the pool while it is given out.  getbuf *)
(* and freebuf disable interrupts only around the list itself, so another  *)
(* process can run between the semaphore, the list and that word.          *)
(***************************************************************************)
EXTENDS Semaphores

CONSTANTS NBPOOLS,   \* size of bptab
          NBUFS      \* buffers that fit in memory

ASSUME PoolsAssumption == NBPOOLS \in Nat /\ NBUFS \in Nat

VARIABLES nbpools, bpnext, bpsem,   \* bptab
          word,                     \* the first word of every buffer
          made,                     \* buffers cut from memory so far
          holder                    \* history: process that a buffer was given to

poolVars == <<nbpools, bpnext, bpsem, word, made, holder>>

Pool == 0 .. NBPOOLS - 1
Buffer == 1 .. NBUFS
NULL == 0
Nobody == "nobody"

PoolsInit ==
    /\ nbpools = 0
    /\ bpnext = [i \in Pool |-> NULL]
    /\ bpsem = [i \in Pool |-> SYSERR]
    /\ word = [b \in Buffer |-> NULL]
    /\ made = 0
    /\ holder = [b \in Buffer |-> Nobody]

(* mkpool and mkdpool: the buffers are consecutive pieces of one block.    *)
(* Names beginning with Bug are faulty variants for the properties to      *)
(* reject.                                                                 *)
BugLinked(first, last) == [b \in Buffer |-> IF b \in first .. last THEN b + 1 ELSE word[b]]
Linked(first, last) ==
    [b \in Buffer |-> IF b \in first .. last - 1 THEN b + 1
                      ELSE IF b = last THEN NULL ELSE word[b]]

mkpool(p, numbufs) ==
    LET s == newsem(semaph, nextsem)
    IN /\ InUser(p)
       /\ nbpools < NBPOOLS
       /\ made + numbufs <= NBUFS
       /\ nbpools' = nbpools + 1
       /\ bpnext' = [bpnext EXCEPT ![nbpools] = made + 1]
       /\ bpsem' = [bpsem EXCEPT ![nbpools] = s]
       /\ semaph' = screate(semaph, s, numbufs)
       /\ nextsem' = SearchedTo(semaph, nextsem)
       /\ word' = Linked(made + 1, made + numbufs)
       /\ made' = made + numbufs
       /\ UNCHANGED <<holder, pc>>

-----------------------------------------------------------------------------

getbuf(p, pool) ==
    /\ InUser(p)
    /\ pool < nbpools
    /\ semaph' = wait(semaph, bpsem[pool], p)
    /\ Goto(p, At("unlink", pool, 0))
    /\ UNCHANGED <<nextsem, poolVars>>

(* A pool for which mkpool found no semaphore left never waits; once it is *)
(* empty getbuf follows the null link, and what it finds there is beyond   *)
(* this model.  A pool with a semaphore needs no such condition.           *)
getbufUnlink(p) ==
    LET pool == pc[p].a
        buf == bpnext[pool]
    IN /\ Reached(p, "unlink")
       /\ bpsem[pool] = SYSERR => buf # NULL
       /\ bpnext' = [bpnext EXCEPT ![pool] = word[buf]]
       /\ holder' = [holder EXCEPT ![buf] = p]
       /\ Goto(p, At("stamp", pool, buf))
       /\ UNCHANGED <<semVars, nbpools, bpsem, word, made>>

getbufStamp(p) ==
    /\ Reached(p, "stamp")
    /\ word' = [word EXCEPT ![pc[p].n] = pc[p].a]
    /\ Goto(p, User)
    /\ UNCHANGED <<semVars, nbpools, bpnext, bpsem, made, holder>>

(* freebuf of a buffer that the process holds: the pool number is read     *)
(* first, and a number out of range is refused.                            *)
freebuf(p, buf) ==
    /\ InUser(p)
    /\ holder[buf] = p
    /\ word[buf] \in 0 .. nbpools - 1
    /\ Goto(p, At("relink", word[buf], buf))
    /\ UNCHANGED <<semVars, poolVars>>

Relink(pool, buf) ==
    /\ word' = [word EXCEPT ![buf] = bpnext[pool]]
    /\ bpnext' = [bpnext EXCEPT ![pool] = buf]
    /\ holder' = [holder EXCEPT ![buf] = Nobody]
    /\ UNCHANGED <<nbpools, bpsem, made>>

freebufRelink(p) ==
    /\ Reached(p, "relink")
    /\ Relink(pc[p].a, pc[p].n)
    /\ Goto(p, At("release", pc[p].a, 0))
    /\ UNCHANGED semVars

BugAfterRelease(pool) == semaph
AfterRelease(pool) == signal(semaph, bpsem[pool])

freebufSignal(p) ==
    /\ Reached(p, "release")
    /\ semaph' = AfterRelease(pc[p].a)
    /\ Goto(p, User)
    /\ UNCHANGED <<nextsem, poolVars>>

PoolsStep(p, sizes) ==
    \/ \E n \in sizes : mkpool(p, n)
    \/ \E pool \in Pool : getbuf(p, pool)
    \/ getbufUnlink(p)
    \/ getbufStamp(p)
    \/ \E buf \in Buffer : freebuf(p, buf)
    \/ freebufRelink(p)
    \/ freebufSignal(p)

-----------------------------------------------------------------------------

(* The free list of a pool: the buffers that the links lead through, from   *)
(* bpnext to the first NULL.                                                *)
IsFreeList(pool, l) ==
    /\ bpnext[pool] = (IF l = <<>> THEN NULL ELSE l[1])
    /\ \A k \in 1 .. Len(l) : word[l[k]] = IF k = Len(l) THEN NULL ELSE l[k + 1]

Lists == UNION {[1 .. n -> Buffer] : n \in 0 .. NBUFS}
FreeList(pool) == CHOOSE l \in Lists : IsFreeList(pool, l)

(* Processes that wait() has let through and that have not yet unlinked. *)
Granted(pool) == {p \in Proc : Reached(p, "unlink") /\ pc[p].a = pool}
Releasing(pool) == {p \in Proc : Reached(p, "release") /\ pc[p].a = pool}
===============================================================================
