---------------------------- MODULE MemoryProofs ----------------------------
(* The memory calls keep every byte in exactly one block and implement Heap, *)
(* for every number of words and every set of request sizes, as long as free *)
(* blocks have room for their headers; they always have if the memory is a    *)
(* multiple of 8 bytes.                                                       *)
EXTENDS Memory, TLAPS, FiniteSetTheorems, WellFoundedInduction

(* The inductive invariant: free blocks neither overlap nor touch, and with  *)
(* the blocks that were given out they tile the memory.                      *)
Aligned(n) == n % 4 = 0
Whole(n) == n % 8 = 0

FreeTypes ==
    /\ memlist \subseteq [at : Nat, len : Nat]
    /\ \A b \in memlist : Aligned(b.at) /\ Aligned(b.len) /\ b.len >= 4 /\ End(b) <= MEMSIZE

Rounded(u) == u.len = IF u.stack THEN roundew(u.size) ELSE roundmb(u.size)

UsedTypes ==
    /\ used \subseteq [at : Nat, len : Nat, size : Nat \ {0}, stack : BOOLEAN]
    /\ \A u \in used : /\ Aligned(u.at) /\ Whole(u.len) /\ u.len >= 8 /\ End(u) <= MEMSIZE
                       /\ Rounded(u)
                       /\ u.stack => Whole(u.size)

Gap(b, c) == End(b) < c.at \/ End(c) < b.at
Apart(b, c) == End(b) <= c.at \/ End(c) <= b.at

FreeApart == \A b, c \in memlist : b # c => Gap(b, c)
UsedApart == \A u, v \in used : u # v => Apart(u, v)
FreeNotUsed == \A b \in memlist, u \in used : Apart(b, u)
Covered == \A i \in MEMORY : \/ \E b \in memlist : i \in Bytes(b)
                             \/ \E u \in used : i \in Bytes(u)

IInv ==
    /\ FreeTypes /\ UsedTypes
    /\ FreeApart /\ UsedApart /\ FreeNotUsed /\ Covered
    /\ outcome \in {"none", "alloc", "free"} \X {"OK", "SYSERR"}

-----------------------------------------------------------------------------
(* Numbers *)

LEMMA LeastElement ==
    ASSUME NEW T \in SUBSET Nat, T # {}
    PROVE  \E m \in T : \A k \in T : m <= k
<1> DEFINE R == OpToRel(<, Nat)
<1>1. IsWellFoundedOn(R, Nat)
  BY NatLessThanWellFounded
<1>2. \A x, y \in Nat : y < x => <<y, x>> \in R
  BY DEF OpToRel
<1> HIDE DEF R
<1>3. PICK m \in T : \A k \in T : ~ (<<k, m>> \in R)
  BY <1>1, WFMin
<1>4. ASSUME NEW k \in T PROVE m <= k
  <2>1. ~ (k < m)
    BY <1>2, <1>3
  <2> QED BY <2>1
<1> QED BY <1>4

LEMMA MinIs ==
    ASSUME NEW S \in SUBSET Int, NEW m \in S, \A k \in S : m <= k
    PROVE  Min(S) = m
<1>1. \E x \in S : \A y \in S : x <= y
  OBVIOUS
<1>2. Min(S) \in S /\ \A y \in S : Min(S) <= y
  BY <1>1, Zenon DEF Min
<1>3. /\ m \in Int /\ Min(S) \in Int /\ Min(S) <= m /\ m <= Min(S)
  BY <1>2
<1> QED BY <1>3

LEMMA MaxIs ==
    ASSUME NEW S \in SUBSET Int, NEW m \in S, \A k \in S : m >= k
    PROVE  Max(S) = m
<1>1. \E x \in S : \A y \in S : x >= y
  OBVIOUS
<1>2. Max(S) \in S /\ \A y \in S : Max(S) >= y
  BY <1>1, Zenon DEF Max
<1>3. m \in Int /\ Max(S) \in Int /\ Max(S) <= m /\ m <= Max(S)
  BY <1>2
<1> QED BY <1>3

LEMMA AlignedSums ==
    ASSUME NEW a \in Int, NEW b \in Int, Aligned(a), Aligned(b)
    PROVE  /\ Aligned(a + b) /\ Aligned(a - b)
           /\ a > b => a - b >= 4
BY DEF Aligned

LEMMA Rounding ==
    ASSUME NEW n \in Nat \ {0}
    PROVE  /\ roundmb(n) \in Nat /\ roundmb(n) >= 8 /\ Whole(roundmb(n))
           /\ Whole(n) => roundmb(n) = n /\ roundew(n) = n
           /\ roundew(n) \in Nat
BY DEF roundmb, roundew, Whole

LEMMA WholeIsAligned ==
    ASSUME NEW n \in Int, Whole(n)
    PROVE  Aligned(n)
BY DEF Whole, Aligned

-----------------------------------------------------------------------------
(* The free blocks that the calls look for *)

LEMMA MemoryTypes ==
    ASSUME IInv
    PROVE  /\ MEMSIZE \in Nat /\ Aligned(MEMSIZE)
           /\ \A b \in memlist : /\ b.at \in Nat /\ b.len \in Nat /\ b = Block(b.at, b.len)
                                 /\ b.len >= 4 /\ b.at + b.len <= MEMSIZE
                                 /\ Aligned(b.at) /\ Aligned(b.len)
           /\ \A u \in used : /\ u.at \in Nat /\ u.len \in Nat
                              /\ u.len >= 8 /\ u.at + u.len <= MEMSIZE
                              /\ Aligned(u.at) /\ Aligned(u.len) /\ Whole(u.len)
BY MemoryAssumption, WholeIsAligned DEF IInv, FreeTypes, UsedTypes, Aligned, End, Block

LEMMA FirstFitExists ==
    ASSUME IInv, NEW n \in Nat, Fitting(n) # {}
    PROVE  FirstFit(n) \in memlist /\ FirstFit(n).len >= n
<1> DEFINE T == {b.at : b \in Fitting(n)}
<1>1. T \in SUBSET Nat /\ T # {}
  BY MemoryTypes DEF Fitting
<1>2. PICK m \in T : \A k \in T : m <= k
  BY <1>1, LeastElement
<1>3. \E b \in Fitting(n) : \A c \in Fitting(n) : b.at <= c.at
  BY <1>2
<1>4. FirstFit(n) \in Fitting(n)
  BY <1>3, Zenon DEF FirstFit
<1> QED BY <1>4 DEF Fitting

LEMMA LastFitExists ==
    ASSUME IInv, NEW n \in Nat, Fitting(n) # {}
    PROVE  LastFit(n) \in memlist /\ LastFit(n).len >= n
<1> DEFINE T == {MEMSIZE - b.at : b \in Fitting(n)}
<1>1. T \in SUBSET Nat /\ T # {}
  BY MemoryTypes DEF Fitting
<1>2. PICK m \in T : \A k \in T : m <= k
  BY <1>1, LeastElement
<1>3. PICK b \in Fitting(n) : m = MEMSIZE - b.at
  BY <1>2
<1>4. ASSUME NEW c \in Fitting(n) PROVE b.at >= c.at
  <2>1. m <= MEMSIZE - c.at
    BY <1>2
  <2> QED BY <2>1, <1>3, MemoryTypes DEF Fitting
<1>5. LastFit(n) \in Fitting(n)
  BY <1>3, <1>4, Zenon DEF LastFit
<1> QED BY <1>5 DEF Fitting

(* A run of free bytes lies within one free block. *)
LEMMA RunInOneBlock ==
    ASSUME IInv, NEW at \in Nat, NEW n \in Nat \ {0},
           at .. at + n - 1 \subseteq MEMORY,
           \A u \in used : \A i \in at .. at + n - 1 : i \notin Bytes(u)
    PROVE  \E b \in memlist : b.at <= at /\ at + n <= End(b)
<1>1. \A i \in at .. at + n - 1 : \E b \in memlist : i \in Bytes(b)
  BY DEF IInv, Covered
<1>2. PICK b \in memlist : at \in Bytes(b)
  BY <1>1
<1>3. b.at <= at /\ at < End(b)
  BY <1>2, MemoryTypes DEF Bytes, End
<1>4. CASE at + n <= End(b)
  BY <1>3, <1>4
<1>5. CASE End(b) < at + n
  <2>1. End(b) \in at .. at + n - 1
    BY <1>3, <1>5, MemoryTypes DEF End
  <2>2. PICK c \in memlist : End(b) \in Bytes(c)
    BY <1>1, <2>1
  <2>3. c.at <= End(b) /\ End(b) < End(c)
    BY <2>2, MemoryTypes DEF Bytes, End
  <2>4. Gap(b, c)
    BY <2>3, MemoryTypes DEF IInv, FreeApart, End
  <2> QED BY <2>3, <2>4, MemoryTypes DEF Gap, End
<1> QED BY <1>3, <1>4, <1>5, MemoryTypes DEF End

-----------------------------------------------------------------------------
(* Init, and the two calls that give out memory *)

LEMMA InitGood == Init => IInv
<1> SUFFICES ASSUME Init PROVE IInv
  OBVIOUS
<1>1. MEMSIZE \in Nat /\ Aligned(MEMSIZE) /\ MEMSIZE > 0 /\ Aligned(0)
  BY MemoryAssumption DEF Aligned
<1>2. MEMSIZE >= 8
  BY MemoryAssumption
<1>3. Block(0, MEMSIZE) \in [at : Nat, len : Nat]
  BY <1>1 DEF Block
<1>4. FreeTypes
  BY <1>1, <1>2, <1>3 DEF Init, FreeTypes, Block, End
<1>5. Covered
  BY <1>1 DEF Init, Covered, MEMORY, Block, Bytes, End
<1> QED BY <1>4, <1>5 DEF Init, IInv, UsedTypes, FreeApart, UsedApart, FreeNotUsed

(* x is cut out of the free block b, of which at most one block rest remains. *)
CutFrom(b, x, rest) ==
    /\ b.at <= x.at /\ End(x) <= End(b)
    /\ \A r \in rest : b.at <= r.at /\ End(r) <= End(b) /\ Apart(r, x)
    /\ \A r, s \in rest : r = s
    /\ \A i \in Bytes(b) : i \in Bytes(x) \/ \E r \in rest : i \in Bytes(r)

LEMMA Allocated ==
    ASSUME IInv, NEW b \in memlist,
           NEW x \in [at : Nat, len : Nat, size : Nat \ {0}, stack : BOOLEAN],
           Aligned(x.at), Whole(x.len), x.len >= 8, Rounded(x), x.stack => Whole(x.size),
           NEW rest \in SUBSET [at : Nat, len : Nat],
           \A r \in rest : Aligned(r.at) /\ Aligned(r.len) /\ r.len >= 4,
           CutFrom(b, x, rest),
           memlist' = (memlist \ {b}) \cup rest,
           used' = used \cup {x},
           outcome' = <<"alloc", "OK">>
    PROVE  IInv'
<1>1. MEMSIZE \in Nat /\ End(b) <= MEMSIZE
  BY MemoryTypes DEF End
<1>2. FreeTypes'
  BY <1>1, MemoryTypes DEF IInv, FreeTypes, CutFrom, End
<1>3. UsedTypes'
  BY <1>1, MemoryTypes DEF IInv, UsedTypes, CutFrom, End
<1>4. ASSUME NEW c \in memlist \ {b}
      PROVE  /\ \A r \in rest : Gap(r, c) /\ Gap(c, r)
             /\ Gap(x, c) /\ Gap(c, x)
  <2>1. Gap(b, c)
    BY DEF IInv, FreeApart
  <2> QED BY <2>1, MemoryTypes DEF CutFrom, Gap, End
<1>5. FreeApart'
  BY <1>4 DEF IInv, FreeApart, CutFrom
<1>6. ASSUME NEW u \in used
      PROVE  /\ Apart(x, u) /\ Apart(u, x)
             /\ \A r \in rest : Apart(r, u)
  <2>1. Apart(b, u)
    BY DEF IInv, FreeNotUsed
  <2> QED BY <2>1, MemoryTypes DEF CutFrom, Apart, End
<1>7. UsedApart'
  BY <1>6 DEF IInv, UsedApart
<1>8. FreeNotUsed'
  <2>1. ASSUME NEW c \in memlist \ {b} PROVE Apart(c, x)
    BY <1>4, MemoryTypes DEF Gap, Apart, End
  <2> QED BY <2>1, <1>6 DEF IInv, FreeNotUsed, CutFrom
<1>9. Covered'
  BY DEF IInv, Covered, CutFrom
<1> QED BY <1>2, <1>3, <1>5, <1>7, <1>8, <1>9 DEF IInv

LEMMA getmemStep ==
    ASSUME IInv, NEW nbytes \in HeapSizes, getmem(nbytes)
    PROVE  IInv'
<1> DEFINE n == roundmb(nbytes)
           b == FirstFit(n)
           x == Heap(b.at, n, nbytes)
<1>1. nbytes \in Nat \ {0}
  BY MemoryAssumption
<1>2. n \in Nat /\ n >= 8 /\ Whole(n) /\ Aligned(n)
  BY <1>1, Rounding, WholeIsAligned
<1>3. b \in memlist /\ b.len >= n
  BY <1>2, FirstFitExists DEF getmem
<1>4. /\ memlist' = (memlist \ {b}) \cup Leftover(b, n)
      /\ used' = used \cup {x}
      /\ outcome' = <<"alloc", "OK">>
  BY DEF getmem
<1>5. /\ b.at \in Nat /\ b.len \in Nat /\ Aligned(b.at) /\ Aligned(b.len)
  BY <1>3, MemoryTypes
<1>6. Rounded(x)
  BY DEF Rounded, Heap
<1> HIDE DEF n, b
<1>7. /\ x \in [at : Nat, len : Nat, size : Nat \ {0}, stack : BOOLEAN]
      /\ x.at = b.at /\ x.len = n /\ x.stack = FALSE
  BY <1>1, <1>2, <1>5 DEF Heap
<1> HIDE DEF x
<1>8. b.len - n \in Nat /\ Aligned(b.len - n) /\ Aligned(b.at + n)
      /\ (b.len # n => b.len - n >= 4)
  <2>1. b.len \in Int /\ n \in Int /\ b.at \in Int
    BY <1>2, <1>5
  <2>2. Aligned(b.len - n) /\ (b.len > n => b.len - n >= 4)
    BY <1>2, <1>5, <2>1, AlignedSums
  <2>3. Aligned(b.at + n)
    BY <1>2, <1>5, <2>1, AlignedSums
  <2> QED BY <1>2, <1>3, <1>5, <2>2, <2>3
<1>9. ASSUME NEW r \in Leftover(b, n)
      PROVE  r = Block(b.at + n, b.len - n) /\ b.len # n
  BY DEF Leftover
<1>10. /\ Leftover(b, n) \subseteq [at : Nat, len : Nat]
       /\ \A r \in Leftover(b, n) : Aligned(r.at) /\ Aligned(r.len) /\ r.len >= 4
  BY <1>2, <1>5, <1>8, <1>9 DEF Block
<1>11. CutFrom(b, x, Leftover(b, n))
  <2>1. CASE b.len = n
    BY <2>1, <1>2, <1>5, <1>7 DEF CutFrom, Leftover, Bytes, End
  <2>2. CASE b.len # n
    <3>1. Leftover(b, n) = {Block(b.at + n, b.len - n)}
      BY <2>2 DEF Leftover
    <3> QED BY <3>1, <1>2, <1>3, <1>5, <1>7 DEF CutFrom, Block, Bytes, End, Apart
  <2> QED BY <2>1, <2>2
<1> QED BY <1>2, <1>3, <1>4, <1>5, <1>6, <1>7, <1>10, <1>11, Allocated

LEMMA getstkStep ==
    ASSUME IInv, NEW nbytes \in StackSizes, getstk(nbytes)
    PROVE  IInv'
<1> DEFINE n == roundew(nbytes)
           b == LastFit(n)
           x == Stack(End(b) - n, n, nbytes)
           rest == IF b.len = n THEN {} ELSE {Block(b.at, b.len - n)}
<1>1. nbytes \in Nat \ {0} /\ Whole(nbytes)
  BY MemoryAssumption, StackAssumption DEF Whole
<1>2. n \in Nat /\ n >= 8 /\ Whole(n) /\ Aligned(n)
  BY <1>1, Rounding, WholeIsAligned
<1>3. b \in memlist /\ b.len >= n
  BY <1>2, LastFitExists DEF getstk
<1>4. /\ memlist' = (memlist \ {b}) \cup rest
      /\ used' = used \cup {x}
      /\ outcome' = <<"alloc", "OK">>
  BY DEF getstk
<1>5. /\ b.at \in Nat /\ b.len \in Nat /\ Aligned(b.at) /\ Aligned(b.len)
  BY <1>3, MemoryTypes
<1>6. Rounded(x)
  BY DEF Rounded, Stack
<1> HIDE DEF n, b
<1>7. /\ x \in [at : Nat, len : Nat, size : Nat \ {0}, stack : BOOLEAN]
      /\ x.at = b.at + (b.len - n) /\ x.len = n /\ x.size = nbytes
  BY <1>1, <1>2, <1>3, <1>5 DEF Stack, End
<1> HIDE DEF x
<1>8. b.len - n \in Nat /\ Aligned(b.len - n) /\ (b.len # n => b.len - n >= 4)
  <2>1. b.len \in Int /\ n \in Int
    BY <1>2, <1>5
  <2>2. Aligned(b.len - n) /\ (b.len > n => b.len - n >= 4)
    BY <1>2, <1>5, <2>1, AlignedSums
  <2> QED BY <1>2, <1>3, <1>5, <2>2
<1>9. Aligned(x.at)
  <2>1. b.at \in Int /\ b.len - n \in Int
    BY <1>5, <1>8
  <2> QED BY <2>1, <1>5, <1>7, <1>8, AlignedSums
<1>10. /\ rest \subseteq [at : Nat, len : Nat]
       /\ \A r \in rest : Aligned(r.at) /\ Aligned(r.len) /\ r.len >= 4
  BY <1>5, <1>8 DEF Block
<1>11. CutFrom(b, x, rest)
  <2>1. CASE b.len = n
    BY <2>1, <1>2, <1>5, <1>7 DEF CutFrom, Bytes, End
  <2>2. CASE b.len # n
    <3>1. rest = {Block(b.at, b.len - n)}
      BY <2>2
    <3> HIDE DEF rest
    <3> QED BY <3>1, <1>2, <1>3, <1>5, <1>7 DEF CutFrom, Block, Bytes, End, Apart
  <2> QED BY <2>1, <2>2
<1> HIDE DEF rest
<1> QED BY <1>1, <1>2, <1>3, <1>4, <1>5, <1>6, <1>7, <1>9, <1>10, <1>11, Allocated

-----------------------------------------------------------------------------
(* freemem: the block u that comes back touches no block but its neighbours. *)

Touching(u) == {b \in memlist : End(b) = u.at \/ b.at = End(u)}

LEMMA NeighboursTouch ==
    ASSUME IInv, NEW u \in used
    PROVE  /\ ~ Overlaps(u.at, u.len)
           /\ Neighbours(u.at, u.len) = Touching(u)
<1>1. u.at \in Nat /\ u.len \in Nat /\ u.len >= 8
  BY MemoryTypes
<1>2. ASSUME NEW b \in memlist
      PROVE  b.at \in Nat /\ b.len \in Nat /\ b.len >= 4 /\ Apart(b, u)
  BY MemoryTypes DEF IInv, FreeNotUsed
<1>3. ~ Overlaps(u.at, u.len)
  BY <1>1, <1>2 DEF Overlaps, Below, NotBelow, Apart, End
<1>4. ASSUME NEW b \in memlist, End(b) = u.at PROVE b \in Below(u.at)
  <2>1. b.at < u.at
    BY <1>1, <1>2, <1>4 DEF End
  <2>2. ASSUME NEW c \in memlist, c.at < u.at PROVE c.at <= b.at
    <3>1. CASE c = b
      BY <3>1, <1>2
    <3>2. CASE c # b
      BY <3>2, <2>2, <1>1, <1>2, <1>4 DEF IInv, FreeApart, Gap, End
    <3> QED BY <3>1, <3>2
  <2> QED BY <2>1, <2>2 DEF Below
<1>5. ASSUME NEW b \in memlist, b.at = End(u) PROVE b \in NotBelow(u.at)
  <2>1. b.at >= u.at
    BY <1>1, <1>2, <1>5 DEF End
  <2>2. ASSUME NEW c \in memlist, c.at >= u.at PROVE c.at >= b.at
    BY <2>2, <1>1, <1>2, <1>5 DEF Apart, End
  <2> QED BY <2>1, <2>2 DEF NotBelow
<1>6. Neighbours(u.at, u.len) \subseteq Touching(u)
  BY DEF Neighbours, Touching, Below, NotBelow, End
<1>7. Touching(u) \subseteq Neighbours(u.at, u.len)
  BY <1>4, <1>5 DEF Neighbours, Touching, End
<1> QED BY <1>3, <1>6, <1>7

(* j spans u and exactly the blocks that touch it. *)
Spans(j, u) ==
    /\ j \in [at : Nat, len : Nat]
    /\ Aligned(j.at) /\ Aligned(j.len) /\ j.len >= 4
    /\ j.at <= u.at /\ End(u) <= End(j) /\ End(j) <= MEMSIZE
    /\ \/ j.at = u.at /\ ~ \E q \in memlist : End(q) = u.at
       \/ \E q \in memlist : End(q) = u.at /\ j.at = q.at
    /\ \/ End(j) = End(u) /\ ~ \E p \in memlist : p.at = End(u)
       \/ \E p \in memlist : p.at = End(u) /\ End(j) = End(p)

LEMMA JoinedSpans ==
    ASSUME IInv, NEW u \in used
    PROVE  Spans(Joined(Touching(u) \cup {Block(u.at, u.len)}), u)
<1> DEFINE blocks == Touching(u) \cup {Block(u.at, u.len)}
           starts == {b.at : b \in blocks}
           ends == {End(b) : b \in blocks}
<1>1. u.at \in Nat /\ u.len \in Nat /\ u.len >= 8 /\ u.at + u.len <= MEMSIZE
      /\ Aligned(u.at) /\ Aligned(u.len) /\ MEMSIZE \in Nat
  BY MemoryTypes
<1>2. ASSUME NEW b \in memlist
      PROVE  /\ b.at \in Nat /\ b.len \in Nat /\ b.len >= 4 /\ b.at + b.len <= MEMSIZE
             /\ Aligned(b.at) /\ Aligned(b.len)
  BY MemoryTypes
<1>3. Block(u.at, u.len).at = u.at /\ End(Block(u.at, u.len)) = End(u)
  BY DEF Block, End
<1>4. starts \in SUBSET Int /\ ends \in SUBSET Int /\ u.at \in starts /\ End(u) \in ends
  BY <1>1, <1>2, <1>3 DEF Touching, End
<1>5. PICK lo \in starts :
         /\ lo = Min(starts) /\ lo \in Nat /\ lo <= u.at /\ Aligned(lo)
         /\ \/ lo = u.at /\ ~ \E q \in memlist : End(q) = u.at
            \/ \E q \in memlist : End(q) = u.at /\ lo = q.at
  <2>1. CASE \E q \in memlist : End(q) = u.at
    <3>1. PICK q \in memlist : End(q) = u.at
      BY <2>1
    <3>2. q.at \in starts
      BY <3>1 DEF Touching
    <3>3. ASSUME NEW b \in blocks PROVE q.at <= b.at
      <4>1. CASE b = Block(u.at, u.len)
        BY <4>1, <3>1, <1>1, <1>2, <1>3 DEF End
      <4>2. CASE b \in memlist /\ b.at = End(u)
        BY <4>2, <3>1, <1>1, <1>2 DEF End
      <4>3. CASE b \in memlist /\ End(b) = u.at
        BY <4>3, <3>1, <1>1, <1>2 DEF IInv, FreeApart, Gap, End
      <4> QED BY <4>1, <4>2, <4>3 DEF Touching
    <3>4. \A k \in starts : q.at <= k
      BY <3>3
    <3> HIDE DEF starts
    <3>5. Min(starts) = q.at
      BY <3>2, <3>4, <1>4, MinIs
    <3> QED BY <3>1, <3>2, <3>5, <1>1, <1>2 DEF End
  <2>2. CASE ~ \E q \in memlist : End(q) = u.at
    <3>1. ASSUME NEW b \in blocks PROVE u.at <= b.at
      BY <2>2, <1>1, <1>2, <1>3 DEF Touching, End
    <3>2. \A k \in starts : u.at <= k
      BY <3>1
    <3> HIDE DEF starts
    <3>3. Min(starts) = u.at
      BY <3>2, <1>4, MinIs
    <3> QED BY <2>2, <3>3, <1>1, <1>4
  <2> QED BY <2>1, <2>2
<1>6. PICK hi \in ends :
         /\ hi = Max(ends) /\ hi \in Nat /\ End(u) <= hi /\ hi <= MEMSIZE /\ Aligned(hi)
         /\ \/ hi = End(u) /\ ~ \E p \in memlist : p.at = End(u)
            \/ \E p \in memlist : p.at = End(u) /\ hi = End(p)
  <2>0. Aligned(End(u))
    <3>1. u.at \in Int /\ u.len \in Int
      BY <1>1
    <3> QED BY <3>1, <1>1, AlignedSums DEF End
  <2>1. CASE \E p \in memlist : p.at = End(u)
    <3>1. PICK p \in memlist : p.at = End(u)
      BY <2>1
    <3>2. End(p) \in ends
      BY <3>1 DEF Touching
    <3>3. ASSUME NEW b \in blocks PROVE End(p) >= End(b)
      <4>1. CASE b = Block(u.at, u.len)
        BY <4>1, <3>1, <1>1, <1>2, <1>3 DEF End
      <4>2. CASE b \in memlist /\ b.at = End(u)
        BY <4>2, <3>1, <1>1, <1>2 DEF IInv, FreeApart, Gap, End
      <4>3. CASE b \in memlist /\ End(b) = u.at
        BY <4>3, <3>1, <1>1, <1>2 DEF End
      <4> QED BY <4>1, <4>2, <4>3 DEF Touching
    <3>4. \A k \in ends : End(p) >= k
      BY <3>3
    <3> HIDE DEF ends
    <3>5. Max(ends) = End(p)
      BY <3>2, <3>4, <1>4, MaxIs
    <3>6. Aligned(End(p))
      BY <1>2, AlignedSums DEF End
    <3> QED BY <3>1, <3>2, <3>5, <3>6, <1>1, <1>2 DEF End
  <2>2. CASE ~ \E p \in memlist : p.at = End(u)
    <3>1. ASSUME NEW b \in blocks PROVE End(u) >= End(b)
      BY <2>2, <1>1, <1>2, <1>3 DEF Touching, End
    <3>2. \A k \in ends : End(u) >= k
      BY <3>1
    <3> HIDE DEF ends
    <3>3. Max(ends) = End(u)
      BY <3>2, <1>4, MaxIs
    <3> QED BY <2>0, <2>2, <3>3, <1>1, <1>4 DEF End
  <2> QED BY <2>1, <2>2
<1>7. Joined(blocks) = Block(lo, hi - lo)
  BY <1>5, <1>6 DEF Joined
<1>8. Aligned(hi - lo) /\ hi - lo >= 4
  <2>1. Aligned(hi - lo)
    BY <1>5, <1>6, AlignedSums
  <2> QED BY <2>1, <1>1, <1>5, <1>6 DEF End
<1> HIDE DEF blocks, starts, ends
<1>9. /\ Block(lo, hi - lo) \in [at : Nat, len : Nat]
      /\ Block(lo, hi - lo).at = lo
      /\ Block(lo, hi - lo).len = hi - lo
      /\ End(Block(lo, hi - lo)) = hi
  BY <1>5, <1>6, <1>8 DEF Block, End
<1>10. Spans(Block(lo, hi - lo), u)
  BY <1>5, <1>6, <1>8, <1>9 DEF Spans
<1> QED BY <1>7, <1>10 DEF blocks

LEMMA FreedBytes ==
    ASSUME IInv, NEW u \in used, free(u)
    PROVE  /\ memlist' = Freed(u.at, u.len)
           /\ used' = used \ {u}
           /\ outcome' = <<"free", "OK">>
<1>1. /\ u.at \in Nat /\ u.len \in Nat /\ u.len >= 8 /\ u.at + u.len <= MEMSIZE
      /\ MEMSIZE \in Nat /\ Whole(u.len)
  BY MemoryTypes
<1>2. u.size \in Nat \ {0} /\ u.stack \in BOOLEAN /\ Rounded(u) /\ (u.stack => Whole(u.size))
  BY DEF IInv, UsedTypes
<1>3. ~ Overlaps(u.at, u.len)
  BY NeighboursTouch
<1>4. ASSUME NEW size \in Nat \ {0}, roundmb(size) = u.len, freemem(u.at, size)
      PROVE  memlist' = Freed(u.at, u.len) /\ outcome' = <<"free", "OK">>
  BY <1>1, <1>3, <1>4 DEF freemem
<1>5. CASE u.stack
  <2>1. roundew(u.size) = u.len /\ roundmb(u.len) = u.len
    BY <1>1, <1>2, <1>5, Rounding DEF Rounded
  <2> DEFINE base == (u.at + u.len - 4) - roundmb(roundew(u.size)) + 4
             size == roundmb(roundew(u.size))
  <2>2. base = u.at /\ size = u.len
    BY <1>1, <2>1
  <2>3. freemem(base, size)
    BY <1>5, Zenon DEF free, freestk
  <2> HIDE DEF base, size
  <2>4. freemem(u.at, u.len)
    BY <2>2, <2>3
  <2> QED BY <1>1, <1>4, <2>1, <2>4 DEF free
<1>6. CASE ~ u.stack
  BY <1>2, <1>4, <1>6 DEF free, Rounded
<1> QED BY <1>2, <1>5, <1>6

LEMMA freeStep ==
    ASSUME IInv, NEW u \in used, free(u)
    PROVE  IInv'
<1> DEFINE j == Joined(Touching(u) \cup {Block(u.at, u.len)})
<1>1. Spans(j, u)
  BY JoinedSpans
<1> HIDE DEF j
<1>2. /\ memlist' = (memlist \ Touching(u)) \cup {j}
      /\ used' = used \ {u}
      /\ outcome' = <<"free", "OK">>
  BY FreedBytes, NeighboursTouch DEF Freed, j
<1>3. /\ u.at \in Nat /\ u.len \in Nat /\ u.len >= 8 /\ u.at + u.len <= MEMSIZE
      /\ MEMSIZE \in Nat /\ j.at \in Nat /\ j.len \in Nat
  BY <1>1, MemoryTypes DEF Spans
<1>4. ASSUME NEW b \in memlist
      PROVE  b.at \in Nat /\ b.len \in Nat /\ b.len >= 4 /\ Apart(b, u)
  BY MemoryTypes DEF IInv, FreeNotUsed
<1>5. FreeTypes'
  BY <1>1, <1>2 DEF IInv, FreeTypes, Spans, End
<1>6. UsedTypes'
  BY <1>2 DEF IInv, UsedTypes, Rounded, End
<1>7. ASSUME NEW c \in memlist \ Touching(u) PROVE Gap(c, j) /\ Gap(j, c)
  <2>1. End(c) < u.at \/ End(u) < c.at
    BY <1>3, <1>4 DEF Touching, Apart, End
  <2>2. CASE End(c) < u.at
    <3>1. CASE j.at = u.at
      BY <2>2, <3>1, <1>3, <1>4 DEF Gap, End
    <3>2. ASSUME NEW q \in memlist, End(q) = u.at, j.at = q.at PROVE End(c) < j.at
      BY <2>2, <3>2, <1>3, <1>4 DEF IInv, FreeApart, Gap, End
    <3> QED BY <3>1, <3>2, <1>1 DEF Spans, Gap
  <2>3. CASE End(u) < c.at
    <3>1. CASE End(j) = End(u)
      BY <2>3, <3>1, <1>3, <1>4 DEF Gap, End
    <3>2. ASSUME NEW p \in memlist, p.at = End(u), End(j) = End(p) PROVE End(j) < c.at
      BY <2>3, <3>2, <1>3, <1>4 DEF IInv, FreeApart, Gap, End
    <3> QED BY <3>1, <3>2, <1>1 DEF Spans, Gap
  <2> QED BY <2>1, <2>2, <2>3
<1>8. FreeApart'
  BY <1>2, <1>7 DEF IInv, FreeApart
<1>9. UsedApart'
  BY <1>2 DEF IInv, UsedApart
<1>10. ASSUME NEW v \in used \ {u} PROVE Apart(j, v)
  <2>0. v.at \in Nat /\ v.len \in Nat /\ v.len >= 8
    BY MemoryTypes
  <2>1. Apart(v, u)
    BY DEF IInv, UsedApart
  <2>2. CASE End(v) <= u.at
    <3>1. CASE j.at = u.at
      BY <2>2, <3>1 DEF Apart
    <3>2. ASSUME NEW q \in memlist, End(q) = u.at, j.at = q.at PROVE End(v) <= j.at
      BY <2>0, <2>2, <3>2, <1>3, <1>4 DEF IInv, FreeNotUsed, Apart, End
    <3> QED BY <3>1, <3>2, <1>1 DEF Spans, Apart
  <2>3. CASE End(u) <= v.at
    <3>1. CASE End(j) = End(u)
      BY <2>3, <3>1 DEF Apart
    <3>2. ASSUME NEW p \in memlist, p.at = End(u), End(j) = End(p) PROVE End(j) <= v.at
      BY <2>0, <2>3, <3>2, <1>3, <1>4 DEF IInv, FreeNotUsed, Apart, End
    <3> QED BY <3>1, <3>2, <1>1 DEF Spans, Apart
  <2> QED BY <2>1, <2>2, <2>3 DEF Apart
<1>11. FreeNotUsed'
  BY <1>2, <1>10 DEF IInv, FreeNotUsed
<1>12. Bytes(u) \subseteq Bytes(j) /\ \A b \in Touching(u) : Bytes(b) \subseteq Bytes(j)
  <2>1. Bytes(u) \subseteq Bytes(j)
    BY <1>1, <1>3 DEF Spans, Bytes, End
  <2>2. ASSUME NEW b \in memlist, End(b) = u.at PROVE j.at = b.at
    <3>1. PICK q \in memlist : End(q) = u.at /\ j.at = q.at
      BY <2>2, <1>1 DEF Spans
    <3>2. q = b
      BY <2>2, <3>1, <1>4 DEF IInv, FreeApart, Gap, End
    <3> QED BY <3>1, <3>2
  <2>3. ASSUME NEW b \in memlist, b.at = End(u) PROVE End(j) = End(b)
    <3>1. PICK p \in memlist : p.at = End(u) /\ End(j) = End(p)
      BY <2>3, <1>1 DEF Spans
    <3>2. p = b
      BY <2>3, <3>1, <1>4 DEF IInv, FreeApart, Gap, End
    <3> QED BY <3>1, <3>2
  <2>4. ASSUME NEW b \in Touching(u) PROVE j.at <= b.at /\ End(b) <= End(j)
    BY <2>2, <2>3, <1>1, <1>3, <1>4 DEF Touching, Spans, End
  <2>5. ASSUME NEW b \in Touching(u) PROVE Bytes(b) \subseteq Bytes(j)
    BY <2>4, <1>3, <1>4 DEF Touching, Bytes, End
  <2> QED BY <2>1, <2>5
<1>13. Covered'
  BY <1>2, <1>12 DEF IInv, Covered
<1> QED BY <1>2, <1>5, <1>6, <1>8, <1>9, <1>11, <1>13 DEF IInv

(* A free of bytes some of which are free finds a free block in the way. *)
LEMMA freeTooMuchRejected ==
    ASSUME IInv, NEW at \in MEMORY, NEW size \in HeapSizes, freeTooMuch(at, size)
    PROVE  outcome' = <<"free", "SYSERR">> /\ UNCHANGED <<memlist, used>>
<1> DEFINE len == roundmb(size)
<1>1. at \in Nat /\ len \in Nat /\ len >= 8
  BY MemoryAssumption, Rounding DEF MEMORY
<1>0. PICK b \in memlist : at .. at + len - 1 \intersect Bytes(b) # {}
  BY DEF freeTooMuch
<1>2. PICK i \in at .. at + len - 1 : i \in Bytes(b)
  BY <1>0
<1>3. b.at \in Nat /\ b.len \in Nat /\ b.at <= i /\ i < End(b) /\ at <= i /\ i < at + len
  BY <1>1, <1>2, MemoryTypes DEF Bytes, End
<1> HIDE DEF len
<1>4. ASSUME b.at < at PROVE Overlaps(at, len)
  <2>1. ASSUME NEW c \in memlist, c.at < at PROVE c.at <= b.at
    BY <2>1, <1>1, <1>3, MemoryTypes DEF IInv, FreeApart, Gap, End
  <2>2. b \in Below(at)
    BY <1>4, <2>1 DEF Below
  <2> QED BY <2>2, <1>1, <1>3 DEF Overlaps, End
<1>5. ASSUME at <= b.at PROVE Overlaps(at, len)
  <2> DEFINE T == {c.at : c \in {c \in memlist : c.at >= at}}
  <2>1. T \in SUBSET Nat /\ T # {}
    BY <1>5, MemoryTypes
  <2>2. PICK m \in T : \A k \in T : m <= k
    BY <2>1, LeastElement
  <2>3. PICK c \in memlist : c.at >= at /\ m = c.at
    BY <2>2
  <2>4. c \in NotBelow(at) /\ c.at <= b.at
    BY <2>2, <2>3, <1>5 DEF NotBelow
  <2> QED BY <2>4, <1>1, <1>3, MemoryTypes DEF Overlaps
<1>6. b.at < at \/ at <= b.at
  BY <1>1, <1>3
<1>7. Overlaps(at, len)
  BY <1>4, <1>5, <1>6
<1> QED BY <1>7 DEF freeTooMuch, freemem, len

-----------------------------------------------------------------------------
(* The theorems *)

LEMMA refuseStep ==
    ASSUME IInv, NEW n, refuse(n)
    PROVE  IInv'
BY DEF refuse, IInv, FreeTypes, UsedTypes, FreeApart, UsedApart, FreeNotUsed, Covered, Rounded,
       End, Gap, Apart, Bytes

LEMMA NextKeeps ==
    ASSUME IInv, [Next]_vars
    PROVE  IInv'
<1>1. ASSUME UNCHANGED <<memlist, used>>,
             outcome' \in {"none", "alloc", "free"} \X {"OK", "SYSERR"}
      PROVE  IInv'
  BY <1>1 DEF IInv, FreeTypes, UsedTypes, FreeApart, UsedApart, FreeNotUsed, Covered, Rounded,
              End, Gap, Apart, Bytes
<1>2. CASE UNCHANGED vars
  BY <1>1, <1>2 DEF vars, IInv
<1>3. ASSUME NEW at \in MEMORY, NEW n \in HeapSizes, freeTooMuch(at, n)
      PROVE  IInv'
  BY <1>1, <1>3, freeTooMuchRejected
<1> QED BY <1>2, <1>3, getmemStep, getstkStep, refuseStep, freeStep DEF Next

(* The invariant holds in every reachable state, whatever the number of     *)
(* words and the sizes of the requests: up to and with the first header     *)
(* that is written over what follows its block.                             *)
THEOREM MemoryInvariance == Spec => []IInv
<1>1. Init => IInv
  BY InitGood
<1>2. IInv /\ [Next]_vars => IInv'
  BY NextKeeps
<1> QED BY <1>1, <1>2, PTL DEF Spec

(* Where the length of the memory is a multiple of 8, no header ever lies     *)
(* outside of its block, for then every block begins and ends at one.         *)
WholeBlocks ==
    /\ \A b \in memlist : Whole(b.at) /\ Whole(b.len)
    /\ \A u \in used : Whole(u.at)

LEMMA WholeSums ==
    ASSUME NEW a \in Int, NEW b \in Int, Whole(a), Whole(b)
    PROVE  Whole(a + b) /\ Whole(a - b)
BY DEF Whole

LEMMA WholeBlocksKept ==
    ASSUME IInv, WholeBlocks, [Next]_vars
    PROVE  WholeBlocks'
<1>0. /\ \A b \in memlist : b.at \in Nat /\ b.len \in Nat /\ Whole(b.at) /\ Whole(b.len)
      /\ \A u \in used : u.at \in Nat /\ u.len \in Nat /\ Whole(u.at) /\ Whole(u.len)
  BY MemoryTypes DEF WholeBlocks
<1>1. ASSUME NEW nbytes \in HeapSizes, getmem(nbytes) PROVE WholeBlocks'
  <2> DEFINE n == roundmb(nbytes)
             b == FirstFit(n)
  <2>1. n \in Nat /\ Whole(n)
    BY MemoryAssumption, Rounding
  <2>2. b \in memlist
    BY <1>1, <2>1, FirstFitExists DEF getmem
  <2>3. memlist' = (memlist \ {b}) \cup Leftover(b, n) /\ used' = used \cup {Heap(b.at, n, nbytes)}
    BY <1>1 DEF getmem
  <2> HIDE DEF n, b
  <2>4. Whole(b.at + n) /\ Whole(b.len - n)
    <3>1. b.at \in Int /\ b.len \in Int /\ n \in Int
      BY <1>0, <2>1, <2>2
    <3> QED BY <3>1, <1>0, <2>1, <2>2, WholeSums
  <2> QED BY <1>0, <2>2, <2>3, <2>4 DEF WholeBlocks, Leftover, Block, Heap
<1>2. ASSUME NEW nbytes \in StackSizes, getstk(nbytes) PROVE WholeBlocks'
  <2> DEFINE n == roundew(nbytes)
             b == LastFit(n)
  <2>1. n \in Nat /\ Whole(n)
    BY MemoryAssumption, StackAssumption, Rounding DEF Whole
  <2>2. b \in memlist
    BY <1>2, <2>1, LastFitExists DEF getstk
  <2>3. /\ memlist' = (memlist \ {b}) \cup (IF b.len = n THEN {} ELSE {Block(b.at, b.len - n)})
        /\ used' = used \cup {Stack(End(b) - n, n, nbytes)}
    BY <1>2 DEF getstk
  <2> HIDE DEF n, b
  <2>4. Whole(b.len - n) /\ Whole(End(b) - n)
    <3>1. b.at \in Int /\ b.len \in Int /\ n \in Int /\ b.at + b.len \in Int
      BY <1>0, <2>1, <2>2
    <3>2. Whole(b.at + b.len)
      BY <3>1, <1>0, <2>2, WholeSums
    <3> QED BY <3>1, <3>2, <1>0, <2>1, <2>2, WholeSums DEF End
  <2> QED BY <1>0, <2>2, <2>3, <2>4 DEF WholeBlocks, Block, Stack
<1>3. ASSUME NEW u \in used, free(u) PROVE WholeBlocks'
  <2> DEFINE j == Joined(Touching(u) \cup {Block(u.at, u.len)})
  <2>1. Spans(j, u)
    BY JoinedSpans
  <2> HIDE DEF j
  <2>2. memlist' = (memlist \ Touching(u)) \cup {j} /\ used' = used \ {u}
    BY <1>3, FreedBytes, NeighboursTouch DEF Freed, j
  <2>3. j.at \in Nat /\ j.len \in Nat /\ Whole(j.at)
    BY <1>0, <2>1 DEF Spans
  <2>4. Whole(End(j)) /\ j.len = End(j) - j.at
    <3>1. Whole(End(u)) /\ \A p \in memlist : Whole(End(p))
      <4>1. u.at \in Int /\ u.len \in Int /\ \A p \in memlist : p.at \in Int /\ p.len \in Int
        BY <1>0
      <4> QED BY <4>1, <1>0, WholeSums DEF End
    <3> QED BY <2>1, <2>3, <3>1 DEF Spans, End
  <2>5. Whole(j.len)
    <3>1. j.at \in Int /\ End(j) \in Int
      BY <2>3 DEF End
    <3> QED BY <3>1, <2>3, <2>4, WholeSums
  <2> QED BY <1>0, <2>2, <2>3, <2>5 DEF WholeBlocks
<1>4. ASSUME NEW n, refuse(n) PROVE WholeBlocks'
  BY <1>4 DEF refuse, WholeBlocks
<1>5. ASSUME NEW at \in MEMORY, NEW n \in HeapSizes, freeTooMuch(at, n) PROVE WholeBlocks'
  BY <1>5, freeTooMuchRejected DEF WholeBlocks
<1>6. CASE UNCHANGED vars
  BY <1>6 DEF vars, WholeBlocks
<1> QED BY <1>1, <1>2, <1>3, <1>4, <1>5, <1>6 DEF Next

(* The shipped sizes do not ensure it: the first block is as long as the      *)
(* distance between end and maxaddr, in whole words (initialize.c:176-177).   *)
THEOREM HeadersStayInside ==
    ASSUME MEMSIZE % 8 = 0
    PROVE  Spec => []HeadersFit
<1>1. Init => WholeBlocks
  BY DEF Init, WholeBlocks, Whole, Block
<1>2. IInv /\ WholeBlocks /\ [Next]_vars => WholeBlocks'
  BY WholeBlocksKept
<1>3. IInv /\ WholeBlocks => HeadersFit
  BY MemoryTypes DEF WholeBlocks, HeadersFit, Whole
<1> QED BY <1>1, <1>2, <1>3, MemoryInvariance, PTL DEF Spec

LEMMA OneOwner ==
    ASSUME IInv, NEW i \in MEMORY
    PROVE  Cardinality({b \in memlist : i \in Bytes(b)})
             + Cardinality({u \in used : i \in Bytes(u)}) = 1
<1> DEFINE F == {b \in memlist : i \in Bytes(b)}
           U == {u \in used : i \in Bytes(u)}
<1>1. i \in Nat
  BY DEF MEMORY
<1>2. ASSUME NEW b \in F, NEW c \in F PROVE b = c
  BY MemoryTypes DEF IInv, FreeApart, Gap, Bytes, End
<1>3. ASSUME NEW u \in U, NEW v \in U PROVE u = v
  BY MemoryTypes DEF IInv, UsedApart, Apart, Bytes, End
<1>4. ASSUME NEW b \in F, NEW u \in U PROVE FALSE
  BY MemoryTypes DEF IInv, FreeNotUsed, Apart, Bytes, End
<1>5. F # {} \/ U # {}
  BY DEF IInv, Covered
<1> HIDE DEF F, U
<1>6. CASE F # {}
  <2>1. PICK b : F = {b}
    BY <1>2, <1>6
  <2>2. U = {}
    BY <1>4, <1>6
  <2>3. Cardinality(F) = 1 /\ Cardinality(U) = 0
    BY <2>1, <2>2, FS_Singleton, FS_EmptySet
  <2> QED BY <2>3 DEF F, U
<1>7. CASE U # {}
  <2>1. PICK u : U = {u}
    BY <1>3, <1>7
  <2>2. F = {}
    BY <1>4, <1>7
  <2>3. Cardinality(F) = 0 /\ Cardinality(U) = 1
    BY <2>1, <2>2, FS_Singleton, FS_EmptySet
  <2> QED BY <2>3 DEF F, U
<1> QED BY <1>5, <1>6, <1>7

(* Every byte is always in exactly one free block or exactly one block that *)
(* was given out (getmem.c:26-42, getstk.c:27-44, freemem.c:24-44).         *)
THEOREM MemoryIsPartitioned == Spec => []MemoryPartitioned
<1>1. IInv => MemoryPartitioned
  <2> SUFFICES ASSUME IInv PROVE MemoryPartitioned
    OBVIOUS
  <2>1. TypeOK
    <3>1. \A b \in memlist : /\ b.at \in MEMORY /\ b.at % 4 = 0
                             /\ b.len \in 4 .. MEMSIZE /\ b.len % 4 = 0
                             /\ End(b) <= MEMSIZE
      BY MemoryTypes DEF MEMORY, Aligned, End
    <3>2. \A u \in used : Bytes(u) \subseteq MEMORY /\ u.len % 8 = 0
      BY MemoryTypes DEF MEMORY, Bytes, End, Whole
    <3>3. \A u \in used : u.stack \in BOOLEAN
      BY DEF IInv, UsedTypes
    <3> QED BY <3>1, <3>2, <3>3 DEF TypeOK, IInv
  <2> QED BY <2>1, OneOwner DEF MemoryPartitioned
<1> QED BY <1>1, MemoryInvariance, PTL

-----------------------------------------------------------------------------
(* The memory calls implement Heap: what is used there is the set of extents *)
(* of the blocks given out.                                                  *)

RoundedSizes == {roundmb(n) : n \in HeapSizes} \union {roundew(n) : n \in StackSizes}

LEMMA RoomIsFree ==
    ASSUME IInv, NEW at \in Nat, NEW n \in Nat \ {0}
    PROVE  H!Room(at, n) <=> /\ at .. at + n - 1 \subseteq MEMORY
                             /\ \A u \in used : \A i \in at .. at + n - 1 : i \notin Bytes(u)
<1>1. H!Bytes(H!Extent(at, n)) = at .. at + n - 1
  BY DEF H!Bytes, H!Extent
<1>2. \A u \in used : H!Bytes(Block(u.at, u.len)) = Bytes(u)
  <2>1. ASSUME NEW u \in used PROVE H!Bytes(Block(u.at, u.len)) = Bytes(u)
    <3>1. Block(u.at, u.len).at = u.at /\ Block(u.at, u.len).len = u.len
      BY DEF Block
    <3>2. u.at + (u.len - 1) = (u.at + u.len) - 1
      BY MemoryTypes
    <3> QED BY <3>1, <3>2, Zenon DEF H!Bytes, Bytes, End
  <2> QED BY <2>1
<1>3. \A i : i \in H!Given <=> \E u \in used : i \in Bytes(u)
  BY <1>2 DEF H!Given
<1> QED BY <1>1, <1>3 DEF H!Room


ExtentOf(u) == Block(u.at, u.len)

LEMMA GivesRoom ==
    ASSUME IInv, NEW x \in used', NEW b \in memlist,
           x.at \in Nat, x.len \in Nat \ {0}, x.len \in RoundedSizes,
           b.at <= x.at, End(x) <= End(b),
           used' = used \cup {x}, outcome' = <<"alloc", "OK">>
    PROVE  H!Next
<1>1. /\ b.at \in Nat /\ b.len \in Nat /\ End(b) <= MEMSIZE
      /\ MEMSIZE \in Nat
  BY MemoryTypes DEF End
<1>2. x.at .. x.at + x.len - 1 \subseteq MEMORY
  BY <1>1 DEF MEMORY, End
<1>3. ASSUME NEW u \in used, NEW i \in x.at .. x.at + x.len - 1 PROVE i \notin Bytes(u)
  <2>1. Apart(b, u) /\ u.at \in Nat /\ u.len \in Nat
    BY MemoryTypes DEF IInv, FreeNotUsed
  <2> QED BY <2>1, <1>1 DEF Apart, Bytes, End
<1>4. H!Room(x.at, x.len)
  BY <1>2, <1>3, RoomIsFree
<1>5. x.at \in MEMORY
  BY <1>2
<1>6. {ExtentOf(u) : u \in used'} = {ExtentOf(u) : u \in used} \cup {H!Extent(x.at, x.len)}
  BY DEF ExtentOf, H!Extent, Block
<1> QED BY <1>4, <1>5, <1>6 DEF H!Next, H!Give, RoundedSizes, ExtentOf

LEMMA StepRefines ==
    ASSUME IInv, [Next]_vars
    PROVE  [H!Next]_<<{ExtentOf(u) : u \in used}, outcome>>
<1>1. ASSUME NEW n \in HeapSizes, getmem(n)
      PROVE  H!Next
  <2> DEFINE r == roundmb(n)
             b == FirstFit(r)
             x == Heap(b.at, r, n)
  <2>1. r \in Nat /\ r >= 8 /\ r \in RoundedSizes
    BY MemoryAssumption, Rounding DEF RoundedSizes
  <2>2. b \in memlist /\ b.len >= r
    BY <1>1, <2>1, FirstFitExists DEF getmem
  <2>3. used' = used \cup {x} /\ outcome' = <<"alloc", "OK">>
    BY <1>1 DEF getmem
  <2> HIDE DEF r, b
  <2>4. x.at = b.at /\ x.len = r /\ b.at \in Nat /\ b.len \in Nat
    BY <2>2, MemoryTypes DEF Heap
  <2> HIDE DEF x
  <2> QED BY <2>1, <2>2, <2>3, <2>4, GivesRoom DEF End
<1>2. ASSUME NEW n \in StackSizes, getstk(n)
      PROVE  H!Next
  <2> DEFINE r == roundew(n)
             b == LastFit(r)
             x == Stack(End(b) - r, r, n)
  <2>1. r \in Nat /\ r >= 8 /\ r \in RoundedSizes
    BY MemoryAssumption, StackAssumption, Rounding DEF RoundedSizes, Whole
  <2>2. b \in memlist /\ b.len >= r
    BY <1>2, <2>1, LastFitExists DEF getstk
  <2>3. used' = used \cup {x} /\ outcome' = <<"alloc", "OK">>
    BY <1>2 DEF getstk
  <2> HIDE DEF r, b
  <2>4. x.at = End(b) - r /\ x.len = r /\ b.at \in Nat /\ b.len \in Nat
    BY <2>2, MemoryTypes DEF Stack
  <2> HIDE DEF x
  <2> QED BY <2>1, <2>2, <2>3, <2>4, GivesRoom DEF End
<1>3. ASSUME NEW r \in RoundedSizes, refuse(r)
      PROVE  H!Next
  <2>1. r \in Nat /\ r >= 8
    BY MemoryAssumption, StackAssumption, Rounding DEF RoundedSizes, Whole
  <2>2. ASSUME NEW at \in MEMORY, H!Room(at, r) PROVE FALSE
    <3>1. at \in Nat
      BY DEF MEMORY
    <3>2. PICK b \in memlist : b.at <= at /\ at + r <= End(b)
      <4>1. /\ at .. at + r - 1 \subseteq MEMORY
            /\ \A u \in used : \A i \in at .. at + r - 1 : i \notin Bytes(u)
        BY <2>1, <2>2, <3>1, RoomIsFree
      <4>2. r \in Nat \ {0}
        BY <2>1
      <4> QED BY <3>1, <4>1, <4>2, RunInOneBlock
    <3>3. b \in Fitting(r)
      BY <2>1, <3>1, <3>2, MemoryTypes DEF Fitting, End
    <3> QED BY <1>3, <3>3 DEF refuse
  <2> QED BY <1>3, <2>2 DEF H!Next, H!Refuse, RoundedSizes, refuse, ExtentOf
<1>4. ASSUME NEW u \in used, free(u)
      PROVE  H!Next
  <2>1. used' = used \ {u} /\ outcome' = <<"free", "OK">>
    BY <1>4, FreedBytes
  <2>2. ASSUME NEW v \in used, v # u PROVE ExtentOf(v) # ExtentOf(u)
    BY <2>2, MemoryTypes DEF IInv, UsedApart, Apart, End, ExtentOf, Block
  <2>3. {ExtentOf(v) : v \in used'} = {ExtentOf(v) : v \in used} \ {ExtentOf(u)}
    BY <2>1, <2>2
  <2> QED BY <2>1, <2>3 DEF H!Next, H!TakeBack, ExtentOf
<1>5. ASSUME NEW at \in MEMORY, NEW n \in HeapSizes, freeTooMuch(at, n)
      PROVE  H!Next
  BY <1>5, freeTooMuchRejected DEF H!Next, H!RejectFree
<1>6. CASE UNCHANGED vars
  BY <1>6 DEF vars
<1> QED BY <1>1, <1>2, <1>3, <1>4, <1>5, <1>6 DEF Next, RoundedSizes

(* getmem, getstk and freemem with their sorted list, first fit, stacks cut   *)
(* from above and coalescing are the Heap: bytes given out are nobody else's, *)
(* a request is refused only when no run of free bytes is long enough, and    *)
(* a free that is rejected changes nothing.                                   *)
THEOREM MemoryImplementsHeap == Spec => ImplementsHeap
<1>1. Init => H!Init
  BY DEF Init, H!Init
<1>2. IInv /\ [Next]_vars => [H!Next]_<<{ExtentOf(u) : u \in used}, outcome>>
  BY StepRefines
<1> QED BY <1>1, <1>2, MemoryInvariance, PTL DEF Spec, ImplementsHeap, H!HeapSpec, ExtentOf
=============================================================================
