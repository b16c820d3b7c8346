----------------------------- MODULE RoutingProofs -----------------------------
(***************************************************************************)
(* The routes of a machine are counted buffers: for every topology, every  *)
(* size of the pool and whatever is sent, each is counted once for the      *)
(* table and once for each process that uses it, and the buckets stay       *)
(* sorted (RoutesCounted).                                                  *)
(*                                                                         *)
(* TableOK(t, B, H) speaks of a table alone: B are its buffers, H[b] says    *)
(* how many processes hold buffer b.  An operation of the table takes a      *)
(* reference out of the table into the hands of its caller, or puts one in,   *)
(* and each of these small steps keeps TableOK.                             *)
(***************************************************************************)
EXTENDS Routing, SequenceTheorems, FiniteSetTheorems, WellFoundedInduction, TLAPS

-----------------------------------------------------------------------------
(* Numbers *)

(* A nonempty set of natural numbers has a least element. *)
LEMMA LeastOf ==
    ASSUME NEW T \in SUBSET Nat, T # {}
    PROVE  /\ \E m \in T : \A k \in T : m <= k
           /\ Min(T) \in T /\ \A k \in T : Min(T) <= k
<1> DEFINE R == OpToRel(<, Nat)
<1>1. IsWellFoundedOn(R, Nat)
  BY NatLessThanWellFounded
<1>2. \A x, y \in Nat : y < x => <<y, x>> \in R
  BY DEF OpToRel
<1> HIDE DEF R
<1>3. PICK m \in T : \A k \in T : ~ (<<k, m>> \in R)
  BY <1>1, WFMin
<1>4. ASSUME NEW k \in T PROVE m <= k
  <2>1. ~ (k < m)
    BY <1>2, <1>3
  <2> QED BY <2>1
<1>5. \E k \in T : \A j \in T : k <= j
  BY <1>4
<1>6. Min(T) \in T /\ \A k \in T : Min(T) <= k
  BY <1>5 DEF Min
<1> QED BY <1>5, <1>6

(* What holds of 0 and of the number after each of which it holds, holds of  *)
(* every number: T is the set of those of which it holds.                    *)
LEMMA EveryNumber ==
    ASSUME NEW T, 0 \in T, \A k \in Nat : k \in T => k + 1 \in T
    PROVE  \A k \in Nat : k \in T
<1> DEFINE Out == {k \in Nat : k \notin T}
<1>1. ASSUME Out # {} PROVE FALSE
  <2>1. PICK k \in Out : \A j \in Out : k <= j
    BY <1>1, LeastOf
  <2>2. k # 0 /\ k \in Nat
    BY <2>1
  <2>3. k - 1 \in Nat /\ k - 1 \notin Out
    BY <2>1, <2>2
  <2>4. k - 1 \in T /\ (k - 1) + 1 = k
    BY <2>2, <2>3
  <2> QED BY <2>1, <2>3, <2>4
<1> QED BY <1>1

-----------------------------------------------------------------------------
(* A bucket without some of its routes *)

Left(c, gone, k, left) ==
    left = [i \in 0..k |->
              IF i = 0 THEN <<>>
              ELSE IF c[i] \in gone THEN left[i - 1] ELSE Append(left[i - 1], c[i])]

LEMMA WithoutIsLeft ==
    ASSUME NEW S, NEW c \in Seq(S), NEW gone
    PROVE  \E left : Left(c, gone, Len(c), left) /\ Without(c, gone) = left[Len(c)]
<1> DEFINE T == {k \in Nat : \E left : Left(c, gone, k, left)}
<1>1. 0 \in T
  <2>1. Left(c, gone, 0, [i \in 0..0 |-> <<>>])
    BY DEF Left
  <2> QED BY <2>1
<1>2. ASSUME NEW k \in Nat, k \in T PROVE k + 1 \in T
  <2>1. PICK left : Left(c, gone, k, left)
    BY <1>2
  <2> DEFINE next == [i \in 0..k + 1 |-> IF i <= k THEN left[i]
                        ELSE IF c[k + 1] \in gone THEN left[k] ELSE Append(left[k], c[k + 1])]
  <2>2. \A i \in 0..k + 1 :
           next[i] = IF i = 0 THEN <<>>
                     ELSE IF c[i] \in gone THEN next[i - 1] ELSE Append(next[i - 1], c[i])
    <3> SUFFICES ASSUME NEW i \in 0..k + 1
                 PROVE  next[i] = IF i = 0 THEN <<>>
                     ELSE IF c[i] \in gone THEN next[i - 1] ELSE Append(next[i - 1], c[i])
      OBVIOUS
    <3>1. CASE i = k + 1
      <4>1. next[k] = left[k]
        OBVIOUS
      <4> QED BY <3>1, <4>1
    <3>2. CASE i \in 0..k
      <4>1. left[i] = IF i = 0 THEN <<>>
                     ELSE IF c[i] \in gone THEN left[i - 1] ELSE Append(left[i - 1], c[i])
        BY <2>1, <3>2 DEF Left
      <4>2. i # 0 => next[i - 1] = left[i - 1]
        BY <3>2
      <4> QED BY <3>2, <4>1, <4>2
    <3> QED BY <3>1, <3>2
  <2>3. Left(c, gone, k + 1, next)
    BY <2>2 DEF Left
  <2> HIDE DEF next
  <2>4. \E f : Left(c, gone, k + 1, f)
    BY <2>3
  <2> QED BY <2>4
<1> HIDE DEF T
<1>3. Len(c) \in T
  BY <1>1, <1>2, EveryNumber, LenProperties
<1>4. \E left : Left(c, gone, Len(c), left)
  BY <1>3 DEF T
<1> DEFINE left == CHOOSE left : Left(c, gone, Len(c), left)
<1>5. Left(c, gone, Len(c), left)
  BY <1>4
<1>6. Without(c, gone) = left[Len(c)]
  BY DEF Without, Left
<1> QED BY <1>5, <1>6

(* d is what is left of the first i elements of c: w says where in c each     *)
(* element of d comes from.                                                  *)
Thinned(c, i, gone, d, w) ==
    /\ w \in [1..Len(d) -> 1..i]
    /\ \A j, k \in 1..Len(d) : j < k => w[j] < w[k]
    /\ \A j \in 1..Len(d) : d[j] = c[w[j]] /\ d[j] \notin gone
    /\ \A j \in 1..i : c[j] \notin gone => \E k \in 1..Len(d) : w[k] = j

LEMMA ThinnedMore ==
    ASSUME NEW S, NEW c \in Seq(S), NEW i \in 1..Len(c), NEW gone,
           NEW d \in Seq(S), NEW w, Thinned(c, i - 1, gone, d, w)
    PROVE  /\ c[i] \in gone => Thinned(c, i, gone, d, w)
           /\ c[i] \notin gone => \E v : Thinned(c, i, gone, Append(d, c[i]), v)
<1>1. Len(d) \in Nat /\ i \in Nat /\ c[i] \in S /\ Len(c) \in Nat
  BY ElementOfSeq, LenProperties
<1>2. CASE c[i] \in gone
  BY <1>1, <1>2 DEF Thinned
<1>3. CASE c[i] \notin gone
  <2> DEFINE e == Append(d, c[i])
             v == [j \in 1..Len(d) + 1 |-> IF j <= Len(d) THEN w[j] ELSE i]
  <2>1. /\ Len(e) = Len(d) + 1 /\ e[Len(d) + 1] = c[i]
        /\ \A j \in 1..Len(d) : e[j] = d[j]
    BY <1>1, AppendProperties
  <2>2. /\ \A j \in 1..Len(d) : v[j] = w[j] /\ w[j] \in 1..i - 1
        /\ v[Len(d) + 1] = i
    <3>1. \A j \in 1..Len(d) + 1 : v[j] = IF j <= Len(d) THEN w[j] ELSE i
      OBVIOUS
    <3>2. \A j \in 1..Len(d) : w[j] \in 1..i - 1
      BY DEF Thinned
    <3> QED BY <1>1, <3>1, <3>2
  <2>3. v \in [1..Len(e) -> 1..i]
    <3>1. \A j \in 1..Len(d) + 1 : (IF j <= Len(d) THEN w[j] ELSE i) \in 1..i
      <4>1. \A j \in 1..Len(d) : w[j] \in 1..i - 1
        BY DEF Thinned
      <4> QED BY <1>1, <4>1
    <3> HIDE DEF e
    <3> QED BY <2>1, <3>1
  <2> HIDE DEF e, v
  <2>4. \A j, k \in 1..Len(e) : j < k => v[j] < v[k]
    <3> SUFFICES ASSUME NEW j \in 1..Len(e), NEW k \in 1..Len(e), j < k PROVE v[j] < v[k]
      OBVIOUS
    <3>1. CASE k = Len(d) + 1
      BY SMTT(30), <1>1, <2>1, <2>2, <3>1
    <3>2. CASE k \in 1..Len(d)
      <4>1. j \in 1..Len(d)
        BY <1>1, <3>2
      <4> QED BY <2>2, <3>2, <4>1 DEF Thinned
    <3>3. k = Len(d) + 1 \/ k \in 1..Len(d)
      BY SMTT(30), <1>1, <2>1
    <3> QED BY <3>1, <3>2, <3>3
  <2>5. \A j \in 1..Len(e) : e[j] = c[v[j]] /\ e[j] \notin gone
    <3> SUFFICES ASSUME NEW j \in 1..Len(e) PROVE e[j] = c[v[j]] /\ e[j] \notin gone
      OBVIOUS
    <3>1. CASE j = Len(d) + 1
      BY <1>3, <2>1, <2>2, <3>1
    <3>2. CASE j \in 1..Len(d)
      BY <2>1, <2>2, <3>2 DEF Thinned
    <3>3. j = Len(d) + 1 \/ j \in 1..Len(d)
      BY <1>1, <2>1
    <3> QED BY <3>1, <3>2, <3>3
  <2>6. \A j \in 1..i : c[j] \notin gone => \E k \in 1..Len(e) : v[k] = j
    <3> SUFFICES ASSUME NEW j \in 1..i, c[j] \notin gone PROVE \E k \in 1..Len(e) : v[k] = j
      OBVIOUS
    <3>1. CASE j = i
      BY <1>1, <2>1, <2>2, <3>1
    <3>2. CASE j \in 1..i - 1
      <4>1. PICK k \in 1..Len(d) : w[k] = j
        BY <3>2 DEF Thinned
      <4> QED BY <1>1, <2>1, <2>2, <4>1
    <3> QED BY <1>1, <3>1, <3>2
  <2>7. Thinned(c, i, gone, e, v)
    BY <2>3, <2>4, <2>5, <2>6 DEF Thinned
  <2>8. \E u : Thinned(c, i, gone, e, u)
    BY <2>7
  <2> QED BY <1>3, <2>8 DEF e
<1> QED BY <1>2, <1>3

LEMMA WithoutThins ==
    ASSUME NEW S, NEW c \in Seq(S), NEW gone
    PROVE  Without(c, gone) \in Seq(S) /\ \E w : Thinned(c, Len(c), gone, Without(c, gone), w)
<1>1. PICK left : Left(c, gone, Len(c), left) /\ Without(c, gone) = left[Len(c)]
  BY WithoutIsLeft
<1>2. Len(c) \in Nat
  BY LenProperties
<1> DEFINE T == {k \in Nat : k <= Len(c) =>
                   left[k] \in Seq(S) /\ \E w : Thinned(c, k, gone, left[k], w)}
<1>3. 0 \in T
  <2>1. left[0] = <<>>
    BY <1>1, <1>2 DEF Left
  <2>2. <<>> \in Seq(S) /\ Len(<<>>) = 0
    BY EmptySeq
  <2>3. Thinned(c, 0, gone, <<>>, [j \in 1..0 |-> 0])
    BY <2>2 DEF Thinned
  <2> QED BY <2>1, <2>2, <2>3
<1>4. ASSUME NEW k \in Nat, k \in T PROVE k + 1 \in T
  <2> SUFFICES ASSUME k + 1 <= Len(c)
               PROVE  left[k + 1] \in Seq(S) /\ \E w : Thinned(c, k + 1, gone, left[k + 1], w)
    OBVIOUS
  <2>1. PICK w : left[k] \in Seq(S) /\ Thinned(c, k, gone, left[k], w)
    BY <1>2, <1>4
  <2>2. k + 1 \in 1..Len(c) /\ c[k + 1] \in S /\ (k + 1) - 1 = k
    BY <1>2, ElementOfSeq
  <2>3. left[k + 1] = IF c[k + 1] \in gone THEN left[k] ELSE Append(left[k], c[k + 1])
    <3>1. k + 1 \in 0..Len(c) /\ k + 1 # 0
      BY <2>2
    <3> QED BY <1>1, <2>2, <3>1 DEF Left
  <2>4. left[k + 1] \in Seq(S)
    BY <2>1, <2>2, <2>3, AppendProperties
  <2>5. \E v : Thinned(c, k + 1, gone, left[k + 1], v)
    <3> DEFINE i == k + 1
    <3>1. i \in 1..Len(c) /\ Thinned(c, i - 1, gone, left[k], w)
      BY <2>1, <2>2
    <3>2. left[i] = IF c[i] \in gone THEN left[k] ELSE Append(left[k], c[i])
      BY <2>3
    <3> HIDE DEF i
    <3>3. \E v : Thinned(c, i, gone, left[i], v)
      BY <2>1, <3>1, <3>2, ThinnedMore
    <3> QED BY <3>3 DEF i
  <2> QED BY <2>4, <2>5
<1> HIDE DEF T
<1>5. Len(c) \in T
  BY <1>2, <1>3, <1>4, EveryNumber
<1> QED BY <1>1, <1>2, <1>5 DEF T

-----------------------------------------------------------------------------
(* Tables *)

RouteSet == [dst : Destinations, gw : Gateways, metric : Nat, ifn : Nat, ttl : Int, ref : Nat]
Tables(B) == [buf : [B -> RouteSet], chain : [Nets -> Seq(B)], dflt : B \cup {0}]

In(t, b) == IF b \in Linked(t) \/ b = t.dflt THEN 1 ELSE 0
Counted(t, B, H) == \A b \in B : t.buf[b].ref = In(t, b) + H[b]
Placed(t) == \A n \in Nets : \A i \in 1..Len(t.chain[n]) : t.buf[t.chain[n][i]].dst.net = n
DefaultOK(t) == t.dflt # 0 => t.buf[t.dflt].dst = Default

TableOK(t, B, H) ==
    /\ t \in Tables(B) /\ Counted(t, B, H) /\ Placed(t) /\ DefaultOK(t)
    /\ \A n \in Nets : Sorted(t, t.chain[n])

Buffers(B) == \E k \in Nat : B = 1..k
Holds(B) == [B -> Nat]
More(H, b) == [H EXCEPT ![b] = @ + 1]

LEMMA NetsAre ==
    Nets \subseteq Nat \ {0}
<1>1. Cardinality(Nets) \in Nat
  BY FS_CardinalityType, RoutingConstants
<1>2. \E k \in Nat : Nets = 1..k
  BY <1>1, RoutingConstants
<1> QED BY <1>2

LEMMA InBucket ==
    ASSUME NEW B, NEW t \in Tables(B), NEW b
    PROVE  b \in Linked(t) <=> \E n \in Nets : \E i \in 1..Len(t.chain[n]) : t.chain[n][i] = b
<1>1. \A n \in Nets : DOMAIN t.chain[n] = 1..Len(t.chain[n])
  BY LenProperties DEF Tables
<1> QED BY <1>1 DEF Linked, Range

(* What every table has. *)
LEMMA TableFacts ==
    ASSUME NEW B, Buffers(B), NEW H \in Holds(B), NEW t, TableOK(t, B, H)
    PROVE  /\ B \subseteq Nat \ {0} /\ 0 \notin B
           /\ \A b \in B : /\ t.buf[b] \in RouteSet /\ t.buf[b].ref \in Nat /\ H[b] \in Nat
                           /\ t.buf[b].ref = In(t, b) + H[b] /\ In(t, b) \in {0, 1}
           /\ DOMAIN t.buf = B
           /\ \A n \in Nets : /\ t.chain[n] \in Seq(B) /\ Len(t.chain[n]) \in Nat
                              /\ DOMAIN t.chain[n] = 1..Len(t.chain[n])
                              /\ \A i \in 1..Len(t.chain[n]) :
                                    /\ t.chain[n][i] \in B /\ t.chain[n][i] \in Linked(t)
                                    /\ t.buf[t.chain[n][i]].dst.net = n
                              /\ \A i, j \in 1..Len(t.chain[n]) :
                                    t.chain[n][i] = t.chain[n][j] => i = j
           /\ t.dflt \in B \cup {0}
           /\ \A b \in Linked(t) : b \in B /\ b # t.dflt /\ t.buf[b].dst.net \in Nets
                                   /\ t.buf[b].dst # Default
           /\ FreeBufs(t) \subseteq B
           /\ \A b \in FreeBufs(t) : b \notin Linked(t) /\ b # t.dflt /\ H[b] = 0
<1>1. t \in Tables(B) /\ Counted(t, B, H) /\ Placed(t) /\ DefaultOK(t)
  BY DEF TableOK
<1>2. B \subseteq Nat \ {0} /\ 0 \notin B
  BY DEF Buffers
<1>3. \A b \in B : /\ t.buf[b] \in RouteSet /\ t.buf[b].ref \in Nat /\ H[b] \in Nat
                   /\ t.buf[b].ref = In(t, b) + H[b] /\ In(t, b) \in {0, 1}
  BY <1>1 DEF Tables, RouteSet, Counted, Holds, In
<1>4. DOMAIN t.buf = B /\ t.dflt \in B \cup {0}
  BY <1>1 DEF Tables
<1>5. \A n \in Nets : /\ t.chain[n] \in Seq(B) /\ Len(t.chain[n]) \in Nat
                      /\ DOMAIN t.chain[n] = 1..Len(t.chain[n])
  BY <1>1, LenProperties DEF Tables
<1>6. \A n \in Nets : \A i \in 1..Len(t.chain[n]) :
         /\ t.chain[n][i] \in B /\ t.chain[n][i] \in Linked(t)
         /\ t.buf[t.chain[n][i]].dst.net = n
  BY <1>1, <1>5, ElementOfSeq, InBucket DEF Placed
<1>7. \A n \in Nets : \A i, j \in 1..Len(t.chain[n]) : t.chain[n][i] = t.chain[n][j] => i = j
  <2> SUFFICES ASSUME NEW n \in Nets, NEW i \in 1..Len(t.chain[n]),
                      NEW j \in 1..Len(t.chain[n]), t.chain[n][i] = t.chain[n][j]
               PROVE  i = j
    OBVIOUS
  <2>1. Sorted(t, t.chain[n])
    BY DEF TableOK
  <2>2. ~ (i < j) /\ ~ (j < i)
    BY <1>5, <2>1 DEF Sorted
  <2> QED BY <1>5, <2>2
<1>8. \A b \in Linked(t) : b \in B /\ b # t.dflt /\ t.buf[b].dst.net \in Nets
                           /\ t.buf[b].dst # Default
  <2> SUFFICES ASSUME NEW b \in Linked(t)
               PROVE  b \in B /\ b # t.dflt /\ t.buf[b].dst.net \in Nets /\ t.buf[b].dst # Default
    OBVIOUS
  <2>1. PICK n \in Nets : \E i \in 1..Len(t.chain[n]) : t.chain[n][i] = b
    BY <1>1, InBucket
  <2>2. b \in B /\ t.buf[b].dst.net = n /\ n # 0
    BY <1>6, <2>1, NetsAre
  <2>3. t.buf[b].dst # Default
    BY <2>2 DEF Default, AnyNet
  <2>4. b # t.dflt
    BY <1>1, <1>2, <2>2, <2>3 DEF DefaultOK
  <2> QED BY <2>2, <2>3, <2>4
<1>9. FreeBufs(t) \subseteq B
      /\ \A b \in FreeBufs(t) : b \notin Linked(t) /\ b # t.dflt /\ H[b] = 0
  BY <1>3, <1>4 DEF FreeBufs, In
<1> QED BY <1>2, <1>3, <1>4, <1>5, <1>6, <1>7, <1>8, <1>9

LEMMA RefChanged ==
    ASSUME NEW r \in RouteSet, NEW x \in Nat
    PROVE  /\ [r EXCEPT !.ref = x] \in RouteSet
           /\ [r EXCEPT !.ref = x].ref = x /\ [r EXCEPT !.ref = x].dst = r.dst
BY DEF RouteSet

LEMMA BufChanged ==
    ASSUME NEW B, NEW t \in Tables(B), NEW b \in B, NEW r \in RouteSet
    PROVE  LET u == [t EXCEPT !.buf[b] = r]
           IN /\ u \in Tables(B) /\ u.chain = t.chain /\ u.dflt = t.dflt
              /\ u.buf = [t.buf EXCEPT ![b] = r]
              /\ Linked(u) = Linked(t) /\ \A x : In(u, x) = In(t, x)
<1> DEFINE u == [t EXCEPT !.buf[b] = r]
<1>1. /\ u \in Tables(B) /\ u.chain = t.chain /\ u.dflt = t.dflt
      /\ u.buf = [t.buf EXCEPT ![b] = r]
  BY DEF Tables
<1> HIDE DEF u
<1>2. Linked(u) = Linked(t) /\ \A x : In(u, x) = In(t, x)
  BY <1>1 DEF In, Linked
<1> QED BY <1>1, <1>2 DEF u

(* A process takes one reference more. *)
LEMMA HoldKeeps ==
    ASSUME NEW B, Buffers(B), NEW H \in Holds(B), NEW t, TableOK(t, B, H), NEW b \in B
    PROVE  TableOK(RtHold(t, b), B, More(H, b))
<1> DEFINE u == RtHold(t, b)
<1>1. t \in Tables(B) /\ t.buf[b] \in RouteSet /\ t.buf[b].ref + 1 \in Nat
  BY TableFacts DEF TableOK
<1> DEFINE r == [t.buf[b] EXCEPT !.ref = t.buf[b].ref + 1]
<1>2. r \in RouteSet /\ r.ref = t.buf[b].ref + 1 /\ r.dst = t.buf[b].dst
  BY <1>1, RefChanged
<1>3. u = [t EXCEPT !.buf[b] = r]
  BY <1>1 DEF RtHold, Tables, RouteSet
<1> HIDE DEF r, u
<1>4. /\ u \in Tables(B) /\ u.chain = t.chain /\ u.dflt = t.dflt
      /\ u.buf = [t.buf EXCEPT ![b] = r] /\ \A x : In(u, x) = In(t, x)
  BY SMTT(30), <1>1, <1>2, <1>3, BufChanged
<1>5. \A x \in B : u.buf[x].dst = t.buf[x].dst
                   /\ u.buf[x].ref = t.buf[x].ref + (IF x = b THEN 1 ELSE 0)
  <2> SUFFICES ASSUME NEW x \in B
               PROVE  u.buf[x].dst = t.buf[x].dst
                      /\ u.buf[x].ref = t.buf[x].ref + (IF x = b THEN 1 ELSE 0)
    OBVIOUS
  <2>1. t.buf[x].ref \in Nat /\ DOMAIN t.buf = B
    BY TableFacts
  <2>2. u.buf[x] = IF x = b THEN r ELSE t.buf[x]
    BY <1>4, <2>1
  <2> QED BY <1>2, <2>1, <2>2
<1>7. Counted(u, B, More(H, b))
  BY <1>4, <1>5, TableFacts DEF Counted, More, Holds
<1>8. /\ Placed(u) /\ DefaultOK(u)
      /\ \A n \in Nets : Sorted(u, u.chain[n])
  <2>1. Placed(u)
    BY SMTT(30), <1>4, <1>5, TableFacts DEF Placed
  <2>2. DefaultOK(u)
    BY <1>4, <1>5, TableFacts DEF DefaultOK, TableOK
  <2>3. ASSUME NEW n \in Nets PROVE Sorted(u, u.chain[n])
    BY <1>4, <1>5, TableFacts DEF Sorted, TableOK
  <2> QED BY <2>1, <2>2, <2>3
<1>9. TableOK(u, B, More(H, b))
  BY <1>4, <1>7, <1>8 DEF TableOK
<1> QED BY <1>9 DEF u

(* A process gives back a reference it has. *)
LEMMA FreeKeeps ==
    ASSUME NEW B, Buffers(B), NEW H \in Holds(B), NEW t, NEW b \in B,
           TableOK(t, B, More(H, b))
    PROVE  /\ TableOK(RtFree(t, b), B, H)
           /\ RtFree(t, b).chain = t.chain /\ RtFree(t, b).dflt = t.dflt
           /\ \A x \in B : x # b => RtFree(t, b).buf[x] = t.buf[x]
<1> DEFINE u == RtFree(t, b)
           r == IF t.buf[b].ref <= 1 THEN NoRoute ELSE [t.buf[b] EXCEPT !.ref = t.buf[b].ref - 1]
<1>1. /\ More(H, b) \in Holds(B)
      /\ \A x \in B : More(H, b)[x] = H[x] + (IF x = b THEN 1 ELSE 0) /\ H[x] \in Nat
  BY DEF More, Holds
<1>2. /\ t \in Tables(B) /\ t.buf[b] \in RouteSet /\ t.buf[b].ref \in Nat
      /\ t.buf[b].ref = In(t, b) + H[b] + 1 /\ In(t, b) \in {0, 1} /\ H[b] \in Nat
  BY <1>1, TableFacts DEF TableOK
<1>3. /\ NoRoute \in RouteSet /\ NoRoute.ref = 0
  BY DEF NoRoute, RouteSet, Destinations, Gateways
<1>4. r \in RouteSet /\ r.ref = t.buf[b].ref - 1 /\ (t.buf[b].ref > 1 => r.dst = t.buf[b].dst)
  <2>1. t.buf[b].ref > 1 => t.buf[b].ref - 1 \in Nat
    BY <1>2
  <2>2. CASE t.buf[b].ref > 1
    <3> DEFINE y == t.buf[b].ref - 1
               q == [t.buf[b] EXCEPT !.ref = y]
    <3>1. y \in Nat
      BY <2>1, <2>2
    <3> HIDE DEF y
    <3>2. q \in RouteSet /\ q.ref = y /\ q.dst = t.buf[b].dst
      BY <1>2, <3>1, RefChanged
    <3>3. r = q
      BY <1>2, <2>2 DEF y
    <3> HIDE DEF q, r
    <3> QED BY <3>2, <3>3 DEF y
  <2>3. CASE t.buf[b].ref <= 1
    <3>1. r = NoRoute
      BY <2>3
    <3> HIDE DEF r
    <3>2. t.buf[b].ref = 1
      BY <1>2, <2>3
    <3> QED BY <1>3, <3>1, <3>2
  <2> HIDE DEF r
  <2>4. t.buf[b].ref > 1 \/ t.buf[b].ref <= 1
    BY <1>2
  <2> QED BY <2>2, <2>3, <2>4
<1>5. u = [t EXCEPT !.buf[b] = r]
  BY <1>2 DEF RtFree, Tables, RouteSet
<1> HIDE DEF r, u
<1>6. /\ u \in Tables(B) /\ u.chain = t.chain /\ u.dflt = t.dflt
      /\ u.buf = [t.buf EXCEPT ![b] = r] /\ \A x : In(u, x) = In(t, x)
  <2>1. t \in Tables(B) /\ r \in RouteSet
    BY <1>2, <1>4
  <2> QED BY <1>5, <2>1, BufChanged
<1>7. \A x \in B : /\ u.buf[x].ref = t.buf[x].ref - (IF x = b THEN 1 ELSE 0)
                   /\ x # b => u.buf[x] = t.buf[x]
                   /\ In(t, x) = 1 => u.buf[x].dst = t.buf[x].dst
  <2> SUFFICES ASSUME NEW x \in B
               PROVE  /\ u.buf[x].ref = t.buf[x].ref - (IF x = b THEN 1 ELSE 0)
                      /\ x # b => u.buf[x] = t.buf[x]
                      /\ In(t, x) = 1 => u.buf[x].dst = t.buf[x].dst
    OBVIOUS
  <2>1. t.buf[x].ref \in Nat /\ DOMAIN t.buf = B
    BY <1>1, TableFacts
  <2>2. u.buf[x] = IF x = b THEN r ELSE t.buf[x]
    BY <1>6, <2>1
  <2>3. CASE x = b
    BY <1>2, <1>4, <2>2, <2>3
  <2>4. CASE x # b
    BY <2>1, <2>2, <2>4
  <2> QED BY <2>3, <2>4
<1>8. Counted(u, B, H)
  <2> SUFFICES ASSUME NEW x \in B PROVE u.buf[x].ref = In(u, x) + H[x]
    BY DEF Counted
  <2>1. t.buf[x].ref = In(t, x) + More(H, b)[x] /\ In(t, x) \in {0, 1}
    BY <1>1, TableFacts
  <2> QED BY <1>1, <1>6, <1>7, <2>1
<1>9. /\ Placed(u) /\ DefaultOK(u)
      /\ \A n \in Nets : Sorted(u, u.chain[n])
  <2>1. /\ \A n \in Nets : \A i \in 1..Len(t.chain[n]) :
             u.buf[t.chain[n][i]].dst = t.buf[t.chain[n][i]].dst
        /\ t.dflt # 0 => u.buf[t.dflt].dst = t.buf[t.dflt].dst
    BY <1>1, <1>7, TableFacts DEF In
  <2>2. Placed(u)
    BY <1>6, <2>1 DEF Placed, TableOK
  <2>3. DefaultOK(u)
    BY <1>6, <2>1 DEF DefaultOK, TableOK
  <2>4. ASSUME NEW n \in Nets PROVE Sorted(u, u.chain[n])
    <3>1. Sorted(t, t.chain[n]) /\ DOMAIN t.chain[n] = 1..Len(t.chain[n])
      BY <1>1, TableFacts DEF TableOK
    <3> QED BY <1>6, <2>1, <3>1 DEF Sorted
  <2> QED BY <2>2, <2>3, <2>4
<1>10. TableOK(u, B, H)
  BY <1>6, <1>8, <1>9 DEF TableOK
<1> QED BY <1>6, <1>7, <1>10 DEF u

(* A free buffer is filled for its taker. *)
LEMMA TakeKeeps ==
    ASSUME NEW B, Buffers(B), NEW H \in Holds(B), NEW t, TableOK(t, B, H),
           NEW b \in FreeBufs(t), NEW r \in RouteSet, r.ref = 1
    PROVE  LET u == [t EXCEPT !.buf[b] = r]
           IN /\ TableOK(u, B, More(H, b)) /\ u.chain = t.chain /\ u.dflt = t.dflt
              /\ u.buf[b] = r /\ \A x \in B : x # b => u.buf[x] = t.buf[x]
<1> DEFINE u == [t EXCEPT !.buf[b] = r]
<1>1. t \in Tables(B) /\ b \in B /\ b \notin Linked(t) /\ b # t.dflt /\ t.buf[b].ref = 0
      /\ H[b] = 0 /\ In(t, b) = 0
  BY TableFacts DEF TableOK, FreeBufs, In
<1>2. /\ u \in Tables(B) /\ u.chain = t.chain /\ u.dflt = t.dflt
      /\ u.buf = [t.buf EXCEPT ![b] = r] /\ \A x : In(u, x) = In(t, x)
  BY <1>1, BufChanged
<1> HIDE DEF u
<1>3. u.buf[b] = r /\ \A x \in B : x # b => u.buf[x] = t.buf[x]
  BY <1>1, <1>2, TableFacts
<1>4. Counted(u, B, More(H, b))
  <2> SUFFICES ASSUME NEW x \in B PROVE u.buf[x].ref = In(u, x) + More(H, b)[x]
    BY DEF Counted
  <2>1. t.buf[x].ref = In(t, x) + H[x] /\ In(t, x) \in {0, 1} /\ H[x] \in Nat
    BY TableFacts
  <2>2. More(H, b)[x] = H[x] + (IF x = b THEN 1 ELSE 0)
    BY DEF More, Holds
  <2> QED BY <1>1, <1>2, <1>3, <2>1, <2>2
<1>5. /\ Placed(u) /\ DefaultOK(u)
      /\ \A n \in Nets : Sorted(u, u.chain[n])
  <2>1. /\ \A n \in Nets : \A i \in 1..Len(t.chain[n]) :
             u.buf[t.chain[n][i]].dst = t.buf[t.chain[n][i]].dst
        /\ t.dflt # 0 => u.buf[t.dflt].dst = t.buf[t.dflt].dst
    <3>1. \A n \in Nets : \A i \in 1..Len(t.chain[n]) :
             t.chain[n][i] \in B /\ t.chain[n][i] # b
      BY <1>1, TableFacts
    <3>2. t.dflt \in B \cup {0}
      BY TableFacts
    <3> QED BY <1>1, <1>3, <3>1, <3>2
  <2>2. Placed(u)
    BY <1>2, <2>1 DEF Placed, TableOK
  <2>3. DefaultOK(u)
    BY <1>2, <2>1 DEF DefaultOK, TableOK
  <2>4. ASSUME NEW n \in Nets PROVE Sorted(u, u.chain[n])
    <3>1. Sorted(t, t.chain[n]) /\ DOMAIN t.chain[n] = 1..Len(t.chain[n])
      BY TableFacts DEF TableOK
    <3> QED BY SMTT(30), <1>2, <2>1, <3>1 DEF Sorted
  <2> QED BY <2>2, <2>3, <2>4
<1>6. TableOK(u, B, More(H, b))
  BY <1>2, <1>4, <1>5 DEF TableOK
<1> QED BY <1>2, <1>3, <1>6 DEF u

LEMMA InsertFacts ==
    ASSUME NEW S, NEW s \in Seq(S), NEW i \in 1..Len(s) + 1, NEW e \in S
    PROVE  /\ InsertAt(s, i, e) \in Seq(S) /\ Len(InsertAt(s, i, e)) = Len(s) + 1
           /\ \A j \in 1..Len(s) + 1 :
                 InsertAt(s, i, e)[j] = IF j < i THEN s[j] ELSE IF j = i THEN e ELSE s[j - 1]
<1> DEFINE a == SubSeq(s, 1, i - 1)
           z == SubSeq(s, i, Len(s))
           y == a \o <<e>>
<1>1. Len(s) \in Nat /\ i \in Nat /\ \A j \in 1..Len(s) : s[j] \in S
  BY LenProperties, ElementOfSeq
<1>2. /\ a \in Seq(S) /\ Len(a) = i - 1 /\ \A j \in 1..i - 1 : a[j] = s[j]
  <2>1. i - 1 \in Int /\ \A j \in 1..i - 1 : s[j] \in S
    BY <1>1
  <2> QED BY <1>1, <2>1, SubSeqProperties
<1>3. /\ z \in Seq(S) /\ Len(z) = Len(s) - i + 1
      /\ \A j \in 1..Len(s) - i + 1 : z[j] = s[i + j - 1]
  <2>1. \A j \in i..Len(s) : s[j] \in S
    BY <1>1
  <2> QED BY <1>1, <2>1, SubSeqProperties
<1>4. <<e>> \in Seq(S) /\ Len(<<e>>) = 1 /\ <<e>>[1] = e
  OBVIOUS
<1> HIDE DEF a, z
<1>5. /\ y \in Seq(S) /\ Len(y) = i
      /\ \A j \in 1..i : y[j] = IF j < i THEN s[j] ELSE e
  <2>1. /\ y \in Seq(S) /\ Len(y) = i
        /\ \A j \in 1..i : y[j] = IF j <= i - 1 THEN a[j] ELSE <<e>>[j - (i - 1)]
    BY <1>1, <1>2, <1>4, ConcatProperties
  <2> QED BY <1>1, <1>2, <1>4, <2>1
<1> HIDE DEF y
<1>6. /\ y \o z \in Seq(S) /\ Len(y \o z) = Len(s) + 1
      /\ \A j \in 1..Len(s) + 1 : (y \o z)[j] = IF j <= i THEN y[j] ELSE z[j - i]
  <2>1. Len(y) + Len(z) = Len(s) + 1
    BY <1>1, <1>3, <1>5
  <2>2. /\ y \o z \in Seq(S) /\ Len(y \o z) = Len(y) + Len(z)
        /\ \A j \in 1..Len(y) + Len(z) : (y \o z)[j] = IF j <= Len(y) THEN y[j] ELSE z[j - Len(y)]
    BY <1>3, <1>5, ConcatProperties
  <2> QED BY <1>5, <2>1, <2>2
<1>7. \A j \in 1..Len(s) + 1 :
         (y \o z)[j] = IF j < i THEN s[j] ELSE IF j = i THEN e ELSE s[j - 1]
  <2> SUFFICES ASSUME NEW j \in 1..Len(s) + 1
               PROVE  (y \o z)[j] = IF j < i THEN s[j] ELSE IF j = i THEN e ELSE s[j - 1]
    OBVIOUS
  <2>1. CASE j <= i
    BY <1>1, <1>5, <1>6, <2>1
  <2>2. CASE j > i
    <3>1. j - i \in 1..Len(s) - i + 1 /\ i + (j - i) - 1 = j - 1 /\ ~ (j <= i)
      BY <1>1, <2>2
    <3>2. (y \o z)[j] = z[j - i]
      BY <1>6, <3>1
    <3>3. z[j - i] = s[i + (j - i) - 1]
      BY <1>3, <3>1
    <3>4. ~ (j < i) /\ j # i
      BY <1>1, <2>2
    <3>5. (y \o z)[j] = s[j - 1]
      BY <1>1, <3>1, <3>2, <3>3
    <3> QED BY <3>4, <3>5
  <2>3. j <= i \/ j > i
    BY <1>1
  <2> QED BY <2>1, <2>2, <2>3
<1>8. InsertAt(s, i, e) = y \o z
  BY DEF InsertAt, y, a, z
<1> QED BY <1>6, <1>7, <1>8

LEMMA RemoveFacts ==
    ASSUME NEW S, NEW s \in Seq(S), NEW i \in 1..Len(s)
    PROVE  /\ RemoveAt(s, i) \in Seq(S) /\ Len(RemoveAt(s, i)) = Len(s) - 1
           /\ \A j \in 1..Len(s) - 1 : RemoveAt(s, i)[j] = IF j < i THEN s[j] ELSE s[j + 1]
<1> DEFINE a == SubSeq(s, 1, i - 1)
           z == SubSeq(s, i + 1, Len(s))
<1>1. Len(s) \in Nat /\ i \in Nat /\ \A j \in 1..Len(s) : s[j] \in S
  BY LenProperties, ElementOfSeq
<1>2. /\ a \in Seq(S) /\ Len(a) = i - 1 /\ \A j \in 1..i - 1 : a[j] = s[j]
  <2>1. i - 1 \in Int /\ \A j \in 1..i - 1 : s[j] \in S
    BY <1>1
  <2> QED BY <1>1, <2>1, SubSeqProperties
<1>3. /\ z \in Seq(S) /\ Len(z) = Len(s) - i
      /\ \A j \in 1..Len(s) - i : z[j] = s[i + j]
  <2>1. i + 1 \in Int /\ \A j \in i + 1..Len(s) : s[j] \in S
    BY <1>1
  <2>2. /\ z \in Seq(S)
        /\ Len(z) = IF i + 1 <= Len(s) THEN Len(s) - (i + 1) + 1 ELSE 0
        /\ \A j \in 1..Len(s) - (i + 1) + 1 : z[j] = s[(i + 1) + j - 1]
    BY <1>1, <2>1, SubSeqProperties
  <2> HIDE DEF z
  <2>3. Len(s) - (i + 1) + 1 = Len(s) - i /\ \A j \in Int : (i + 1) + j - 1 = i + j
    BY <1>1
  <2>4. Len(z) = Len(s) - i
    BY <1>1, <2>2
  <2>5. ASSUME NEW j \in 1..Len(s) - i PROVE z[j] = s[i + j]
    <3>1. j \in 1..Len(s) - (i + 1) + 1 /\ (i + 1) + j - 1 = i + j
      BY <1>1
    <3>2. z[j] = s[(i + 1) + j - 1]
      BY <2>2, <3>1
    <3> QED BY <3>1, <3>2
  <2> QED BY <2>2, <2>4, <2>5
<1> HIDE DEF a, z
<1>4. /\ a \o z \in Seq(S) /\ Len(a \o z) = Len(s) - 1
      /\ \A j \in 1..Len(s) - 1 : (a \o z)[j] = IF j <= i - 1 THEN a[j] ELSE z[j - (i - 1)]
  <2>1. Len(a) + Len(z) = Len(s) - 1
    BY <1>1, <1>2, <1>3
  <2>2. /\ a \o z \in Seq(S) /\ Len(a \o z) = Len(a) + Len(z)
        /\ \A j \in 1..Len(a) + Len(z) : (a \o z)[j] = IF j <= Len(a) THEN a[j] ELSE z[j - Len(a)]
    BY <1>2, <1>3, ConcatProperties
  <2> QED BY <1>2, <2>1, <2>2
<1>5. \A j \in 1..Len(s) - 1 : (a \o z)[j] = IF j < i THEN s[j] ELSE s[j + 1]
  <2> SUFFICES ASSUME NEW j \in 1..Len(s) - 1
               PROVE  (a \o z)[j] = IF j < i THEN s[j] ELSE s[j + 1]
    OBVIOUS
  <2>1. CASE j < i
    BY <1>1, <1>2, <1>4, <2>1
  <2>2. CASE j >= i
    <3>1. j - (i - 1) \in 1..Len(s) - i /\ i + (j - (i - 1)) = j + 1 /\ ~ (j <= i - 1)
      BY <1>1, <2>2
    <3>2. (a \o z)[j] = z[j - (i - 1)]
      BY <1>4, <3>1
    <3>3. z[j - (i - 1)] = s[i + (j - (i - 1))]
      BY <1>3, <3>1
    <3>4. ~ (j < i)
      BY <1>1, <2>2
    <3>5. (a \o z)[j] = s[j + 1]
      BY <1>1, <3>1, <3>2, <3>3
    <3> QED BY <3>4, <3>5
  <2>3. j < i \/ j >= i
    BY <1>1
  <2> QED BY <2>1, <2>2, <2>3
<1>6. RemoveAt(s, i) = a \o z
  BY DEF RemoveAt, a, z
<1> QED BY <1>4, <1>5, <1>6

(* Is b in the table when the bucket of n has become d? *)
Stays(t, n, d, b) ==
    IF b = t.dflt \/ (b \in Linked(t) /\ t.buf[b].dst.net # n) \/ \E i \in 1..Len(d) : d[i] = b
      THEN 1 ELSE 0

(* A bucket is changed: references pass between the table and its users.     *)
LEMMA BucketChanged ==
    ASSUME NEW B, Buffers(B), NEW H \in Holds(B), NEW t, TableOK(t, B, H),
           NEW n \in Nets, NEW d \in Seq(B), NEW G \in Holds(B),
           \A i \in 1..Len(d) : t.buf[d[i]].dst.net = n,
           Sorted(t, d),
           \A b \in B : In(t, b) + H[b] = Stays(t, n, d, b) + G[b]
    PROVE  TableOK([t EXCEPT !.chain[n] = d], B, G)
<1> DEFINE u == [t EXCEPT !.chain[n] = d]
<1>1. t \in Tables(B)
  BY DEF TableOK
<1>2. /\ u \in Tables(B) /\ u.buf = t.buf /\ u.dflt = t.dflt
      /\ u.chain = [t.chain EXCEPT ![n] = d]
  BY <1>1 DEF Tables
<1> HIDE DEF u
<1>3. \A k \in Nets : u.chain[k] = IF k = n THEN d ELSE t.chain[k]
  BY <1>1, <1>2 DEF Tables
<1>4. \A b \in B : b \in Linked(u) <=> \/ b \in Linked(t) /\ t.buf[b].dst.net # n
                                       \/ \E i \in 1..Len(d) : d[i] = b
  <2> SUFFICES ASSUME NEW b \in B
               PROVE  b \in Linked(u) <=> \/ b \in Linked(t) /\ t.buf[b].dst.net # n
                                          \/ \E i \in 1..Len(d) : d[i] = b
    OBVIOUS
  <2>1. b \in Linked(u) <=> \E k \in Nets : \E i \in 1..Len(u.chain[k]) : u.chain[k][i] = b
    <3>1. u \in Tables(B)
      BY <1>2
    <3> QED BY <3>1, InBucket
  <2>2. b \in Linked(t) <=> \E k \in Nets : \E i \in 1..Len(t.chain[k]) : t.chain[k][i] = b
    BY <1>1, InBucket
  <2>3. \A k \in Nets : \A i \in 1..Len(t.chain[k]) : t.buf[t.chain[k][i]].dst.net = k
    BY TableFacts
  <2>4. ASSUME b \in Linked(u)
        PROVE  \/ b \in Linked(t) /\ t.buf[b].dst.net # n
               \/ \E i \in 1..Len(d) : d[i] = b
    <3>1. PICK k \in Nets : \E i \in 1..Len(u.chain[k]) : u.chain[k][i] = b
      BY <2>1, <2>4
    <3>2. CASE k = n
      BY <1>3, <3>1, <3>2
    <3>3. CASE k # n
      <4>1. PICK i \in 1..Len(t.chain[k]) : t.chain[k][i] = b
        BY <1>3, <3>1, <3>3
      <4> QED BY <2>2, <2>3, <3>3, <4>1
    <3> QED BY <3>2, <3>3
  <2>5. ASSUME b \in Linked(t) /\ t.buf[b].dst.net # n PROVE b \in Linked(u)
    <3>1. PICK k \in Nets : \E i \in 1..Len(t.chain[k]) : t.chain[k][i] = b
      BY <2>2, <2>5
    <3>2. k # n
      BY <2>3, <2>5, <3>1
    <3> QED BY <1>3, <2>1, <3>1, <3>2
  <2>6. ASSUME \E i \in 1..Len(d) : d[i] = b PROVE b \in Linked(u)
    BY <1>3, <2>1, <2>6
  <2> QED BY <2>4, <2>5, <2>6
<1>5. Counted(u, B, G)
  <2> SUFFICES ASSUME NEW b \in B PROVE u.buf[b].ref = In(u, b) + G[b]
    BY DEF Counted
  <2>1. t.buf[b].ref = In(t, b) + H[b]
    BY TableFacts
  <2>2. In(u, b) = Stays(t, n, d, b)
    BY <1>2, <1>4 DEF In, Stays
  <2> QED BY <1>2, <2>1, <2>2
<1>6. Placed(u) /\ DefaultOK(u)
  BY <1>2, <1>3 DEF Placed, DefaultOK, TableOK
<1>7. ASSUME NEW k \in Nets PROVE Sorted(u, u.chain[k])
  <2>1. Sorted(t, u.chain[k])
    BY <1>3 DEF TableOK
  <2> QED BY <1>2, <2>1 DEF Sorted
<1>8. TableOK(u, B, G)
  BY <1>2, <1>5, <1>6, <1>7 DEF TableOK
<1> QED BY <1>8 DEF u

(* The default route is changed. *)
LEMMA DefaultChanged ==
    ASSUME NEW B, Buffers(B), NEW H \in Holds(B), NEW t, TableOK(t, B, H),
           NEW e \in B \cup {0}, e # 0 => t.buf[e].dst = Default, NEW G \in Holds(B),
           \A b \in B : In(t, b) + H[b] = (IF b \in Linked(t) \/ b = e THEN 1 ELSE 0) + G[b]
    PROVE  TableOK([t EXCEPT !.dflt = e], B, G)
<1> DEFINE u == [t EXCEPT !.dflt = e]
<1>1. /\ u \in Tables(B) /\ u.buf = t.buf /\ u.dflt = e /\ u.chain = t.chain
  BY DEF TableOK, Tables
<1> HIDE DEF u
<1>2. \A b : b \in Linked(u) <=> b \in Linked(t)
  BY <1>1 DEF Linked
<1>3. Counted(u, B, G)
  <2> SUFFICES ASSUME NEW b \in B PROVE u.buf[b].ref = In(u, b) + G[b]
    BY DEF Counted
  <2>1. t.buf[b].ref = In(t, b) + H[b]
    BY TableFacts
  <2> QED BY <1>1, <1>2, <2>1 DEF In
<1>4. Placed(u) /\ DefaultOK(u) /\ \A n \in Nets : Sorted(u, u.chain[n])
  BY <1>1 DEF Placed, DefaultOK, TableOK, Sorted
<1>5. TableOK(u, B, G)
  BY <1>1, <1>3, <1>4 DEF TableOK
<1> QED BY <1>5 DEF u

(* A route is changed in place. *)
LEMMA RouteChanged ==
    ASSUME NEW B, Buffers(B), NEW H \in Holds(B), NEW t, TableOK(t, B, H), NEW b \in B,
           NEW r \in RouteSet, r.ref = t.buf[b].ref, r.dst = t.buf[b].dst
    PROVE  LET u == [t EXCEPT !.buf[b] = r]
           IN TableOK(u, B, H) /\ \A x \in B : u.buf[x].ref = t.buf[x].ref
<1> DEFINE u == [t EXCEPT !.buf[b] = r]
<1>1. t \in Tables(B)
  BY DEF TableOK
<1>2. /\ u \in Tables(B) /\ u.chain = t.chain /\ u.dflt = t.dflt
      /\ u.buf = [t.buf EXCEPT ![b] = r] /\ \A x : In(u, x) = In(t, x)
  BY <1>1, BufChanged
<1> HIDE DEF u
<1>3. \A x \in B : u.buf[x].ref = t.buf[x].ref /\ u.buf[x].dst = t.buf[x].dst
  BY <1>1, <1>2, TableFacts
<1>4. Counted(u, B, H)
  BY <1>2, <1>3 DEF Counted, TableOK
<1>5. Placed(u) /\ DefaultOK(u)
  BY SMTT(30), <1>2, <1>3, TableFacts DEF Placed, DefaultOK, TableOK
<1>6. ASSUME NEW n \in Nets PROVE Sorted(u, u.chain[n])
  <2>1. Sorted(t, t.chain[n]) /\ DOMAIN t.chain[n] = 1..Len(t.chain[n])
        /\ \A i \in 1..Len(t.chain[n]) : t.chain[n][i] \in B
    BY TableFacts DEF TableOK
  <2> QED BY <1>2, <1>3, <2>1 DEF Sorted
<1>7. TableOK(u, B, H)
  BY <1>2, <1>4, <1>5, <1>6 DEF TableOK
<1> QED BY <1>3, <1>7 DEF u

(* Where rtadd stops in a bucket. *)
Stops(t, c, dst) == {i \in 1..Len(c) : Key(dst) > Key(t.buf[c[i]].dst) \/ t.buf[c[i]].dst = dst}

LEMMA PlaceFacts ==
    ASSUME NEW B, Buffers(B), NEW H \in Holds(B), NEW t, TableOK(t, B, H),
           NEW dst, dst.net \in Nets
    PROVE  LET c == t.chain[dst.net]
               i == Place(t, dst)
           IN /\ i \in 1..Len(c) + 1
              /\ i <= Len(c) => i \in Stops(t, c, dst)
              /\ \A j \in 1..Len(c) : j < i => j \notin Stops(t, c, dst)
<1> DEFINE c == t.chain[dst.net]
           i == Place(t, dst)
           T == {Len(c) + 1} \cup Stops(t, c, dst)
<1>1. DOMAIN c = 1..Len(c) /\ Len(c) \in Nat
  BY TableFacts
<1>2. i = Min(T)
  BY <1>1 DEF Place, Stops
<1>3. T \in SUBSET Nat /\ T # {}
  BY <1>1 DEF Stops
<1> HIDE DEF i
<1>4. i \in T /\ \A k \in T : i <= k
  BY <1>2, <1>3, LeastOf
<1>5. \A k \in Stops(t, c, dst) : k \in 1..Len(c)
  BY DEF Stops
<1> HIDE DEF c
<1>6. /\ i \in 1..Len(c) + 1
      /\ i <= Len(c) => i \in Stops(t, c, dst)
      /\ \A j \in 1..Len(c) : j < i => j \notin Stops(t, c, dst)
  BY <1>1, <1>4, <1>5
<1> QED BY <1>6 DEF c, i

LEMMA SortedFacts ==
    ASSUME NEW B, Buffers(B), NEW H \in Holds(B), NEW t, TableOK(t, B, H), NEW n \in Nets
    PROVE  LET c == t.chain[n]
           IN \A i, j \in 1..Len(c) : i < j =>
                 /\ c[i] # c[j] /\ t.buf[c[i]].dst # t.buf[c[j]].dst
                 /\ Key(t.buf[c[i]].dst) >= Key(t.buf[c[j]].dst)
BY TableFacts DEF Sorted, TableOK

LEMMA KeyIs == \A dst : Key(dst) \in {1, 2}
BY DEF Key

(* A new route goes into its bucket where rtadd stops. *)
LEMMA InsertSorted ==
    ASSUME NEW B, Buffers(B), NEW H \in Holds(B), NEW t, TableOK(t, B, H),
           NEW b \in B, b \notin Linked(t), NEW n \in Nets,
           NEW i \in 1..Len(t.chain[n]) + 1,
           i <= Len(t.chain[n]) => Key(t.buf[b].dst) > Key(t.buf[t.chain[n][i]].dst),
           \A j \in 1..Len(t.chain[n]) : j < i => j \notin Stops(t, t.chain[n], t.buf[b].dst)
    PROVE  Sorted(t, InsertAt(t.chain[n], i, b))
<1> DEFINE c == t.chain[n]
           d == InsertAt(t.chain[n], i, b)
           dst == t.buf[b].dst
           key(x) == Key(t.buf[x].dst)
<1>1. /\ c \in Seq(B) /\ Len(c) \in Nat /\ i \in Nat /\ i \in 1..Len(c) + 1
      /\ \A j \in 1..Len(c) : c[j] \in B /\ c[j] # b
  BY TableFacts
<1>2. /\ d \in Seq(B) /\ Len(d) = Len(c) + 1
      /\ \A j \in 1..Len(c) + 1 : d[j] = IF j < i THEN c[j] ELSE IF j = i THEN b ELSE c[j - 1]
  <2>1. d = InsertAt(c, i, b)
    OBVIOUS
  <2> HIDE DEF c, d
  <2>2. /\ InsertAt(c, i, b) \in Seq(B) /\ Len(InsertAt(c, i, b)) = Len(c) + 1
        /\ \A j \in 1..Len(c) + 1 :
              InsertAt(c, i, b)[j] = IF j < i THEN c[j] ELSE IF j = i THEN b ELSE c[j - 1]
    BY <1>1, InsertFacts
  <2> QED BY <2>1, <2>2
<1>3. \A j, k \in 1..Len(c) : j < k =>
         /\ c[j] # c[k] /\ t.buf[c[j]].dst # t.buf[c[k]].dst /\ key(c[j]) >= key(c[k])
  BY SortedFacts
<1>4. \A j \in 1..Len(c) : j < i => key(c[j]) >= key(b) /\ t.buf[c[j]].dst # t.buf[b].dst
  BY KeyIs DEF Stops
<1>5. i <= Len(c) => key(b) > key(c[i])
  OBVIOUS
<1>6. \A x : key(x) \in {1, 2}
  BY KeyIs
<1>7. \A x, y : key(x) # key(y) => t.buf[x].dst # t.buf[y].dst
  OBVIOUS
<1> HIDE DEF c, d, dst, key
<1>8. DOMAIN d = 1..Len(d)
  BY <1>2, LenProperties
<1>9. ASSUME NEW j \in 1..Len(c) + 1, NEW k \in 1..Len(c) + 1, j < k
      PROVE  /\ d[j] # d[k] /\ t.buf[d[j]].dst # t.buf[d[k]].dst /\ key(d[j]) >= key(d[k])
  <2>1. CASE k < i
    <3>1. j \in 1..Len(c) /\ k \in 1..Len(c) /\ j < i
      BY <1>1, <1>9, <2>1
    <3>2. d[j] = c[j] /\ d[k] = c[k]
      BY <1>2, <2>1, <3>1
    <3> QED BY <1>3, <1>9, <3>1, <3>2
  <2>2. CASE k = i
    <3>1. j \in 1..Len(c) /\ j < i
      BY <1>1, <1>9, <2>2
    <3>2. d[j] = c[j] /\ d[k] = b
      BY <1>1, <1>2, <2>2, <3>1
    <3> QED BY <1>1, <1>4, <3>1, <3>2
  <2>3. CASE j < i /\ i < k
    <3>1. j \in 1..Len(c) /\ k - 1 \in 1..Len(c) /\ j < k - 1 /\ ~ (k < i) /\ k # i
      BY <1>1, <2>3
    <3>2. d[j] = c[j] /\ d[k] = c[k - 1]
      BY <1>1, <1>2, <2>3, <3>1
    <3> QED BY <1>3, <3>1, <3>2
  <2>4. CASE j = i
    <3>1. k - 1 \in 1..Len(c) /\ i <= k - 1 /\ i \in 1..Len(c) /\ ~ (k < i) /\ k # i
      BY <1>1, <1>9, <2>4
    <3>2. d[j] = b /\ d[k] = c[k - 1]
      BY <1>1, <1>2, <2>4, <3>1
    <3>3. key(c[i]) >= key(c[k - 1])
      <4>1. CASE i = k - 1
        BY <1>6, <4>1
      <4>2. CASE i < k - 1
        BY <1>3, <3>1, <4>2
      <4> QED BY <1>1, <3>1, <4>1, <4>2
    <3>4. key(b) > key(c[k - 1]) /\ key(b) # key(c[k - 1])
      BY <1>5, <1>6, <3>1, <3>3
    <3> QED BY <1>1, <1>6, <1>7, <3>1, <3>2, <3>4
  <2>5. CASE i < j
    <3>1. /\ j - 1 \in 1..Len(c) /\ k - 1 \in 1..Len(c) /\ j - 1 < k - 1
          /\ ~ (k < i) /\ k # i /\ ~ (j < i) /\ j # i
      BY <1>1, <1>9, <2>5
    <3>2. d[j] = c[j - 1] /\ d[k] = c[k - 1]
      BY <1>2, <3>1
    <3> QED BY <1>3, <3>1, <3>2
  <2>6. k < i \/ k = i \/ (j < i /\ i < k) \/ j = i \/ i < j
    BY <1>1
  <2> QED BY <2>1, <2>2, <2>3, <2>4, <2>5, <2>6
<1>10. Sorted(t, d)
  BY <1>2, <1>8, <1>9 DEF Sorted, key
<1> QED BY <1>10 DEF d

LEMMA LinkKeeps ==
    ASSUME NEW B, Buffers(B), NEW H \in Holds(B), NEW t, NEW b \in B, TableOK(t, B, More(H, b)),
           b \notin Linked(t), b # t.dflt, NEW n \in Nets, t.buf[b].dst.net = n,
           NEW i \in 1..Len(t.chain[n]) + 1,
           i <= Len(t.chain[n]) => Key(t.buf[b].dst) > Key(t.buf[t.chain[n][i]].dst),
           \A j \in 1..Len(t.chain[n]) : j < i => j \notin Stops(t, t.chain[n], t.buf[b].dst)
    PROVE  TableOK([t EXCEPT !.chain[n] = InsertAt(t.chain[n], i, b)], B, H)
<1> DEFINE c == t.chain[n]
           d == InsertAt(t.chain[n], i, b)
<1>1. /\ More(H, b) \in Holds(B)
      /\ \A x \in B : More(H, b)[x] = H[x] + (IF x = b THEN 1 ELSE 0) /\ H[x] \in Nat
  BY DEF More, Holds
<1>2. /\ c \in Seq(B) /\ Len(c) \in Nat /\ i \in Nat /\ i \in 1..Len(c) + 1
      /\ \A j \in 1..Len(c) : c[j] \in B /\ t.buf[c[j]].dst.net = n
  BY <1>1, TableFacts
<1>3. /\ d \in Seq(B) /\ Len(d) = Len(c) + 1
      /\ \A j \in 1..Len(c) + 1 : d[j] = IF j < i THEN c[j] ELSE IF j = i THEN b ELSE c[j - 1]
  <2>1. d = InsertAt(c, i, b)
    OBVIOUS
  <2> HIDE DEF c, d
  <2>2. /\ InsertAt(c, i, b) \in Seq(B) /\ Len(InsertAt(c, i, b)) = Len(c) + 1
        /\ \A j \in 1..Len(c) + 1 :
              InsertAt(c, i, b)[j] = IF j < i THEN c[j] ELSE IF j = i THEN b ELSE c[j - 1]
    BY <1>2, InsertFacts
  <2> QED BY <2>1, <2>2
<1>4. Sorted(t, d)
  BY <1>1, InsertSorted
<1>5. \A x \in B : (b # x => ((x \in Linked(t) /\ t.buf[x].dst.net = n)
                                <=> \E j \in 1..Len(c) : c[j] = x))
  <2>1. t \in Tables(B)
    BY DEF TableOK
  <2>2. \A k \in Nets : \A j \in 1..Len(t.chain[k]) : t.buf[t.chain[k][j]].dst.net = k
    BY <1>1, TableFacts
  <2> SUFFICES ASSUME NEW x \in B
               PROVE  (x \in Linked(t) /\ t.buf[x].dst.net = n) <=> \E j \in 1..Len(c) : c[j] = x
    OBVIOUS
  <2>3. x \in Linked(t) <=> \E k \in Nets : \E j \in 1..Len(t.chain[k]) : t.chain[k][j] = x
    BY <2>1, InBucket
  <2>4. ASSUME x \in Linked(t), t.buf[x].dst.net = n PROVE \E j \in 1..Len(c) : c[j] = x
    <3>1. PICK k \in Nets : \E j \in 1..Len(t.chain[k]) : t.chain[k][j] = x
      BY <2>3, <2>4
    <3>2. k = n
      BY <2>2, <2>4, <3>1
    <3> QED BY <3>1, <3>2
  <2>5. ASSUME NEW j \in 1..Len(c), c[j] = x PROVE x \in Linked(t) /\ t.buf[x].dst.net = n
    BY <2>2, <2>3, <2>5
  <2> QED BY <2>4, <2>5
<1> HIDE DEF c, d
<1>6. \A j \in 1..Len(d) : t.buf[d[j]].dst.net = n
  <2> SUFFICES ASSUME NEW j \in 1..Len(d) PROVE t.buf[d[j]].dst.net = n
    OBVIOUS
  <2>1. CASE j < i
    BY <1>2, <1>3, <2>1
  <2>2. CASE j = i
    BY <1>2, <1>3, <2>2
  <2>3. CASE j > i
    <3>1. j - 1 \in 1..Len(c) /\ ~ (j < i) /\ j # i
      BY <1>2, <1>3, <2>3
    <3> QED BY <1>2, <1>3, <3>1
  <2> QED BY <1>2, <2>1, <2>2, <2>3
<1>7. \A x \in B : (\E j \in 1..Len(d) : d[j] = x) <=> (x = b \/ \E j \in 1..Len(c) : c[j] = x)
  <2> SUFFICES ASSUME NEW x \in B
               PROVE  (\E j \in 1..Len(d) : d[j] = x) <=> (x = b \/ \E j \in 1..Len(c) : c[j] = x)
    OBVIOUS
  <2>1. ASSUME NEW j \in 1..Len(d), d[j] = x PROVE x = b \/ \E k \in 1..Len(c) : c[k] = x
    <3>1. CASE j < i
      <4>1. j \in 1..Len(c) /\ d[j] = c[j]
        BY <1>2, <1>3, <3>1
      <4> QED BY <2>1, <4>1
    <3>2. CASE j = i
      BY <1>2, <1>3, <2>1, <3>2
    <3>3. CASE j > i
      <4>1. j - 1 \in 1..Len(c) /\ ~ (j < i) /\ j # i
        BY <1>2, <1>3, <3>3
      <4> QED BY <1>3, <2>1, <4>1
    <3> QED BY <1>2, <3>1, <3>2, <3>3
  <2>2. ASSUME x = b PROVE \E j \in 1..Len(d) : d[j] = x
    BY <1>2, <1>3, <2>2
  <2>3. ASSUME NEW k \in 1..Len(c), c[k] = x PROVE \E j \in 1..Len(d) : d[j] = x
    <3>1. CASE k < i
      <4>1. k \in 1..Len(d) /\ d[k] = c[k]
        BY <1>2, <1>3, <3>1
      <4> QED BY <2>3, <4>1
    <3>2. CASE k >= i
      <4>1. k + 1 \in 1..Len(c) + 1 /\ ~ (k + 1 < i) /\ k + 1 # i /\ (k + 1) - 1 = k
        BY <1>2, <1>3, <3>2
      <4>2. d[k + 1] = c[k]
        BY <1>3, <4>1
      <4> QED BY <1>3, <2>3, <4>1, <4>2
    <3> QED BY <1>2, <3>1, <3>2
  <2> QED BY <2>1, <2>2, <2>3
<1>8. \A x \in B : In(t, x) + More(H, b)[x] = Stays(t, n, d, x) + H[x]
  <2> SUFFICES ASSUME NEW x \in B PROVE In(t, x) + More(H, b)[x] = Stays(t, n, d, x) + H[x]
    OBVIOUS
  <2>1. CASE x = b
    BY <1>1, <1>7, <2>1 DEF In, Stays
  <2>2. CASE x # b
    <3>1. (x \in Linked(t) /\ t.buf[x].dst.net = n) <=> \E j \in 1..Len(d) : d[j] = x
      BY <1>5, <1>7, <2>2
    <3> QED BY <1>1, <2>2, <3>1 DEF In, Stays
  <2> QED BY <2>1, <2>2
<1>9. TableOK([t EXCEPT !.chain[n] = d], B, H)
  <2> DEFINE M == More(H, b)
  <2>1. M \in Holds(B) /\ TableOK(t, B, M) /\ d \in Seq(B) /\ Sorted(t, d)
    BY <1>1, <1>3, <1>4
  <2>2. \A x \in B : In(t, x) + M[x] = Stays(t, n, d, x) + H[x]
    BY <1>8
  <2> HIDE DEF M
  <2> QED BY <1>6, <2>1, <2>2, BucketChanged
<1> QED BY <1>9 DEF d

(* What is in a bucket are the routes to its network that are linked. *)
LEMMA BucketOf ==
    ASSUME NEW B, Buffers(B), NEW H \in Holds(B), NEW t, TableOK(t, B, H), NEW n \in Nets, NEW x
    PROVE  (x \in Linked(t) /\ t.buf[x].dst.net = n)
             <=> \E j \in 1..Len(t.chain[n]) : t.chain[n][j] = x
<1>1. t \in Tables(B)
  BY DEF TableOK
<1>2. \A k \in Nets : \A j \in 1..Len(t.chain[k]) : t.buf[t.chain[k][j]].dst.net = k
  BY TableFacts
<1>3. x \in Linked(t) <=> \E k \in Nets : \E j \in 1..Len(t.chain[k]) : t.chain[k][j] = x
  BY <1>1, InBucket
<1>4. ASSUME x \in Linked(t), t.buf[x].dst.net = n
      PROVE  \E j \in 1..Len(t.chain[n]) : t.chain[n][j] = x
  <2>1. PICK k \in Nets : \E j \in 1..Len(t.chain[k]) : t.chain[k][j] = x
    BY <1>3, <1>4
  <2>2. k = n
    BY <1>2, <1>4, <2>1
  <2> QED BY <2>1, <2>2
<1>5. ASSUME NEW j \in 1..Len(t.chain[n]), t.chain[n][j] = x
      PROVE  x \in Linked(t) /\ t.buf[x].dst.net = n
  BY <1>2, <1>3, <1>5
<1> QED BY <1>4, <1>5

LEMMA MoreFacts ==
    ASSUME NEW B, NEW H \in Holds(B), NEW b \in B
    PROVE  /\ More(H, b) \in Holds(B)
           /\ \A x \in B : More(H, b)[x] = H[x] + (IF x = b THEN 1 ELSE 0) /\ H[x] \in Nat
BY DEF More, Holds

(* A route takes the place of another to the same destination. *)
LEMMA SwapKeeps ==
    ASSUME NEW B, Buffers(B), NEW H \in Holds(B), NEW t, NEW b \in B, TableOK(t, B, More(H, b)),
           b \notin Linked(t), b # t.dflt, NEW n \in Nets, NEW i \in 1..Len(t.chain[n]),
           t.buf[b].dst = t.buf[t.chain[n][i]].dst
    PROVE  LET at == t.chain[n][i]
           IN at \in B /\ TableOK([t EXCEPT !.chain[n] = [t.chain[n] EXCEPT ![i] = b]], B, More(H, at))
<1> DEFINE c == t.chain[n]
           at == c[i]
           d == [c EXCEPT ![i] = b]
           M == More(H, b)
           G == More(H, at)
<1>1. M \in Holds(B) /\ TableOK(t, B, M)
      /\ \A x \in B : M[x] = H[x] + (IF x = b THEN 1 ELSE 0) /\ H[x] \in Nat
  BY MoreFacts
<1> HIDE DEF M
<1>2. /\ c \in Seq(B) /\ Len(c) \in Nat /\ i \in 1..Len(c) /\ DOMAIN c = 1..Len(c)
      /\ \A j \in 1..Len(c) : c[j] \in B /\ t.buf[c[j]].dst.net = n /\ c[j] # b
                              /\ c[j] \in Linked(t) /\ c[j] # t.dflt
      /\ \A j, k \in 1..Len(c) : c[j] = c[k] => j = k
  BY SMTT(30), <1>1, TableFacts
<1>3. at \in B /\ t.buf[b].dst = t.buf[at].dst /\ at # b /\ at \in Linked(t) /\ at # t.dflt
  BY <1>2
<1>4. G \in Holds(B) /\ \A x \in B : G[x] = H[x] + (IF x = at THEN 1 ELSE 0)
  BY SMTT(30), <1>3, MoreFacts
<1> HIDE DEF G
<1>5. \A x : (x \in Linked(t) /\ t.buf[x].dst.net = n) <=> \E j \in 1..Len(c) : c[j] = x
  BY <1>1, BucketOf
<1>6. \A j, k \in 1..Len(c) : j < k =>
         /\ c[j] # c[k] /\ t.buf[c[j]].dst # t.buf[c[k]].dst
         /\ Key(t.buf[c[j]].dst) >= Key(t.buf[c[k]].dst)
  BY <1>1, SortedFacts
<1> HIDE DEF c
<1>7. /\ d \in Seq(B) /\ Len(d) = Len(c) /\ DOMAIN d = 1..Len(d)
      /\ \A j \in 1..Len(c) : d[j] = IF j = i THEN b ELSE c[j]
  BY <1>2, ExceptSeq, LenProperties
<1> HIDE DEF d, at
<1>8. at = c[i]
  BY DEF at
<1>9. \A j \in 1..Len(d) : t.buf[d[j]].dst = t.buf[c[j]].dst /\ t.buf[d[j]].dst.net = n
  BY <1>2, <1>3, <1>7, <1>8
<1>10. Sorted(t, d)
  <2> SUFFICES ASSUME NEW j \in 1..Len(d), NEW k \in 1..Len(d), j < k
               PROVE  /\ d[j] # d[k] /\ t.buf[d[j]].dst # t.buf[d[k]].dst
                      /\ Key(t.buf[d[j]].dst) >= Key(t.buf[d[k]].dst)
    BY <1>7 DEF Sorted
  <2>1. /\ t.buf[d[j]].dst # t.buf[d[k]].dst
        /\ Key(t.buf[d[j]].dst) >= Key(t.buf[d[k]].dst)
    BY <1>6, <1>7, <1>9
  <2> QED BY <2>1
<1>11. \A x \in B : In(t, x) + M[x] = Stays(t, n, d, x) + G[x]
  <2> SUFFICES ASSUME NEW x \in B PROVE In(t, x) + M[x] = Stays(t, n, d, x) + G[x]
    OBVIOUS
  <2>1. CASE x = b
    <3>1. d[i] = b /\ i \in 1..Len(d)
      BY <1>2, <1>7
    <3>2. Stays(t, n, d, x) = 1 /\ In(t, x) = 0
      BY <2>1, <3>1 DEF Stays, In
    <3> QED BY <1>1, <1>3, <1>4, <2>1, <3>2
  <2>2. CASE x = at
    <3>1. ~ \E j \in 1..Len(d) : d[j] = x
      BY <1>2, <1>3, <1>7, <1>8, <2>2
    <3>2. Stays(t, n, d, x) = 0 /\ In(t, x) = 1
      BY <1>2, <1>3, <1>8, <2>2, <3>1 DEF Stays, In
    <3> QED BY <1>1, <1>3, <1>4, <2>2, <3>2
  <2>3. CASE x # b /\ x # at
    <3>1. (\E j \in 1..Len(d) : d[j] = x) <=> \E j \in 1..Len(c) : c[j] = x
      BY <1>7, <1>8, <2>3
    <3>2. Stays(t, n, d, x) = In(t, x)
      BY <1>5, <3>1 DEF Stays, In
    <3> QED BY <1>1, <1>4, <2>3, <3>2
  <2> QED BY <2>1, <2>2, <2>3
<1>12. TableOK([t EXCEPT !.chain[n] = d], B, G)
  BY <1>1, <1>4, <1>7, <1>9, <1>10, <1>11, BucketChanged
<1> QED BY <1>3, <1>12 DEF at, c, d, G

(* A route is taken out of its bucket. *)
LEMMA UnlinkKeeps ==
    ASSUME NEW B, Buffers(B), NEW H \in Holds(B), NEW t, TableOK(t, B, H),
           NEW n \in Nets, NEW i \in 1..Len(t.chain[n])
    PROVE  LET at == t.chain[n][i]
           IN at \in B /\ TableOK([t EXCEPT !.chain[n] = RemoveAt(t.chain[n], i)], B, More(H, at))
<1> DEFINE c == t.chain[n]
           at == c[i]
           d == RemoveAt(c, i)
           G == More(H, at)
<1>2. /\ c \in Seq(B) /\ Len(c) \in Nat /\ i \in 1..Len(c)
      /\ \A j \in 1..Len(c) : c[j] \in B /\ t.buf[c[j]].dst.net = n
                              /\ c[j] \in Linked(t) /\ c[j] # t.dflt
      /\ \A j, k \in 1..Len(c) : c[j] = c[k] => j = k
      /\ \A x \in B : H[x] \in Nat
  BY TableFacts
<1>3. at \in B /\ at \in Linked(t) /\ at # t.dflt
  BY <1>2
<1>4. G \in Holds(B) /\ \A x \in B : G[x] = H[x] + (IF x = at THEN 1 ELSE 0)
  BY <1>3, MoreFacts
<1> HIDE DEF G
<1>5. \A x : (x \in Linked(t) /\ t.buf[x].dst.net = n) <=> \E j \in 1..Len(c) : c[j] = x
  BY BucketOf
<1>6. \A j, k \in 1..Len(c) : j < k =>
         /\ c[j] # c[k] /\ t.buf[c[j]].dst # t.buf[c[k]].dst
         /\ Key(t.buf[c[j]].dst) >= Key(t.buf[c[k]].dst)
  BY SortedFacts
<1> HIDE DEF c
<1>7. /\ d \in Seq(B) /\ Len(d) = Len(c) - 1
      /\ \A j \in 1..Len(c) - 1 : d[j] = IF j < i THEN c[j] ELSE c[j + 1]
  BY <1>2, RemoveFacts
<1> DEFINE w(j) == IF j < i THEN j ELSE j + 1
<1>8. /\ \A j \in 1..Len(d) : w(j) \in 1..Len(c) /\ w(j) # i /\ d[j] = c[w(j)]
      /\ \A j, k \in 1..Len(d) : j < k => w(j) < w(k)
  BY <1>2, <1>7
<1>9. \A k \in 1..Len(c) : k # i => \E j \in 1..Len(d) : w(j) = k
  <2> SUFFICES ASSUME NEW k \in 1..Len(c), k # i PROVE \E j \in 1..Len(d) : w(j) = k
    OBVIOUS
  <2>1. CASE k < i
    <3>1. k \in 1..Len(d) /\ w(k) = k
      BY <1>2, <1>7, <2>1
    <3> QED BY <3>1
  <2>2. CASE k > i
    <3>1. k - 1 \in 1..Len(d) /\ w(k - 1) = k
      BY <1>2, <1>7, <2>2
    <3> QED BY <3>1
  <2>3. k < i \/ k > i
    BY <1>2
  <2> QED BY <2>1, <2>2, <2>3
<1> HIDE DEF w, d, at
<1>10. at = c[i]
  BY DEF at
<1>11. Sorted(t, d)
  <2>1. DOMAIN d = 1..Len(d)
    BY <1>7, LenProperties
  <2> SUFFICES ASSUME NEW j \in 1..Len(d), NEW k \in 1..Len(d), j < k
               PROVE  /\ d[j] # d[k] /\ t.buf[d[j]].dst # t.buf[d[k]].dst
                      /\ Key(t.buf[d[j]].dst) >= Key(t.buf[d[k]].dst)
    BY <2>1 DEF Sorted
  <2> QED BY <1>6, <1>8
<1>12. \A j \in 1..Len(d) : t.buf[d[j]].dst.net = n
  BY <1>2, <1>8
<1>13. \A x \in B : In(t, x) + H[x] = Stays(t, n, d, x) + G[x]
  <2> SUFFICES ASSUME NEW x \in B PROVE In(t, x) + H[x] = Stays(t, n, d, x) + G[x]
    OBVIOUS
  <2>1. CASE x = at
    <3>1. ~ \E j \in 1..Len(d) : d[j] = x
      BY <1>2, <1>8, <1>10, <2>1
    <3>2. Stays(t, n, d, x) = 0 /\ In(t, x) = 1
      BY <1>2, <1>3, <1>10, <2>1, <3>1 DEF Stays, In
    <3> QED BY <1>2, <1>4, <2>1, <3>2
  <2>2. CASE x # at
    <3>1. (\E j \in 1..Len(d) : d[j] = x) <=> \E j \in 1..Len(c) : c[j] = x
      BY <1>8, <1>9, <1>10, <2>2
    <3>2. Stays(t, n, d, x) = In(t, x)
      BY <1>5, <3>1 DEF Stays, In
    <3> QED BY <1>2, <1>4, <2>2, <3>2
  <2> QED BY <2>1, <2>2
<1>14. TableOK([t EXCEPT !.chain[n] = d], B, G)
  BY <1>4, <1>7, <1>11, <1>12, <1>13, BucketChanged
<1> QED BY <1>3, <1>14 DEF at, c, d, G

-----------------------------------------------------------------------------
(* Operations of the table *)

LEMMA RouteMade ==
    ASSUME NEW dst \in Destinations, NEW gw \in Gateways, NEW metric \in Nat, NEW ifn \in Nat,
           NEW ttl \in Int
    PROVE  /\ Route(dst, gw, metric, ifn, ttl) \in RouteSet
           /\ Route(dst, gw, metric, ifn, ttl).ref = 1 /\ Route(dst, gw, metric, ifn, ttl).dst = dst
BY DEF Route, RouteSet

LEMMA FirstFree ==
    ASSUME NEW B, Buffers(B), NEW t \in Tables(B), FreeBufs(t) # {}
    PROVE  /\ Min(FreeBufs(t)) \in FreeBufs(t) /\ Min(FreeBufs(t)) \in B
           /\ \A x \in FreeBufs(t) : Min(FreeBufs(t)) <= x
<1>1. FreeBufs(t) \subseteq B /\ B \subseteq Nat
  BY DEF FreeBufs, Tables, Buffers
<1>2. FreeBufs(t) \in SUBSET Nat
  BY <1>1
<1> QED BY <1>1, <1>2, LeastOf

LEMMA FreeFacts ==
    ASSUME NEW B, Buffers(B), NEW H \in Holds(B), NEW t, TableOK(t, B, H), NEW b \in FreeBufs(t)
    PROVE  /\ b \in B /\ b \notin Linked(t) /\ b # t.dflt
           /\ \A n \in Nets : \A j \in 1..Len(t.chain[n]) : t.chain[n][j] \in B /\ t.chain[n][j] # b
<1>1. b \in B /\ b \notin Linked(t) /\ b # t.dflt
  BY TableFacts
<1>2. \A n \in Nets : \A j \in 1..Len(t.chain[n]) : t.chain[n][j] \in B /\ t.chain[n][j] \in Linked(t)
  BY TableFacts
<1> QED BY <1>1, <1>2

(* rtfree touches the buffer alone. *)
LEMMA FreeApart ==
    ASSUME NEW B, NEW t \in Tables(B), NEW b \in B
    PROVE  /\ \A n \in Nets : \A d : [RtFree(t, b) EXCEPT !.chain[n] = d]
                                   = RtFree([t EXCEPT !.chain[n] = d], b)
           /\ \A e : [RtFree(t, b) EXCEPT !.dflt = e] = RtFree([t EXCEPT !.dflt = e], b)
<1>1. \A n \in Nets : \A d : [RtFree(t, b) EXCEPT !.chain[n] = d] = RtFree([t EXCEPT !.chain[n] = d], b)
  <2> TAKE n \in Nets
  <2> TAKE d
  <2> QED BY DEF RtFree, Tables
<1>2. \A e : [RtFree(t, b) EXCEPT !.dflt = e] = RtFree([t EXCEPT !.dflt = e], b)
  <2> TAKE e
  <2> QED BY DEF RtFree, Tables
<1> QED BY <1>1, <1>2

LEMMA AddDefaultKeeps ==
    ASSUME NEW B, Buffers(B), NEW H \in Holds(B), NEW t, TableOK(t, B, H), FreeBufs(t) # {},
           NEW r \in RouteSet, r.ref = 1, r.dst = Default
    PROVE  TableOK(RtAddDefault(t, r), B, H)
<1> DEFINE b == Min(FreeBufs(t))
           u == [t EXCEPT !.buf[b] = r]
           v == [u EXCEPT !.dflt = b]
           M == More(H, b)
<1>1. t \in Tables(B)
  BY DEF TableOK
<1>2. b \in FreeBufs(t) /\ b \in B
  BY <1>1, FirstFree
<1>3. b \notin Linked(t) /\ b # t.dflt /\ t.dflt \in B \cup {0} /\ 0 \notin B
  BY <1>2, TableFacts
<1>4. RtAddDefault(t, r) = IF t.dflt = 0 THEN v ELSE RtFree(v, t.dflt)
  BY <1>1 DEF RtAddDefault, Tables
<1> HIDE DEF b
<1>5. /\ TableOK(u, B, M) /\ u.chain = t.chain /\ u.dflt = t.dflt /\ u.buf[b] = r
  BY <1>2, TakeKeeps
<1>6. M \in Holds(B) /\ \A x \in B : M[x] = H[x] + (IF x = b THEN 1 ELSE 0) /\ H[x] \in Nat
  BY <1>2, MoreFacts
<1> HIDE DEF u, M
<1>7. \A x : x \in Linked(u) <=> x \in Linked(t)
  BY <1>5 DEF Linked
<1>8. \A x \in Linked(t) : x # t.dflt
  BY TableFacts
<1>9. CASE t.dflt = 0
  <2>1. \A x \in B : In(u, x) + M[x] = (IF x \in Linked(u) \/ x = b THEN 1 ELSE 0) + H[x]
    BY <1>3, <1>5, <1>6, <1>7, <1>9 DEF In
  <2>2. TableOK(v, B, H)
    BY <1>2, <1>5, <1>6, <2>1, DefaultChanged
  <2> QED BY <1>4, <1>9, <2>2
<1>10. CASE t.dflt # 0
  <2> DEFINE e == t.dflt
             G == More(H, e)
  <2>1. e \in B /\ e # b
    BY <1>3, <1>10
  <2>2. G \in Holds(B) /\ \A x \in B : G[x] = H[x] + (IF x = e THEN 1 ELSE 0)
    BY <2>1, MoreFacts
  <2> HIDE DEF G
  <2>3. \A x \in B : In(u, x) + M[x] = (IF x \in Linked(u) \/ x = b THEN 1 ELSE 0) + G[x]
    BY <1>3, <1>5, <1>6, <1>7, <1>8, <2>1, <2>2 DEF In
  <2>4. TableOK(v, B, G)
    BY <1>2, <1>5, <1>6, <2>2, <2>3, DefaultChanged
  <2> HIDE DEF v
  <2>5. TableOK(RtFree(v, e), B, H)
    BY <2>1, <2>4, FreeKeeps DEF G
  <2> QED BY <1>4, <1>10, <2>5
<1> QED BY <1>9, <1>10

(* rtadd of a route the bucket does not have *)
LEMMA AddNew ==
    ASSUME NEW B, Buffers(B), NEW H \in Holds(B), NEW t, TableOK(t, B, H), NEW b \in FreeBufs(t),
           NEW r \in RouteSet, r.ref = 1, r.dst.net \in Nets,
           LET c == t.chain[r.dst.net]
               i == Place(t, r.dst)
           IN ~ (i <= Len(c) /\ t.buf[c[i]].dst = r.dst)
    PROVE  LET new == [t EXCEPT !.buf[b] = r]
           IN TableOK([new EXCEPT !.chain[r.dst.net] = InsertAt(@, Place(t, r.dst), b)], B, H)
<1> DEFINE n == r.dst.net
           c == t.chain[n]
           i == Place(t, r.dst)
           u == [t EXCEPT !.buf[b] = r]
           M == More(H, b)
<1>1. b \in B /\ b \notin Linked(t) /\ b # t.dflt
  BY FreeFacts
<1>2. /\ TableOK(u, B, M) /\ u.chain = t.chain /\ u.dflt = t.dflt /\ u.buf[b] = r
      /\ \A x \in B : x # b => u.buf[x] = t.buf[x]
  BY SMTT(30), TakeKeeps
<1>3. \A j \in 1..Len(c) : c[j] \in B /\ c[j] # b
  BY SMTT(30), FreeFacts
<1>4. /\ i \in 1..Len(c) + 1
      /\ i <= Len(c) => i \in Stops(t, c, r.dst)
      /\ \A j \in 1..Len(c) : j < i => j \notin Stops(t, c, r.dst)
  BY SMTT(30), PlaceFacts
<1>5. ~ (i <= Len(c) /\ t.buf[c[i]].dst = r.dst)
  OBVIOUS
<1> HIDE DEF u, i, M
<1>6. b \notin Linked(u)
  BY <1>1, <1>2 DEF Linked
<1>7. Stops(u, c, r.dst) = Stops(t, c, r.dst)
  BY <1>2, <1>3 DEF Stops
<1>8. i <= Len(c) => Key(r.dst) > Key(u.buf[c[i]].dst)
  <2> SUFFICES ASSUME i <= Len(c) PROVE Key(r.dst) > Key(u.buf[c[i]].dst)
    OBVIOUS
  <2>1. i \in Stops(t, c, r.dst) /\ i \in 1..Len(c)
    BY <1>4 DEF Stops
  <2>2. u.buf[c[i]].dst = t.buf[c[i]].dst
    BY <1>2, <1>3, <2>1
  <2> QED BY <1>5, <2>1, <2>2 DEF Stops
<1>9. TableOK([u EXCEPT !.chain[n] = InsertAt(u.chain[n], i, b)], B, H)
  <2>1. u.buf[b].dst = r.dst /\ u.chain[n] = c
    BY <1>2
  <2>2. TableOK(u, B, More(H, b)) /\ b \notin Linked(u) /\ b # u.dflt
    BY <1>1, <1>2, <1>6 DEF M
  <2> HIDE DEF c
  <2> QED BY <1>1, <1>4, <1>7, <1>8, <2>1, <2>2, LinkKeeps
<1> QED BY <1>9 DEF u, i

(* rtadd of a route through another router than the one to the same           *)
(* destination in the bucket                                                 *)
LEMMA AddInstead ==
    ASSUME NEW B, Buffers(B), NEW H \in Holds(B), NEW t, TableOK(t, B, H), NEW b \in FreeBufs(t),
           NEW r \in RouteSet, r.ref = 1, r.dst.net \in Nets,
           NEW i \in 1..Len(t.chain[r.dst.net]),
           t.buf[t.chain[r.dst.net][i]].dst = r.dst
    PROVE  LET new == [t EXCEPT !.buf[b] = r]
           IN TableOK([RtFree(new, t.chain[r.dst.net][i]) EXCEPT !.chain[r.dst.net][i] = b], B, H)
<1> DEFINE n == r.dst.net
           c == t.chain[n]
           at == c[i]
           u == [t EXCEPT !.buf[b] = r]
           d == [c EXCEPT ![i] = b]
           v == [u EXCEPT !.chain[n] = d]
<1>1. b \in B /\ b \notin Linked(t) /\ b # t.dflt /\ at \in B /\ at # b
  BY FreeFacts
<1>2. /\ TableOK(u, B, More(H, b)) /\ u.chain = t.chain /\ u.dflt = t.dflt /\ u.buf[b] = r
      /\ \A x \in B : x # b => u.buf[x] = t.buf[x]
  BY TakeKeeps
<1> HIDE DEF u
<1>3. u \in Tables(B)
  BY <1>2 DEF TableOK
<1>4. b \notin Linked(u)
  BY <1>1, <1>2 DEF Linked
<1>5. TableOK(v, B, More(H, at))
  <2>1. u.buf[b].dst = u.buf[u.chain[n][i]].dst /\ i \in 1..Len(u.chain[n])
    BY SMTT(30), <1>1, <1>2
  <2>2. TableOK([u EXCEPT !.chain[n] = [u.chain[n] EXCEPT ![i] = b]], B, More(H, u.chain[n][i]))
    BY <1>1, <1>2, <1>4, <2>1, SwapKeeps
  <2> QED BY <1>2, <2>2
<1>6. [RtFree(u, at) EXCEPT !.chain[n] = d] = RtFree(v, at)
  <2>1. n \in Nets /\ at \in B
    BY <1>1
  <2>2. PICK z \in Tables(B) : z = u
    BY <1>3
  <2>3. [RtFree(z, at) EXCEPT !.chain[n] = d] = RtFree([z EXCEPT !.chain[n] = d], at)
    <3> HIDE DEF at, d, n
    <3> QED BY <2>1 DEF RtFree, Tables
  <2> QED BY <2>2, <2>3
<1>7. [RtFree(u, at) EXCEPT !.chain[n][i] = b] = [RtFree(u, at) EXCEPT !.chain[n] = d]
  <2>1. RtFree(u, at).chain = t.chain
    BY <1>1, <1>2, <1>3 DEF RtFree, Tables
  <2> QED BY <2>1
<1> HIDE DEF v
<1>8. TableOK(RtFree(v, at), B, H)
  BY <1>1, <1>5, FreeKeeps
<1> QED BY <1>6, <1>7, <1>8 DEF u

(* rtadd of a route the bucket has already *)
LEMMA AddAgain ==
    ASSUME NEW B, Buffers(B), NEW H \in Holds(B), NEW t, TableOK(t, B, H), NEW at \in B,
           NEW metric \in Nat, NEW ttl \in Int
    PROVE  TableOK([t EXCEPT !.buf[at].metric = metric, !.buf[at].ttl = ttl], B, H)
<1> DEFINE r == [t.buf[at] EXCEPT !.metric = metric, !.ttl = ttl]
<1>1. t.buf[at] \in RouteSet /\ t \in Tables(B)
  BY TableFacts DEF TableOK
<1>2. r \in RouteSet /\ r.ref = t.buf[at].ref /\ r.dst = t.buf[at].dst
  BY <1>1 DEF RouteSet
<1>3. [t EXCEPT !.buf[at].metric = metric, !.buf[at].ttl = ttl] = [t EXCEPT !.buf[at] = r]
  BY <1>1 DEF Tables, RouteSet
<1> HIDE DEF r
<1> QED BY <1>2, <1>3, RouteChanged

LEMMA AddKeeps ==
    ASSUME NEW B, Buffers(B), NEW H \in Holds(B), NEW t, TableOK(t, B, H), FreeBufs(t) # {},
           NEW r \in RouteSet, r.ref = 1, NEW dorip \in BOOLEAN
    PROVE  TableOK(RtAdd(t, r, dorip).t, B, H)
<1> DEFINE b == Min(FreeBufs(t))
           new == [t EXCEPT !.buf[b] = r]
           n == r.dst.net
           c == t.chain[n]
           i == Place(t, r.dst)
           dup == i <= Len(c) /\ t.buf[c[i]].dst = r.dst
           at == c[i]
           old == t.buf[at]
           changed == dorip /\ old.metric # r.metric
           life == IF ~dorip THEN old.ttl
                   ELSE IF changed /\ r.metric = RTM_INF THEN RIPZTIME ELSE r.ttl
<1>1. t \in Tables(B)
  BY DEF TableOK
<1>2. b \in FreeBufs(t) /\ b \in B
  BY <1>1, FirstFree
<1>3. CASE r.dst = Default
  <2>1. RtAdd(t, r, dorip).t = RtAddDefault(t, r)
    BY <1>3 DEF RtAdd
  <2> QED BY <1>3, <2>1, AddDefaultKeeps
<1>4. CASE r.dst # Default
  <2>1. n \in Nets
    BY <1>4 DEF RouteSet, Destinations
  <2>2. CASE ~dup
    <3>1. RtAdd(t, r, dorip).t = [new EXCEPT !.chain[n] = InsertAt(@, i, b)]
      BY <1>4, <2>2 DEF RtAdd
    <3> HIDE DEF b
    <3>2. TableOK([new EXCEPT !.chain[n] = InsertAt(@, i, b)], B, H)
      BY <1>2, <2>1, <2>2, AddNew
    <3> QED BY <3>1, <3>2
  <2>3. CASE dup
    <3>1. i \in 1..Len(c) /\ at \in B /\ old \in RouteSet
      <4>1. i \in 1..Len(c) + 1
        BY <2>1, PlaceFacts
      <4>2. Len(c) \in Nat /\ \A j \in 1..Len(c) : c[j] \in B
        BY <2>1, TableFacts
      <4> HIDE DEF i, c
      <4>3. i \in 1..Len(c)
        BY <2>3, <4>1, <4>2
      <4> QED BY <1>1, <4>2, <4>3 DEF Tables
    <3>2. CASE old.gw = r.gw
      <4>1. RtAdd(t, r, dorip).t =
              [t EXCEPT !.buf[at].metric = r.metric,
                        !.buf[at].ttl = IF ~dorip THEN @
                                        ELSE IF changed /\ r.metric = RTM_INF THEN RIPZTIME
                                        ELSE r.ttl]
        BY <1>4, <2>3, <3>2 DEF RtAdd
      <4> HIDE DEF at, changed
      <4>2. [t EXCEPT !.buf[at].metric = r.metric,
                      !.buf[at].ttl = IF ~dorip THEN @
                                      ELSE IF changed /\ r.metric = RTM_INF THEN RIPZTIME
                                      ELSE r.ttl]
              = [t EXCEPT !.buf[at].metric = r.metric, !.buf[at].ttl = life]
        BY <1>1, <3>1 DEF Tables, RouteSet
      <4>3. r.metric \in Nat /\ life \in Int
        BY <3>1, RoutingConstants DEF RouteSet
      <4> HIDE DEF life
      <4>4. TableOK([t EXCEPT !.buf[at].metric = r.metric, !.buf[at].ttl = life], B, H)
        BY <3>1, <4>3, AddAgain
      <4> QED BY <4>1, <4>2, <4>4 DEF at, changed
    <3>3. CASE old.gw # r.gw /\ old.metric <= r.metric
      <4>1. RtAdd(t, r, dorip).t = t
        BY SMTT(30), <1>4, <2>3, <3>3 DEF RtAdd
      <4> QED BY <4>1
    <3>4. CASE old.gw # r.gw /\ ~ (old.metric <= r.metric)
      <4>1. RtAdd(t, r, dorip).t = [RtFree(new, at) EXCEPT !.chain[n][i] = b]
        BY <1>4, <2>3, <3>4 DEF RtAdd
      <4>2. t.buf[c[i]].dst = r.dst
        BY <2>3
      <4> HIDE DEF b, i
      <4>3. TableOK([RtFree(new, at) EXCEPT !.chain[n][i] = b], B, H)
        BY <1>2, <2>1, <3>1, <4>2, AddInstead
      <4> QED BY <4>1, <4>3
    <3> QED BY <3>2, <3>3, <3>4
  <2> QED BY <2>2, <2>3
<1> QED BY <1>3, <1>4

(* rtadd changes no buffer but the first free one and those of the table. *)
LEMMA AddLeaves ==
    ASSUME NEW B, Buffers(B), NEW t \in Tables(B), FreeBufs(t) # {},
           NEW r \in RouteSet, NEW dorip \in BOOLEAN, r.dst # Default => r.dst.net \in Nets,
           NEW x \in B, x # Min(FreeBufs(t)), x \notin Linked(t), x # t.dflt
    PROVE  RtAdd(t, r, dorip).t.buf[x] = t.buf[x]
<1> DEFINE b == Min(FreeBufs(t))
           new == [t EXCEPT !.buf[b] = r]
           n == r.dst.net
           c == t.chain[n]
           i == Place(t, r.dst)
           dup == i <= Len(c) /\ t.buf[c[i]].dst = r.dst
           at == c[i]
           old == t.buf[at]
<1>1. b \in B
  BY FirstFree
<1>2. x # b
  OBVIOUS
<1>3. \A y, z : y # x => /\ RtFree(t, y).buf[x] = t.buf[x]
                         /\ [t EXCEPT !.buf[y] = z].buf[x] = t.buf[x]
                         /\ RtFree([t EXCEPT !.buf[b] = r], y).buf[x] = t.buf[x]
  BY <1>2 DEF RtFree, Tables
<1>4. CASE r.dst = Default
  <2>1. RtAdd(t, r, dorip).t = RtAddDefault(t, r)
    BY <1>4 DEF RtAdd
  <2>2. RtAddDefault(t, r).buf[x] = t.buf[x]
    BY <1>2 DEF RtAddDefault, RtFree, Tables
  <2> QED BY <2>1, <2>2
<1>5. CASE r.dst # Default
  <2>2. CASE ~dup
    <3>1. RtAdd(t, r, dorip).t = [new EXCEPT !.chain[n] = InsertAt(@, i, b)]
      BY SMTT(30), <1>5, <2>2 DEF RtAdd
    <3> HIDE DEF b, i
    <3> QED BY <1>2, <3>1 DEF Tables
  <2>3. CASE dup
    <3>1. at # x
      <4>1. i \in Nat \ {0}
        <5>1. DOMAIN c = 1..Len(c) /\ Len(c) \in Nat
          BY <1>5, LenProperties DEF Tables
        <5> DEFINE T == {Len(c) + 1} \cup {j \in DOMAIN c : \/ Key(r.dst) > Key(t.buf[c[j]].dst)
                                                             \/ t.buf[c[j]].dst = r.dst}
        <5>2. i = Min(T)
          BY DEF Place
        <5> HIDE DEF c
        <5>3. T \in SUBSET Nat /\ T # {} /\ 0 \notin T
          BY <5>1
        <5> HIDE DEF T, i
        <5> QED BY <5>2, <5>3, LeastOf
      <4>2. at \in Linked(t)
        <5>1. Len(c) \in Nat /\ n \in Nets
          BY <1>5, LenProperties DEF Tables
        <5> HIDE DEF i
        <5>2. i \in 1..Len(t.chain[n]) /\ t.chain[n][i] = at
          BY <2>3, <4>1, <5>1
        <5> HIDE DEF at, n
        <5> QED BY <5>1, <5>2, InBucket
      <4> QED BY <4>2
    <3>2. CASE old.gw = r.gw
      <4> DEFINE changed == dorip /\ old.metric # r.metric
      <4>1. RtAdd(t, r, dorip).t =
              [t EXCEPT !.buf[at].metric = r.metric,
                        !.buf[at].ttl = IF ~dorip THEN @
                                        ELSE IF changed /\ r.metric = RTM_INF THEN RIPZTIME
                                        ELSE r.ttl]
        BY <1>5, <2>3, <3>2 DEF RtAdd
      <4> HIDE DEF at, changed
      <4> QED BY <3>1, <4>1 DEF Tables
    <3>3. CASE old.gw # r.gw /\ old.metric <= r.metric
      <4>1. RtAdd(t, r, dorip).t = t
        BY SMTT(30), <1>5, <2>3, <3>3 DEF RtAdd
      <4> QED BY <4>1
    <3>4. CASE old.gw # r.gw /\ ~ (old.metric <= r.metric)
      <4>1. RtAdd(t, r, dorip).t = [RtFree(new, at) EXCEPT !.chain[n][i] = b]
        BY <1>5, <2>3, <3>4 DEF RtAdd
      <4>2. RtFree(new, at).buf[x] = t.buf[x]
        BY <1>3, <3>1
      <4>3. [RtFree(new, at) EXCEPT !.chain[n][i] = b].buf = RtFree(new, at).buf
        <5> HIDE DEF b, i, at
        <5> QED BY DEF RtFree, Tables
      <4> QED BY <4>1, <4>2, <4>3
    <3> QED BY <3>2, <3>3, <3>4
  <2> QED BY <2>2, <2>3
<1> QED BY <1>4, <1>5

LEMMA DelKeeps ==
    ASSUME NEW B, Buffers(B), NEW H \in Holds(B), NEW t, TableOK(t, B, H),
           NEW dst, dst.net \in Nets
    PROVE  TableOK(RtDel(t, dst), B, H)
<1> DEFINE n == dst.net
           c == t.chain[n]
           found == {i \in DOMAIN c : t.buf[c[i]].dst = dst}
           k == Min(found)
           at == c[k]
<1>1. t \in Tables(B)
  BY DEF TableOK
<1>2. t.dflt # 0 => dst.net # t.buf[t.dflt].dst.net
  <2>1. t.dflt # 0 => t.buf[t.dflt].dst.net = 0
    BY DEF TableOK, DefaultOK, Default, AnyNet
  <2>2. dst.net # 0
    BY NetsAre
  <2> QED BY <2>1, <2>2
<1>3. CASE found = {}
  BY <1>2, <1>3 DEF RtDel
<1>4. CASE found # {}
  <2>1. RtDel(t, dst) = [RtFree(t, at) EXCEPT !.chain[n] = RemoveAt(c, k)]
    BY <1>2, <1>4 DEF RtDel
  <2>2. DOMAIN c = 1..Len(c) /\ Len(c) \in Nat /\ \A j \in 1..Len(c) : c[j] \in B
    BY TableFacts
  <2>3. found \in SUBSET Nat
    BY <2>2
  <2>4. k \in found
    <3> HIDE DEF found
    <3> QED BY <1>4, <2>3, LeastOf
  <2> HIDE DEF k
  <2>5. k \in 1..Len(t.chain[n]) /\ at \in B
    BY <2>2, <2>4
  <2> DEFINE v == [t EXCEPT !.chain[n] = RemoveAt(c, k)]
  <2>6. TableOK(v, B, More(H, at))
    BY <2>5, UnlinkKeeps
  <2>7. [RtFree(t, at) EXCEPT !.chain[n] = RemoveAt(c, k)] = RtFree(v, at)
    <3> DEFINE d == RemoveAt(c, k)
    <3> HIDE DEF at, d
    <3>1. \A m \in Nets : \A e : [RtFree(t, at) EXCEPT !.chain[m] = e] = RtFree([t EXCEPT !.chain[m] = e], at)
      BY <1>1, <2>5, FreeApart
    <3>2. [RtFree(t, at) EXCEPT !.chain[n] = d] = RtFree([t EXCEPT !.chain[n] = d], at)
      BY <3>1
    <3> QED BY <3>2 DEF d
  <2> HIDE DEF v, at
  <2>8. TableOK(RtFree(v, at), B, H)
    BY <2>5, <2>6, FreeKeeps
  <2> QED BY <2>1, <2>7, <2>8
<1> QED BY <1>3, <1>4

(* rtget finds a route of the table. *)
LEMMA FindFacts ==
    ASSUME NEW B, Buffers(B), NEW t \in Tables(B), NEW a, a.net \in Nets
    PROVE  RtFind(t, a) \in B \cup {0}
<1> DEFINE c == t.chain[a.net]
           live == {i \in DOMAIN c : /\ t.buf[c[i]].ttl > 0
                                     /\ NetMatch(a, t.buf[c[i]].dst)
                                     /\ t.buf[c[i]].metric < RTM_INF}
<1>1. c \in Seq(B) /\ t.dflt \in B \cup {0}
  BY DEF Tables
<1>2. DOMAIN c = 1..Len(c) /\ Len(c) \in Nat /\ \A j \in 1..Len(c) : c[j] \in B
  BY <1>1, LenProperties, ElementOfSeq
<1>3. live \in SUBSET Nat
  BY <1>2
<1>4. live # {} => Min(live) \in live
  <2> HIDE DEF live
  <2> QED BY <1>3, LeastOf
<1>5. live # {} => c[Min(live)] \in B
  BY <1>2, <1>4
<1>6. RtFind(t, a) = IF live # {} THEN c[Min(live)]
                     ELSE IF t.dflt # 0 /\ t.buf[t.dflt].metric < RTM_INF THEN t.dflt
                     ELSE 0
  BY DEF RtFind
<1> HIDE DEF live, c
<1> QED BY <1>1, <1>5, <1>6

(***************************************************************************)
(* rttimer: a route that goes gives up the reference the table had.        *)
(***************************************************************************)
LEMMA AgedFacts ==
    ASSUME NEW r \in RouteSet, r.ref >= 1, NEW dorip \in BOOLEAN,
           NEW s \in {Aged(r, dorip), AgedDefault(r, dorip)}
    PROVE  /\ s \in RouteSet
           /\ Goes(r, dorip) => s.ref = r.ref - 1
           /\ ~Goes(r, dorip) => s.ref = r.ref /\ s.dst = r.dst
<1>1. RIPZTIME \in Nat /\ RTM_INF \in Nat
  BY RoutingConstants
<1>2. NoRoute \in RouteSet /\ NoRoute.ref = 0
  BY DEF NoRoute, RouteSet, Destinations, Gateways
<1>3. Older(r) \in RouteSet /\ Older(r).ref = r.ref /\ Older(r).dst = r.dst
  BY DEF Older, RouteSet
<1>4. CASE ~Expired(r)
  <2>1. s = Older(r) /\ ~Goes(r, dorip)
    BY <1>4 DEF Aged, AgedDefault, Goes
  <2> QED BY <1>3, <2>1
<1>5. CASE Expired(r) /\ dorip /\ r.metric < RTM_INF
  <2>1. ~Goes(r, dorip)
    BY <1>5 DEF Goes
  <2>2. \/ s = [r EXCEPT !.metric = RTM_INF, !.ttl = RIPZTIME - 1]
        \/ s = [r EXCEPT !.metric = RTM_INF, !.ttl = RIPZTIME]
    BY <1>5 DEF Aged, AgedDefault
  <2>3. ASSUME NEW x \in Int, s = [r EXCEPT !.metric = RTM_INF, !.ttl = x]
        PROVE  s \in RouteSet /\ s.ref = r.ref /\ s.dst = r.dst
    BY <1>1, <2>3 DEF RouteSet
  <2>4. RIPZTIME - 1 \in Int /\ RIPZTIME \in Int
    BY <1>1
  <2> QED BY <2>1, <2>2, <2>3, <2>4
<1>6. CASE Expired(r) /\ ~ (dorip /\ r.metric < RTM_INF)
  <2>1. Goes(r, dorip)
    BY <1>6 DEF Goes
  <2>2. s = IF r.ref > 1 THEN [Older(r) EXCEPT !.ref = @ - 1] ELSE NoRoute
    BY <1>6 DEF Aged, AgedDefault
  <2>3. r.ref \in Nat
    BY DEF RouteSet
  <2>4. CASE r.ref > 1
    <3> DEFINE o == Older(r)
               x == r.ref - 1
    <3>1. o \in RouteSet /\ x \in Nat /\ o.ref = r.ref
      BY <1>3, <2>3, <2>4
    <3>2. s = [o EXCEPT !.ref = o.ref - 1]
      BY <2>2, <2>4, <3>1 DEF RouteSet
    <3>3. s = [o EXCEPT !.ref = x]
      BY <3>1, <3>2
    <3> HIDE DEF o, x
    <3>4. s \in RouteSet /\ s.ref = x
      BY <3>1, <3>3, RefChanged
    <3> QED BY <2>1, <3>4 DEF x
  <2>5. CASE ~ (r.ref > 1)
    <3>1. s = NoRoute
      BY <2>2, <2>5
    <3>2. r.ref - 1 = 0
      BY <2>3, <2>5
    <3> QED BY <1>2, <2>1, <3>1, <3>2
  <2> QED BY <2>4, <2>5
<1> QED BY <1>4, <1>5, <1>6

LEMMA TimerKeeps ==
    ASSUME NEW B, Buffers(B), NEW H \in Holds(B), NEW t, TableOK(t, B, H), NEW dorip \in BOOLEAN
    PROVE  TableOK(RtTimer(t, dorip).t, B, H)
<1> DEFINE u == RtTimer(t, dorip).t
           gone == {b \in Linked(t) : Goes(t.buf[b], dorip)}
           quits == t.dflt # 0 /\ Goes(t.buf[t.dflt], dorip)
<1>1. t \in Tables(B)
  BY DEF TableOK
<1>2. /\ u.buf = [b \in B |-> IF b \in Linked(t) THEN Aged(t.buf[b], dorip)
                              ELSE IF b = t.dflt THEN AgedDefault(t.buf[b], dorip)
                              ELSE t.buf[b]]
      /\ u.chain = [n \in Nets |-> Without(t.chain[n], gone)]
      /\ u.dflt = IF quits THEN 0 ELSE t.dflt
      /\ u = [buf |-> u.buf, chain |-> u.chain, dflt |-> u.dflt]
  BY <1>1 DEF RtTimer, Tables
<1> HIDE DEF u, gone, quits
<1>3. ASSUME NEW b \in B
      PROVE  /\ u.buf[b] \in RouteSet
             /\ b \in gone \/ (b = t.dflt /\ quits) => u.buf[b].ref = t.buf[b].ref - 1
             /\ ~ (b \in gone \/ (b = t.dflt /\ quits)) =>
                   u.buf[b].ref = t.buf[b].ref /\ u.buf[b].dst = t.buf[b].dst
  <2>1. /\ t.buf[b] \in RouteSet /\ H[b] \in Nat /\ t.buf[b].ref = In(t, b) + H[b]
        /\ b # 0 /\ (b \in Linked(t) => b # t.dflt)
    BY TableFacts
  <2>2. CASE b \in Linked(t)
    <3>1. t.buf[b].ref >= 1
      BY <2>1, <2>2 DEF In
    <3>2. u.buf[b] = Aged(t.buf[b], dorip)
      BY <1>2, <2>2
    <3>3. (b \in gone \/ (b = t.dflt /\ quits)) <=> Goes(t.buf[b], dorip)
      BY <2>1, <2>2 DEF gone
    <3> QED BY <2>1, <3>1, <3>2, <3>3, AgedFacts
  <2>3. CASE b \notin Linked(t) /\ b = t.dflt
    <3>1. t.buf[b].ref >= 1
      BY <2>1, <2>3 DEF In
    <3>2. u.buf[b] = AgedDefault(t.buf[b], dorip)
      BY <1>2, <2>3
    <3>3. (b \in gone \/ (b = t.dflt /\ quits)) <=> Goes(t.buf[b], dorip)
      BY <2>1, <2>3 DEF gone, quits
    <3> QED BY <2>1, <3>1, <3>2, <3>3, AgedFacts
  <2>4. CASE b \notin Linked(t) /\ b # t.dflt
    <3>1. u.buf[b] = t.buf[b]
      BY <1>2, <2>4
    <3>2. ~ (b \in gone \/ (b = t.dflt /\ quits))
      BY <2>4 DEF gone
    <3> QED BY <2>1, <3>1, <3>2
  <2> QED BY <2>2, <2>3, <2>4
<1>4. ASSUME NEW n \in Nets
      PROVE  /\ u.chain[n] \in Seq(B)
             /\ \E w : Thinned(t.chain[n], Len(t.chain[n]), gone, u.chain[n], w)
  <2>1. t.chain[n] \in Seq(B) /\ u.chain[n] = Without(t.chain[n], gone)
    BY <1>1, <1>2 DEF Tables
  <2> QED BY <2>1, WithoutThins
<1>5. u \in Tables(B)
  <2>1. u.buf \in [B -> RouteSet]
    BY <1>2, <1>3
  <2>2. u.chain \in [Nets -> Seq(B)]
    BY <1>2, <1>4
  <2>3. u.dflt \in B \cup {0}
    BY <1>1, <1>2 DEF Tables
  <2> QED BY <1>2, <2>1, <2>2, <2>3 DEF Tables
<1>6. \A b \in B : b \in Linked(u) <=> b \in Linked(t) /\ b \notin gone
  <2> SUFFICES ASSUME NEW b \in B PROVE b \in Linked(u) <=> b \in Linked(t) /\ b \notin gone
    OBVIOUS
  <2>1. b \in Linked(u) <=> \E n \in Nets : \E i \in 1..Len(u.chain[n]) : u.chain[n][i] = b
    BY <1>5, InBucket
  <2>2. b \in Linked(t) <=> \E n \in Nets : \E i \in 1..Len(t.chain[n]) : t.chain[n][i] = b
    BY <1>1, InBucket
  <2>3. ASSUME NEW n \in Nets
        PROVE  (\E i \in 1..Len(u.chain[n]) : u.chain[n][i] = b)
                 <=> b \notin gone /\ \E i \in 1..Len(t.chain[n]) : t.chain[n][i] = b
    <3>1. PICK w : Thinned(t.chain[n], Len(t.chain[n]), gone, u.chain[n], w)
      BY <1>4
    <3> DEFINE c == t.chain[n]
               d == u.chain[n]
    <3>2. /\ \A i \in 1..Len(d) : w[i] \in 1..Len(c) /\ d[i] = c[w[i]] /\ d[i] \notin gone
          /\ \A i \in 1..Len(c) : c[i] \notin gone => \E j \in 1..Len(d) : w[j] = i
      BY <3>1 DEF Thinned
    <3> HIDE DEF c, d
    <3>3. (\E i \in 1..Len(d) : d[i] = b) <=> b \notin gone /\ \E i \in 1..Len(c) : c[i] = b
      <4>1. ASSUME NEW i \in 1..Len(d), d[i] = b
            PROVE  b \notin gone /\ \E j \in 1..Len(c) : c[j] = b
        BY <3>2, <4>1
      <4>2. ASSUME b \notin gone, NEW i \in 1..Len(c), c[i] = b
            PROVE  \E j \in 1..Len(d) : d[j] = b
        BY <3>2, <4>2
      <4> QED BY <4>1, <4>2
    <3> QED BY <3>3 DEF c, d
  <2> QED BY <2>1, <2>2, <2>3
<1>7. Counted(u, B, H)
  <2> SUFFICES ASSUME NEW b \in B PROVE u.buf[b].ref = In(u, b) + H[b]
    BY DEF Counted
  <2>1. /\ H[b] \in Nat /\ t.buf[b].ref = In(t, b) + H[b] /\ b # 0
        /\ (b \in Linked(t) => b # t.dflt)
    BY TableFacts
  <2>2. CASE b \in gone \/ (b = t.dflt /\ quits)
    <3>1. In(t, b) = 1 /\ In(u, b) = 0
      BY <1>2, <1>6, <2>1, <2>2 DEF In, gone
    <3> QED BY <1>3, <2>1, <2>2, <3>1
  <2>3. CASE ~ (b \in gone \/ (b = t.dflt /\ quits))
    <3>1. In(u, b) = In(t, b)
      BY <1>2, <1>6, <2>1, <2>3 DEF In
    <3> QED BY <1>3, <2>1, <2>3, <3>1
  <2> QED BY <2>2, <2>3
<1>8. DefaultOK(u)
  BY <1>1, <1>2, <1>3, TableFacts DEF DefaultOK, TableOK, gone
<1>9. ASSUME NEW n \in Nets
      PROVE  /\ \A i \in 1..Len(u.chain[n]) : u.buf[u.chain[n][i]].dst.net = n
             /\ Sorted(u, u.chain[n])
  <2> DEFINE c == t.chain[n]
             d == u.chain[n]
  <2>1. PICK w : Thinned(c, Len(c), gone, d, w)
    BY <1>4
  <2>2. /\ \A i \in 1..Len(c) : c[i] \in B /\ c[i] \in Linked(t) /\ t.buf[c[i]].dst.net = n
                                /\ c[i] # t.dflt
        /\ Len(c) \in Nat
    BY TableFacts
  <2>3. \A i, j \in 1..Len(c) : i < j =>
                 /\ c[i] # c[j] /\ t.buf[c[i]].dst # t.buf[c[j]].dst
                 /\ Key(t.buf[c[i]].dst) >= Key(t.buf[c[j]].dst)
    BY SortedFacts
  <2>4. DOMAIN d = 1..Len(d) /\ Len(d) \in Nat
    BY <1>4, LenProperties
  <2> HIDE DEF c, d
  <2>5. /\ \A i \in 1..Len(d) : w[i] \in 1..Len(c) /\ d[i] = c[w[i]] /\ d[i] \notin gone
        /\ \A i, j \in 1..Len(d) : i < j => w[i] < w[j]
    BY <2>1 DEF Thinned
  <2>6. \A i \in 1..Len(d) : u.buf[d[i]].dst = t.buf[d[i]].dst
    BY <1>3, <2>2, <2>5
  <2>7. \A i \in 1..Len(d) : u.buf[d[i]].dst.net = n
    BY <2>2, <2>5, <2>6
  <2>8. Sorted(u, d)
    <3> SUFFICES ASSUME NEW i \in 1..Len(d), NEW j \in 1..Len(d), i < j
                 PROVE  /\ d[i] # d[j] /\ u.buf[d[i]].dst # u.buf[d[j]].dst
                        /\ Key(u.buf[d[i]].dst) >= Key(u.buf[d[j]].dst)
      BY <2>4 DEF Sorted
    <3>1. w[i] \in 1..Len(c) /\ w[j] \in 1..Len(c) /\ w[i] < w[j]
      BY <2>5
    <3>2. /\ c[w[i]] # c[w[j]] /\ t.buf[c[w[i]]].dst # t.buf[c[w[j]]].dst
          /\ Key(t.buf[c[w[i]]].dst) >= Key(t.buf[c[w[j]]].dst)
      BY <2>3, <3>1
    <3>3. /\ d[i] = c[w[i]] /\ d[j] = c[w[j]]
          /\ u.buf[d[i]].dst = t.buf[d[i]].dst /\ u.buf[d[j]].dst = t.buf[d[j]].dst
      BY <2>5, <2>6
    <3> QED BY <3>2, <3>3
  <2> QED BY <2>7, <2>8 DEF d
<1>10. TableOK(u, B, H)
  BY <1>5, <1>7, <1>8, <1>9 DEF TableOK, Placed
<1> QED BY <1>10 DEF u

-----------------------------------------------------------------------------
(* Advertised routes *)

Flat(s, k, f) == f = [i \in 1..k |-> IF i = 1 THEN s[i] ELSE f[i - 1] \o s[i]]

(* What FlattenSeq makes of sequences over S is one. *)
LEMMA FlattenIn ==
    ASSUME NEW S, NEW s \in Seq(Seq(S))
    PROVE  FlattenSeq(s) \in Seq(S)
<1>1. Len(s) \in Nat /\ \A i \in 1..Len(s) : s[i] \in Seq(S)
  BY LenProperties, ElementOfSeq
<1>2. CASE Len(s) = 0
  <2>1. s = <<>>
    BY <1>2, EmptySeq
  <2> QED BY <1>2, <2>1, EmptySeq DEF FlattenSeq
<1>3. CASE Len(s) # 0
  <2> DEFINE T == {k \in Nat : \E f : Flat(s, k, f)}
  <2>1. 0 \in T
    <3>1. Flat(s, 0, [i \in 1..0 |-> <<>>])
      BY DEF Flat
    <3> QED BY <3>1
  <2>2. ASSUME NEW k \in Nat, k \in T PROVE k + 1 \in T
    <3>1. PICK f : Flat(s, k, f)
      BY <2>2
    <3> DEFINE g == [i \in 1..k + 1 |-> IF i <= k THEN f[i]
                                        ELSE IF i = 1 THEN s[i] ELSE f[i - 1] \o s[i]]
    <3>2. \A i \in 1..k + 1 : g[i] = IF i = 1 THEN s[i] ELSE g[i - 1] \o s[i]
      <4> SUFFICES ASSUME NEW i \in 1..k + 1
                   PROVE  g[i] = IF i = 1 THEN s[i] ELSE g[i - 1] \o s[i]
        OBVIOUS
      <4>1. i # 1 => g[i - 1] = f[i - 1]
        OBVIOUS
      <4>2. CASE i = k + 1
        BY <4>1, <4>2
      <4>3. CASE i \in 1..k
        <5>1. f[i] = IF i = 1 THEN s[i] ELSE f[i - 1] \o s[i]
          BY <3>1, <4>3 DEF Flat
        <5> QED BY <4>1, <4>3, <5>1
      <4> QED BY <4>2, <4>3
    <3>3. Flat(s, k + 1, g)
      BY <3>2 DEF Flat
    <3> HIDE DEF g
    <3>4. \E h : Flat(s, k + 1, h)
      BY <3>3
    <3> QED BY <3>4
  <2> HIDE DEF T
  <2>3. Len(s) \in T
    BY <1>1, <2>1, <2>2, EveryNumber
  <2>4. \E f : Flat(s, Len(s), f)
    BY <2>3 DEF T
  <2> DEFINE f == CHOOSE f : Flat(s, Len(s), f)
  <2>5. Flat(s, Len(s), f)
    BY <2>4
  <2>6. FlattenSeq(s) = f[Len(s)]
    BY <1>3 DEF FlattenSeq, Flat
  <2> HIDE DEF f
  <2> DEFINE R == {k \in Nat : k + 1 <= Len(s) => f[k + 1] \in Seq(S)}
  <2>7. \A i \in 1..Len(s) : f[i] = IF i = 1 THEN s[i] ELSE f[i - 1] \o s[i]
    BY <2>5 DEF Flat
  <2>8. 0 \in R
    BY <1>1, <2>7
  <2>9. ASSUME NEW k \in Nat, k \in R PROVE k + 1 \in R
    <3> SUFFICES ASSUME (k + 1) + 1 <= Len(s) PROVE f[(k + 1) + 1] \in Seq(S)
      OBVIOUS
    <3>1. (k + 1) + 1 \in 1..Len(s) /\ k + 1 \in 1..Len(s) /\ (k + 1) + 1 # 1
          /\ ((k + 1) + 1) - 1 = k + 1
      BY <1>1
    <3>2. f[k + 1] \in Seq(S) /\ s[(k + 1) + 1] \in Seq(S)
      BY <1>1, <2>9, <3>1
    <3>3. f[(k + 1) + 1] = f[k + 1] \o s[(k + 1) + 1]
      BY <2>7, <3>1
    <3> QED BY <3>2, <3>3, ConcatProperties
  <2> HIDE DEF R
  <2>10. Len(s) - 1 \in R
    <3>1. \A k \in Nat : k \in R
      BY <2>8, <2>9, EveryNumber
    <3>2. Len(s) - 1 \in Nat
      BY <1>1, <1>3
    <3> QED BY <3>1, <3>2
  <2>11. (Len(s) - 1) + 1 <= Len(s) => f[(Len(s) - 1) + 1] \in Seq(S)
    BY <2>10 DEF R
  <2>12. (Len(s) - 1) + 1 = Len(s)
    BY <1>1
  <2> QED BY <1>1, <2>6, <2>11, <2>12
<1> QED BY <1>2, <1>3

LEMMA AdvertisedIn ==
    ASSUME NEW B, 0 \notin B, NEW t \in Tables(B)
    PROVE  Advertised(t) \in Seq(B)
<1> DEFINE N == Cardinality(Nets)
           s == [n \in 1..N |-> t.chain[n]]
           e == IF t.dflt = 0 THEN <<>> ELSE <<t.dflt>>
<1>1. N \in Nat /\ Nets = 1..N
  BY FS_CardinalityType, RoutingConstants
<1>2. s \in Seq(Seq(B))
  <2>1. \A n \in 1..N : t.chain[n] \in Seq(B)
    BY <1>1 DEF Tables
  <2>2. s \in [1..N -> Seq(B)]
    BY <2>1
  <2> HIDE DEF s
  <2> QED BY <1>1, <2>2, SeqDef
<1>3. e \in Seq(B)
  BY DEF Tables
<1>4. Advertised(t) = FlattenSeq(s) \o e
  BY DEF Advertised
<1> HIDE DEF s, e
<1>5. FlattenSeq(s) \in Seq(B)
  BY <1>2, FlattenIn
<1> QED BY <1>3, <1>4, <1>5, ConcatProperties

-----------------------------------------------------------------------------
(* The machines *)

Buf == 1..load.bufs
(* How many processes hold each buffer: the rip process x, the IP process y. *)
HoldOf(B, x, y) == [b \in B |-> (IF x = b THEN 1 ELSE 0) + (IF y = b THEN 1 ELSE 0)]
Hold(m) == HoldOf(Buf, rip[m].held, ip[m].held)

Entry == [dst : Destinations, metric : Nat]
Message == [cmd : {"response"}, gw : Machines \cup Peers, entries : Seq(Entry)]
Address == [net : Nets, host : Hosts]
Data == [kind : {"data"}, src : Machines, dst : Address, ttl : Int, ifn : Nat]
Redir == [kind : {"net", "host"}, from : Machines, dst : Address, gw : Gateways]

(* A route that only the table holds *)
One == {r \in RouteSet : r.ref = 1}

(* The rip process holds the route to the sender, and then has entries to add. *)
RipStates ==
    {RipIdle}
    \cup [pc : {"route"}, held : Buf, gw : Machines \cup Peers, ifn : Nat, todo : Seq(Entry)]
    \cup [pc : {"add"}, held : {0}, gw : Machines \cup Peers, ifn : Nat,
          todo : Seq(Entry) \ {<<>>}]
(* The IP process holds the route of a datagram, or of a redirect on its way   *)
(* into the table.                                                              *)
IpStates ==
    {IpIdle}
    \cup [pc : {"route"}, held : Buf, pkt : {<<p>> : p \in Data}, new : {<<>>}]
    \cup [pc : {"delete", "free"}, held : Buf, pkt : {<<p>> : p \in Redir}, new : {<<>>}]
    \cup [pc : {"add"}, held : Buf, pkt : {<<p>> : p \in Redir}, new : {<<r>> : r \in One}]

(* A router sends on the networks it is on. *)
Reaches(gw, m) ==
    \/ gw \in Peers
    \/ gw \in Machines /\ \E i \in DOMAIN Attach(m) : Attach(m)[i] \in Range(Attach(gw))

RipTyped == /\ rip \in [Machines -> RipStates]
            /\ inbox \in [Machines -> Seq(Message)]
            /\ \A m \in DOMAIN load.attach : \A i \in 1..Len(inbox[m]) : Reaches(inbox[m][i].gw, m)
IpTyped == /\ ip \in [Machines -> IpStates]
           /\ wire \in [Machines -> Seq(Data \cup Redir)]
TablesOK == /\ rt \in [Machines -> Tables(Buf)]
            /\ \A m \in Machines : TableOK(rt[m], Buf, Hold(m))

IInv == /\ load \in Loads /\ up \subseteq DOMAIN load.attach
        /\ RipTyped /\ IpTyped /\ TablesOK

LEMMA BufIs ==
    ASSUME load \in Loads
    PROVE  Buffers(Buf) /\ load.bufs \in Nat /\ 0 \notin Buf
<1>1. load.bufs \in Nat
  BY LoadsAssumption
<1> QED BY <1>1 DEF Buffers, Buf

LEMMA AttachIs ==
    ASSUME load \in Loads, NEW m \in DOMAIN load.attach
    PROVE  /\ m \in Machines /\ Attach(m) \in Seq(Nets) /\ Len(Attach(m)) \in Nat \ {0}
           /\ DOMAIN Attach(m) = 1..Len(Attach(m))
           /\ \A i \in 1..Len(Attach(m)) : Attach(m)[i] \in Nets
<1>1. m \in Machines /\ Attach(m) \in Seq(Nets) /\ Attach(m) # <<>>
  BY LoadsAssumption DEF Attach
<1> QED BY <1>1, LenProperties, ElementOfSeq, EmptySeq

-----------------------------------------------------------------------------
(* The first table: there is a buffer for each of its routes. *)

Zero(B) == [b \in B |-> 0]
LEMMA EmptyOK ==
    ASSUME load \in Loads
    PROVE  TableOK(EmptyTable, Buf, Zero(Buf)) /\ \A b \in Buf : EmptyTable.buf[b].ref = 0
<1>1. NoRoute \in RouteSet /\ NoRoute.ref = 0
  BY DEF NoRoute, RouteSet, Destinations, Gateways
<1>2. /\ EmptyTable \in Tables(Buf) /\ EmptyTable.dflt = 0
      /\ \A n \in Nets : EmptyTable.chain[n] = <<>>
      /\ \A b \in Buf : EmptyTable.buf[b] = NoRoute
  BY <1>1 DEF EmptyTable, Tables, Buf
<1>3. \A b \in Buf : b \notin Linked(EmptyTable) /\ b # 0
  BY <1>2, InBucket, BufIs
<1>4. Counted(EmptyTable, Buf, Zero(Buf))
  BY <1>1, <1>2, <1>3 DEF Counted, In, Zero
<1>5. Placed(EmptyTable) /\ DefaultOK(EmptyTable)
  BY <1>2 DEF Placed, DefaultOK
<1>6. \A n \in Nets : Sorted(EmptyTable, EmptyTable.chain[n])
  BY <1>2 DEF Sorted
<1> QED BY <1>1, <1>2, <1>4, <1>5, <1>6 DEF TableOK

LEMMA FirstRoutesAre ==
    ASSUME load \in Loads, NEW m \in DOMAIN load.attach
    PROVE  FirstRoutes(m) \in Seq(One) /\ Len(FirstRoutes(m)) <= load.bufs
<1> DEFINE a == [i \in DOMAIN Attach(m) |-> Route(NetOf(Attach(m)[i]), m, 0, i, RT_INF)]
           s == load.static[m]
           St == [dst : Destinations, gw : Gateways, metric : Nat, ifn : Nat, ttl : Nat, ref : {1}]
<1>1. /\ m \in Machines /\ Len(Attach(m)) \in Nat /\ DOMAIN Attach(m) = 1..Len(Attach(m))
      /\ \A i \in 1..Len(Attach(m)) : Attach(m)[i] \in Nets
  BY AttachIs
<1>2. \A i \in 1..Len(Attach(m)) : Route(NetOf(Attach(m)[i]), m, 0, i, RT_INF) \in One
  <2> SUFFICES ASSUME NEW i \in 1..Len(Attach(m))
               PROVE  Route(NetOf(Attach(m)[i]), m, 0, i, RT_INF) \in One
    OBVIOUS
  <2>1. NetOf(Attach(m)[i]) \in Destinations /\ m \in Gateways /\ 0 \in Nat /\ i \in Nat /\ RT_INF \in Int
    BY <1>1, RoutingConstants DEF NetOf, Destinations, Hosts, Gateways
  <2> QED BY <2>1, RouteMade DEF One
<1>3. a \in Seq(One) /\ Len(a) = Len(Attach(m))
  <2>1. a \in [1..Len(Attach(m)) -> One]
    BY <1>1, <1>2
  <2> HIDE DEF a
  <2>2. a \in Seq(One)
    BY <1>1, <2>1, SeqDef
  <2> QED BY <1>1, <2>1, <2>2, LenProperties
<1>4. s \in Seq(St) /\ Len(Attach(m)) + Len(s) <= load.bufs
  BY LoadsAssumption DEF Attach
<1>5. St \subseteq One
  BY DEF One, RouteSet
<1> HIDE DEF St
<1>6. s \in Seq(One) /\ Len(s) \in Nat
  <2>1. Len(s) \in Nat /\ s \in [1..Len(s) -> St]
    BY <1>4, LenProperties
  <2>2. s \in [1..Len(s) -> One]
    BY <1>5, <2>1
  <2> QED BY <2>1, <2>2, SeqDef
<1>7. FirstRoutes(m) = a \o s
  BY DEF FirstRoutes
<1> HIDE DEF a, s
<1>8. a \o s \in Seq(One) /\ Len(a \o s) = Len(a) + Len(s)
  BY <1>3, <1>6, ConcatProperties
<1> QED BY <1>3, <1>4, <1>7, <1>8

AddFirst(m, t, i) == RtAdd(t, FirstRoutes(m)[i], FALSE).t
First(m, k, t) ==
    t = [i \in 0..k |-> IF i = 0 THEN EmptyTable ELSE AddFirst(m, t[i - 1], i)]

LEMMA FirstTableIs ==
    ASSUME load \in Loads, NEW m \in DOMAIN load.attach
    PROVE  \E t : First(m, Len(FirstRoutes(m)), t) /\ FirstTable(m) = t[Len(FirstRoutes(m))]
<1> DEFINE N == Len(FirstRoutes(m))
           T == {k \in Nat : \E t : First(m, k, t)}
<1>1. 0 \in T
  <2>1. First(m, 0, [i \in 0..0 |-> EmptyTable])
    BY DEF First
  <2> QED BY <2>1
<1>2. ASSUME NEW k \in Nat, k \in T PROVE k + 1 \in T
  <2>1. PICK t : First(m, k, t)
    BY <1>2
  <2> DEFINE u == [i \in 0..k + 1 |-> IF i <= k THEN t[i] ELSE AddFirst(m, t[k], k + 1)]
  <2>2. \A i \in 0..k + 1 :
           u[i] = IF i = 0 THEN EmptyTable ELSE AddFirst(m, u[i - 1], i)
    <3> SUFFICES ASSUME NEW i \in 0..k + 1
                 PROVE  u[i] = IF i = 0 THEN EmptyTable ELSE AddFirst(m, u[i - 1], i)
      OBVIOUS
    <3>1. CASE i = k + 1
      <4>1. u[k] = t[k] /\ i # 0 /\ i - 1 = k /\ u[i] = AddFirst(m, t[k], k + 1)
        BY <3>1
      <4> QED BY <3>1, <4>1
    <3>2. CASE i \in 0..k
      <4>1. t[i] = IF i = 0 THEN EmptyTable ELSE AddFirst(m, t[i - 1], i)
        BY <2>1, <3>2 DEF First
      <4>2. (i # 0 => u[i - 1] = t[i - 1]) /\ u[i] = t[i]
        BY <3>2
      <4> QED BY <4>1, <4>2
    <3> QED BY <3>1, <3>2
  <2>3. First(m, k + 1, u)
    BY <2>2 DEF First
  <2> HIDE DEF u
  <2>4. \E f : First(m, k + 1, f)
    BY <2>3
  <2> QED BY <2>4
<1> HIDE DEF T
<1>3. N \in T
  <2>1. N \in Nat
    BY FirstRoutesAre, LenProperties
  <2> QED BY <1>1, <1>2, <2>1, EveryNumber
<1>4. \E t : First(m, N, t)
  BY <1>3 DEF T
<1> DEFINE t == CHOOSE t : First(m, N, t)
<1>5. First(m, N, t)
  BY <1>4
<1>6. FirstTable(m) = t[N]
  BY DEF FirstTable, First, AddFirst
<1> QED BY <1>5, <1>6

LEMMA FirstOK ==
    ASSUME load \in Loads, NEW m \in DOMAIN load.attach
    PROVE  TableOK(FirstTable(m), Buf, Zero(Buf))
<1> DEFINE N == Len(FirstRoutes(m))
           H == Zero(Buf)
<1>1. PICK t : First(m, N, t) /\ FirstTable(m) = t[N]
  BY FirstTableIs
<1>2. /\ N \in Nat /\ N <= load.bufs /\ load.bufs \in Nat /\ Buffers(Buf)
      /\ \A i \in 1..N : FirstRoutes(m)[i] \in One
  BY FirstRoutesAre, BufIs, LenProperties, ElementOfSeq
<1>3. H \in Holds(Buf)
  BY DEF Zero, Holds
<1>4. /\ t[0] = EmptyTable
      /\ \A i \in 1..N : t[i] = AddFirst(m, t[i - 1], i)
  <2>1. \A i \in 0..N : t[i] = IF i = 0 THEN EmptyTable ELSE AddFirst(m, t[i - 1], i)
    BY <1>1 DEF First
  <2> HIDE DEF N
  <2> QED BY <1>2, <2>1
<1> HIDE DEF N, H
<1> DEFINE T == {k \in Nat : k <= N => /\ TableOK(t[k], Buf, H)
                                       /\ \A b \in Buf : b > k => t[k].buf[b].ref = 0}
<1>5. 0 \in T
  BY <1>4, EmptyOK DEF H
<1>6. ASSUME NEW k \in Nat, k \in T PROVE k + 1 \in T
  <2> DEFINE u == t[k]
             r == FirstRoutes(m)[k + 1]
  <2> SUFFICES ASSUME k + 1 <= N
               PROVE  /\ TableOK(t[k + 1], Buf, H)
                      /\ \A b \in Buf : b > k + 1 => t[k + 1].buf[b].ref = 0
    OBVIOUS
  <2>1. TableOK(u, Buf, H) /\ \A b \in Buf : b > k => u.buf[b].ref = 0
    BY <1>2, <1>6
  <2>2. r \in RouteSet /\ r.ref = 1 /\ t[k + 1] = RtAdd(u, r, FALSE).t
    <3>1. k + 1 \in 1..N /\ (k + 1) - 1 = k
      BY <1>2
    <3>2. t[k + 1] = AddFirst(m, t[k], k + 1)
      BY <1>4, <3>1
    <3> QED BY <1>2, <3>1, <3>2 DEF One, AddFirst
  <2> HIDE DEF u, r
  <2>3. u \in Tables(Buf) /\ DOMAIN u.buf = Buf
    BY <2>1 DEF TableOK, Tables
  <2>4. k + 1 \in Buf /\ k + 1 \in FreeBufs(u)
    <3>1. k + 1 \in Buf
      BY <1>2 DEF Buf
    <3> QED BY <2>1, <2>3, <3>1 DEF FreeBufs
  <2>5. TableOK(t[k + 1], Buf, H)
    BY <1>2, <1>3, <2>1, <2>2, <2>4, AddKeeps
  <2>6. ASSUME NEW b \in Buf, b > k + 1 PROVE t[k + 1].buf[b].ref = 0
    <3>1. b \in FreeBufs(u) /\ u.buf[b].ref = 0 /\ b \in Nat
      BY <2>1, <2>3, <2>6 DEF FreeBufs, Buf
    <3>2. Min(FreeBufs(u)) \in Nat /\ Min(FreeBufs(u)) <= k + 1
      BY <1>2, <2>3, <2>4, FirstFree DEF Buf
    <3>3. b # Min(FreeBufs(u))
      BY <2>6, <3>1, <3>2
    <3>4. b \notin Linked(u) /\ b # u.dflt
      BY <1>2, <1>3, <2>1, <3>1, FreeFacts
    <3>5. r.dst # Default => r.dst.net \in Nets
      BY <2>2 DEF RouteSet, Destinations
    <3>6. RtAdd(u, r, FALSE).t.buf[b] = u.buf[b]
      BY <1>2, <2>2, <2>3, <2>4, <3>3, <3>4, <3>5, AddLeaves
    <3> QED BY <2>2, <3>1, <3>6
  <2> QED BY <2>5, <2>6
<1> HIDE DEF T
<1>7. N \in T
  BY <1>2, <1>5, <1>6, EveryNumber
<1> QED BY <1>1, <1>2, <1>7 DEF T, H

-----------------------------------------------------------------------------
(* Updates *)

LEMMA UpdateIs ==
    ASSUME IInv, NEW m \in DOMAIN load.attach, NEW i \in Nat
    PROVE  Update(m, i) \in Message /\ Update(m, i).gw = m
<1> DEFINE t == rt[m]
           a == Advertised(t)
           es == [k \in DOMAIN a |-> [dst    |-> Sent(t.buf[a[k]].dst, Attach(m)[i]),
                                      metric |-> RipMetric(t.buf[a[k]], i)]]
<1>1. m \in Machines /\ t \in Tables(Buf) /\ 0 \notin Buf
  BY AttachIs, BufIs DEF IInv, TablesOK
<1>2. a \in Seq(Buf)
  BY <1>1, AdvertisedIn
<1>3. Len(a) \in Nat /\ DOMAIN a = 1..Len(a) /\ \A k \in 1..Len(a) : a[k] \in Buf
  BY <1>2, LenProperties, ElementOfSeq
<1>4. Update(m, i) = [cmd |-> "response", gw |-> m, entries |-> es]
  BY DEF Update
<1>5. ASSUME NEW r \in RouteSet
      PROVE  Sent(r.dst, Attach(m)[i]) \in Destinations /\ RipMetric(r, i) \in Nat
  <2>1. r.dst \in Destinations /\ r.metric \in Nat
    BY DEF RouteSet
  <2>2. Sent(r.dst, Attach(m)[i]) \in Destinations
    <3> DEFINE x == r.dst
               n == Attach(m)[i]
    <3>1. x \in Destinations
      BY <2>1
    <3> HIDE DEF x, n
    <3>2. Sent(x, n) \in Destinations
      BY <3>1 DEF Sent, Destinations, Default, Hosts
    <3> QED BY <3>2 DEF x, n
  <2>3. RipMetric(r, i) \in Nat
    BY <2>1, RoutingConstants DEF RipMetric
  <2> QED BY <2>2, <2>3
<1> HIDE DEF a
<1>6. \A k \in 1..Len(a) : [dst |-> Sent(t.buf[a[k]].dst, Attach(m)[i]), metric |-> RipMetric(t.buf[a[k]], i)] \in Entry
  <2> SUFFICES ASSUME NEW k \in 1..Len(a)
               PROVE  [dst |-> Sent(t.buf[a[k]].dst, Attach(m)[i]), metric |-> RipMetric(t.buf[a[k]], i)] \in Entry
    OBVIOUS
  <2>1. t.buf[a[k]] \in RouteSet
    BY <1>1, <1>3 DEF Tables
  <2> QED BY <1>5, <2>1 DEF Entry
<1>7. es \in [1..Len(a) -> Entry]
  BY <1>3, <1>6
<1> HIDE DEF es
<1>8. es \in Seq(Entry)
  BY <1>3, <1>7, SeqDef
<1> QED BY <1>1, <1>4, <1>8 DEF Message

(* A queue of updates from routers that reach machine k. *)
Queue(k, q) == /\ q \in Seq(Message)
               /\ k \in DOMAIN load.attach => \A j \in 1..Len(q) : Reaches(q[j].gw, k)

LEMMA QueuedKeeps ==
    ASSUME NEW k, NEW q, Queue(k, q), NEW msg \in Message,
           k \in DOMAIN load.attach => Reaches(msg.gw, k)
    PROVE  Queue(k, Queued(q, msg))
<1>1. q \in Seq(Message) /\ Len(q) \in Nat
  BY LenProperties DEF Queue
<1>2. CASE Queued(q, msg) = q
  BY <1>2
<1>3. CASE Queued(q, msg) = Append(q, msg)
  <2> DEFINE p == Append(q, msg)
  <2>1. /\ p \in Seq(Message) /\ Len(p) = Len(q) + 1
        /\ \A j \in 1..Len(q) : p[j] = q[j]
        /\ p[Len(q) + 1] = msg
    BY <1>1, AppendProperties
  <2> HIDE DEF p
  <2>2. ASSUME k \in DOMAIN load.attach, NEW j \in 1..Len(p) PROVE Reaches(p[j].gw, k)
    <3>1. CASE j = Len(q) + 1
      BY <2>1, <2>2, <3>1
    <3>2. CASE j \in 1..Len(q)
      BY <2>1, <2>2, <3>2 DEF Queue
    <3> QED BY <1>1, <2>1, <3>1, <3>2
  <2>3. Queue(k, p)
    BY <2>1, <2>2 DEF Queue
  <2> QED BY <1>3, <2>3 DEF p
<1> QED BY <1>2, <1>3 DEF Queued

Sends(m, k, i, p) == IF k # m /\ k \in On(Attach(m)[i]) THEN Queued(p, Update(m, i)) ELSE p
Sending(m, k, n, q) == q = [i \in 0..n |-> IF i = 0 THEN inbox[k] ELSE Sends(m, k, i, q[i - 1])]

LEMMA SendingExists ==
    ASSUME NEW m, NEW k, NEW n \in Nat
    PROVE  \E q : Sending(m, k, n, q)
<1> DEFINE T == {j \in Nat : \E q : Sending(m, k, j, q)}
<1>1. 0 \in T
  <2>1. Sending(m, k, 0, [i \in 0..0 |-> inbox[k]])
    BY DEF Sending
  <2> QED BY <2>1
<1>2. ASSUME NEW j \in Nat, j \in T PROVE j + 1 \in T
  <2>1. PICK q : Sending(m, k, j, q)
    BY <1>2
  <2> DEFINE p == [i \in 0..j + 1 |-> IF i <= j THEN q[i] ELSE Sends(m, k, j + 1, q[j])]
  <2>2. \A i \in 0..j + 1 : p[i] = IF i = 0 THEN inbox[k] ELSE Sends(m, k, i, p[i - 1])
    <3> SUFFICES ASSUME NEW i \in 0..j + 1
                 PROVE  p[i] = IF i = 0 THEN inbox[k] ELSE Sends(m, k, i, p[i - 1])
      OBVIOUS
    <3>1. CASE i = j + 1
      <4>1. p[j] = q[j] /\ i # 0 /\ i - 1 = j /\ p[i] = Sends(m, k, j + 1, q[j])
        BY <3>1
      <4> QED BY <3>1, <4>1
    <3>2. CASE i \in 0..j
      <4>1. q[i] = IF i = 0 THEN inbox[k] ELSE Sends(m, k, i, q[i - 1])
        BY <2>1, <3>2 DEF Sending
      <4>2. (i # 0 => p[i - 1] = q[i - 1]) /\ p[i] = q[i]
        BY <3>2
      <4> QED BY <4>1, <4>2
    <3> QED BY <3>1, <3>2
  <2>3. Sending(m, k, j + 1, p)
    BY <2>2 DEF Sending
  <2> HIDE DEF p
  <2>4. \E f : Sending(m, k, j + 1, f)
    BY <2>3
  <2> QED BY <2>4
<1> HIDE DEF T
<1>3. n \in T
  BY <1>1, <1>2, EveryNumber
<1> QED BY <1>3 DEF T

LEMMA BroadcastKeeps ==
    ASSUME IInv, NEW m \in up, NEW k \in Machines
    PROVE  Queue(k, Broadcast(m)[k])
<1> DEFINE n == Len(Attach(m))
           q == CHOOSE q : Sending(m, k, n, q)
<1>1. /\ m \in DOMAIN load.attach /\ load \in Loads /\ m \in Machines /\ n \in Nat
      /\ DOMAIN Attach(m) = 1..n
  BY AttachIs DEF IInv
<1>2. Sending(m, k, n, q)
  BY <1>1, SendingExists
<1>3. Broadcast(m)[k] = q[n]
  BY DEF Broadcast, Sending, Sends
<1> HIDE DEF q
<1>4. Queue(k, inbox[k])
  BY DEF IInv, RipTyped, Queue
<1>5. ASSUME NEW i \in 1..n, NEW p, Queue(k, p) PROVE Queue(k, Sends(m, k, i, p))
  <2>1. CASE k # m /\ k \in On(Attach(m)[i])
    <3>1. i \in Nat /\ Update(m, i) \in Message /\ Update(m, i).gw = m
      BY <1>1, UpdateIs
    <3>2. k \in DOMAIN load.attach /\ Attach(m)[i] \in Range(Attach(k)) /\ i \in DOMAIN Attach(m)
      BY <1>1, <2>1 DEF On, IInv
    <3>3. Reaches(m, k)
      <4>1. \E j \in DOMAIN Attach(k) : Attach(k)[j] = Attach(m)[i]
        BY <3>2 DEF Range
      <4>2. Attach(m)[i] \in Range(Attach(m))
        BY <3>2 DEF Range
      <4> QED BY <1>1, <4>1, <4>2 DEF Reaches
    <3>4. Queue(k, Queued(p, Update(m, i)))
      BY <1>5, <3>1, <3>3, QueuedKeeps
    <3> QED BY <2>1, <3>4 DEF Sends
  <2>2. CASE ~ (k # m /\ k \in On(Attach(m)[i]))
    BY <1>5, <2>2 DEF Sends
  <2> QED BY <2>1, <2>2
<1> HIDE DEF n
<1> DEFINE T == {j \in Nat : j <= n => Queue(k, q[j])}
<1>6. /\ q[0] = inbox[k]
      /\ \A j \in 1..n : q[j] = Sends(m, k, j, q[j - 1])
  BY <1>1, <1>2 DEF Sending
<1>7. 0 \in T
  BY <1>4, <1>6
<1>8. ASSUME NEW j \in Nat, j \in T PROVE j + 1 \in T
  <2> SUFFICES ASSUME j + 1 <= n PROVE Queue(k, q[j + 1])
    OBVIOUS
  <2>1. j + 1 \in 1..n /\ (j + 1) - 1 = j
    BY <1>1
  <2>2. Queue(k, q[j])
    BY <1>1, <1>8
  <2>3. q[j + 1] = Sends(m, k, j + 1, q[j])
    BY <1>6, <2>1
  <2> QED BY <1>5, <2>1, <2>2, <2>3
<1> HIDE DEF T
<1>9. n \in T
  BY <1>1, <1>7, <1>8, EveryNumber
<1> QED BY <1>1, <1>3, <1>9 DEF T

LEMMA TailQueue ==
    ASSUME NEW k, NEW q, Queue(k, q), q # <<>>
    PROVE  /\ Queue(k, Tail(q)) /\ Head(q) \in Message
           /\ k \in DOMAIN load.attach => Reaches(Head(q).gw, k)
<1>1. q \in Seq(Message) /\ Len(q) \in Nat /\ Len(q) # 0
  BY LenProperties, EmptySeq DEF Queue
<1>2. /\ Tail(q) \in Seq(Message) /\ Len(Tail(q)) = Len(q) - 1
      /\ \A j \in 1..Len(q) - 1 : Tail(q)[j] = q[j + 1]
      /\ Head(q) = q[1] /\ Head(q) \in Message
  BY <1>1, HeadTailProperties
<1>3. ASSUME k \in DOMAIN load.attach, NEW j \in 1..Len(Tail(q)) PROVE Reaches(Tail(q)[j].gw, k)
  <2>1. Tail(q)[j] = q[j + 1] /\ j + 1 \in 1..Len(q)
    BY <1>1, <1>2
  <2> QED BY <1>3, <2>1 DEF Queue
<1>4. k \in DOMAIN load.attach => Reaches(Head(q).gw, k)
  BY <1>1, <1>2 DEF Queue
<1> QED BY <1>2, <1>3, <1>4 DEF Queue

-----------------------------------------------------------------------------
(* Steps *)

LEMMA HoldFacts ==
    ASSUME NEW B, 0 \notin B, NEW x, NEW y
    PROVE  /\ HoldOf(B, x, y) \in Holds(B) /\ HoldOf(B, 0, 0) = Zero(B)
           /\ \A b \in B : /\ HoldOf(B, b, y) = More(HoldOf(B, 0, y), b)
                           /\ HoldOf(B, x, b) = More(HoldOf(B, x, 0), b)
<1>1. HoldOf(B, x, y) \in Holds(B)
  BY DEF HoldOf, Holds
<1>2. HoldOf(B, 0, 0) = Zero(B)
  <2>1. \A b \in B : b # 0
    OBVIOUS
  <2> QED BY <2>1 DEF HoldOf, Zero
<1>3. ASSUME NEW b \in B
      PROVE  /\ HoldOf(B, b, y) = More(HoldOf(B, 0, y), b)
             /\ HoldOf(B, x, b) = More(HoldOf(B, x, 0), b)
  <2> DEFINE one(p, c) == IF p = c THEN 1 ELSE 0
             f == HoldOf(B, b, y)
             g == HoldOf(B, 0, y)
             h == HoldOf(B, x, b)
             k == HoldOf(B, x, 0)
  <2>1. \A c \in B : c # 0 /\ one(b, c) \in Nat /\ one(x, c) \in Nat /\ one(y, c) \in Nat
                      /\ one(0, c) = 0 /\ one(b, b) = 1 /\ (c # b => one(b, c) = 0)
    OBVIOUS
  <2>2. /\ f = [c \in B |-> one(b, c) + one(y, c)] /\ g = [c \in B |-> one(0, c) + one(y, c)]
        /\ h = [c \in B |-> one(x, c) + one(b, c)] /\ k = [c \in B |-> one(x, c) + one(0, c)]
    BY DEF HoldOf
  <2> HIDE DEF one, f, g, h, k
  <2>3. More(g, b) = [c \in B |-> IF c = b THEN g[b] + 1 ELSE g[c]]
    BY <2>2 DEF More
  <2>4. More(k, b) = [c \in B |-> IF c = b THEN k[b] + 1 ELSE k[c]]
    BY <2>2 DEF More
  <2>5. \A c \in B : /\ f[c] = (IF c = b THEN g[b] + 1 ELSE g[c])
                      /\ h[c] = (IF c = b THEN k[b] + 1 ELSE k[c])
    BY <2>1, <2>2
  <2>6. f = More(g, b)
    BY <2>2, <2>3, <2>5
  <2>7. h = More(k, b)
    BY <2>2, <2>4, <2>5
  <2> QED BY <2>6, <2>7 DEF f, g, h, k
<1> QED BY <1>1, <1>2, <1>3

LEMMA InvFacts ==
    ASSUME IInv, NEW m \in Machines
    PROVE  /\ load \in Loads /\ Buffers(Buf) /\ 0 \notin Buf /\ Hold(m) \in Holds(Buf)
           /\ TableOK(rt[m], Buf, Hold(m)) /\ rt[m] \in Tables(Buf)
           /\ rt \in [Machines -> Tables(Buf)]
           /\ rip \in [Machines -> RipStates] /\ rip[m] \in RipStates
           /\ ip \in [Machines -> IpStates] /\ ip[m] \in IpStates
           /\ inbox \in [Machines -> Seq(Message)] /\ \A k \in Machines : Queue(k, inbox[k])
           /\ wire \in [Machines -> Seq(Data \cup Redir)] /\ wire[m] \in Seq(Data \cup Redir)
<1>1. load \in Loads /\ Buffers(Buf) /\ 0 \notin Buf
  BY BufIs DEF IInv
<1>2. Hold(m) \in Holds(Buf)
  BY <1>1, HoldFacts DEF Hold
<1>3. /\ inbox \in [Machines -> Seq(Message)] /\ \A k \in Machines : Queue(k, inbox[k])
      /\ rip \in [Machines -> RipStates]
  BY DEF IInv, RipTyped, Queue
<1> QED BY <1>1, <1>2, <1>3 DEF IInv, TablesOK, IpTyped

(* The topology stays. *)
LEMMA Same ==
    ASSUME load' = load
    PROVE  /\ Buf' = Buf /\ RipStates' = RipStates /\ IpStates' = IpStates
           /\ \A g, k : Reaches(g, k)' <=> Reaches(g, k)
<1>1. Buf' = Buf
  BY DEF Buf
<1> QED BY <1>1 DEF RipStates, IpStates, Reaches, Attach

LEMMA RipTypedStep ==
    ASSUME load' = load, rip' \in [Machines -> RipStates],
           inbox' = [k \in Machines |-> inbox'[k]], \A k \in Machines : Queue(k, inbox'[k]),
           load \in Loads
    PROVE  RipTyped'
<1>1. rip' \in [Machines -> RipStates'] /\ \A g, k : Reaches(g, k)' <=> Reaches(g, k)
  BY Same
<1>2. inbox' \in [Machines -> Seq(Message)]
  BY DEF Queue
<1>3. \A m \in DOMAIN load.attach : \A i \in 1..Len(inbox'[m]) : Reaches(inbox'[m][i].gw, m)
  BY AttachIs DEF Queue
<1>4. (\A m \in DOMAIN load.attach : \A i \in 1..Len(inbox[m]) : Reaches(inbox[m][i].gw, m))'
  BY <1>3 DEF Reaches, Attach
<1> QED BY <1>1, <1>2, <1>4 DEF RipTyped

LEMMA IpTypedStep ==
    ASSUME load' = load, ip' \in [Machines -> IpStates], wire' \in [Machines -> Seq(Data \cup Redir)]
    PROVE  IpTyped'
BY Same DEF IpTyped

(* The table of one machine changes. *)
LEMMA TablesStep ==
    ASSUME IInv, load' = load, NEW m \in Machines, NEW t, rt' = [rt EXCEPT ![m] = t],
           \A k \in Machines \ {m} : rip'[k].held = rip[k].held /\ ip'[k].held = ip[k].held,
           TableOK(t, Buf, HoldOf(Buf, rip'[m].held, ip'[m].held))
    PROVE  TablesOK'
<1>1. Buf' = Buf /\ t \in Tables(Buf) /\ rt \in [Machines -> Tables(Buf)]
  BY Same, InvFacts DEF TableOK
<1>2. rt' \in [Machines -> Tables(Buf')]
  BY <1>1
<1>3. ASSUME NEW k \in Machines PROVE TableOK(rt'[k], Buf', Hold(k)')
  <2>1. Hold(k)' = HoldOf(Buf, rip'[k].held, ip'[k].held)
    BY <1>1 DEF Hold
  <2>2. CASE k = m
    BY <1>1, <2>1, <2>2
  <2>3. CASE k # m
    <3>1. Hold(k)' = Hold(k) /\ rt'[k] = rt[k]
      BY <1>1, <2>1, <2>3 DEF Hold
    <3> QED BY <1>1, <3>1, InvFacts
  <2> QED BY <2>2, <2>3
<1>4. \A k \in Machines : TableOK(rt[k], Buf, Hold(k))'
  BY <1>3
<1> QED BY <1>2, <1>4 DEF TablesOK

LEMMA TablesSame ==
    ASSUME IInv, load' = load, rt' = rt,
           \A k \in Machines : rip'[k].held = rip[k].held /\ ip'[k].held = ip[k].held
    PROVE  TablesOK'
<1>1. Buf' = Buf
  BY Same
<1>2. \A k \in Machines : Hold(k)' = Hold(k)
  BY <1>1 DEF Hold
<1> QED BY <1>1, <1>2 DEF TablesOK, IInv

LEMMA StepKeeps ==
    ASSUME IInv, load' = load, up' \subseteq DOMAIN load.attach, RipTyped', IpTyped', TablesOK'
    PROVE  IInv'
BY DEF IInv

LEMMA RipOutKeeps ==
    ASSUME IInv, NEW m \in Machines, RipOut(m)
    PROVE  IInv'
<1> USE DEF RipOut
<1>1. RipTyped'
  <2>1. inbox' = [k \in Machines |-> inbox'[k]]
    BY DEF Broadcast
  <2>2. \A k \in Machines : Queue(k, inbox'[k])
    BY BroadcastKeeps
  <2> QED BY <2>1, <2>2, InvFacts, RipTypedStep
<1>2. IpTyped' /\ TablesOK'
  BY InvFacts, IpTypedStep, TablesSame
<1> QED BY <1>1, <1>2, StepKeeps DEF IInv

(* Where a response comes from *)
LEMMA SenderNet ==
    ASSUME load \in Loads, NEW m \in DOMAIN load.attach, NEW gw, Reaches(gw, m)
    PROVE  Attach(m)[SenderIf(m, gw)] \in Nets
<1>1. /\ Len(Attach(m)) \in Nat \ {0} /\ DOMAIN Attach(m) = 1..Len(Attach(m))
      /\ \A i \in 1..Len(Attach(m)) : Attach(m)[i] \in Nets
  BY AttachIs
<1>2. \E i \in DOMAIN Attach(m) : \/ gw \in Peers
                                  \/ gw \in Machines /\ Attach(m)[i] \in Range(Attach(gw))
  <2>1. 1 \in DOMAIN Attach(m)
    BY <1>1
  <2> QED BY <2>1 DEF Reaches
<1>3. SenderIf(m, gw) \in DOMAIN Attach(m)
  BY <1>2 DEF SenderIf
<1> QED BY <1>1, <1>3

LEMMA RipStateIs ==
    ASSUME NEW x \in RipStates
    PROVE  /\ x.pc = "idle" => x = RipIdle
           /\ x.pc = "route" => x \in [pc : {"route"}, held : Buf, gw : Machines \cup Peers,
                                       ifn : Nat, todo : Seq(Entry)]
           /\ x.pc = "add" => x \in [pc : {"add"}, held : {0}, gw : Machines \cup Peers,
                                     ifn : Nat, todo : Seq(Entry) \ {<<>>}]
BY DEF RipStates, RipIdle

LEMMA RipRecvKeeps ==
    ASSUME IInv, NEW m \in Machines, RipRecv(m)
    PROVE  IInv'
<1> DEFINE msg == Head(inbox[m])
           a == [net |-> Attach(m)[SenderIf(m, msg.gw)], host |-> msg.gw]
           b == RtFind(rt[m], a)
           s == [pc |-> "route", held |-> b, gw |-> msg.gw, ifn |-> 0, todo |-> msg.entries]
<1>1. /\ m \in up /\ rip[m].pc = "idle" /\ inbox[m] # <<>>
      /\ inbox' = [inbox EXCEPT ![m] = Tail(inbox[m])]
      /\ IF b = 0 THEN UNCHANGED <<rt, rip>>
         ELSE rt' = [rt EXCEPT ![m] = RtHold(rt[m], b)] /\ rip' = [rip EXCEPT ![m] = s]
      /\ UNCHANGED <<load, up, out, wire, ip, events>>
  BY DEF RipRecv
<1> HIDE DEF s
<1>2. m \in DOMAIN load.attach /\ load \in Loads
  BY <1>1 DEF IInv
<1>3. Queue(m, Tail(inbox[m])) /\ msg \in Message /\ Reaches(msg.gw, m)
  BY <1>1, <1>2, InvFacts, TailQueue
<1>4. b \in Buf \cup {0}
  <2>1. a.net \in Nets
    BY <1>2, <1>3, SenderNet
  <2> HIDE DEF a
  <2> QED BY <2>1, InvFacts, FindFacts
<1> HIDE DEF b
<1>5. inbox' = [k \in Machines |-> inbox'[k]] /\ \A k \in Machines : Queue(k, inbox'[k])
  BY <1>1, <1>3, InvFacts
<1>6. IpTyped' /\ up' \subseteq DOMAIN load.attach /\ load' = load
  BY <1>1, InvFacts, IpTypedStep DEF IInv
<1>7. CASE b = 0
  <2>1. RipTyped' /\ TablesOK'
    BY <1>1, <1>5, <1>7, InvFacts, RipTypedStep, TablesSame
  <2> QED BY <1>6, <2>1, StepKeeps
<1>8. CASE b # 0
  <2>1. b \in Buf /\ rip[m].held = 0 /\ rip[m] = RipIdle
    BY <1>1, <1>4, <1>8, InvFacts, RipStateIs DEF RipIdle
  <2>2. s \in RipStates /\ s.held = b
    BY <1>3, <2>1 DEF s, RipStates, Message
  <2>3. rip' \in [Machines -> RipStates] /\ rip'[m] = s /\ \A k \in Machines \ {m} : rip'[k] = rip[k]
    BY <1>1, <1>8, <2>2, InvFacts
  <2>4. RipTyped'
    BY <1>1, <1>5, <2>3, InvFacts, RipTypedStep
  <2>5. TableOK(RtHold(rt[m], b), Buf, More(Hold(m), b))
    BY <2>1, InvFacts, HoldKeeps
  <2>6. HoldOf(Buf, rip'[m].held, ip'[m].held) = More(Hold(m), b)
    BY <1>1, <2>1, <2>2, <2>3, InvFacts, HoldFacts DEF Hold
  <2>7. TablesOK'
    <3> DEFINE t == RtHold(rt[m], b)
    <3>1. rt' = [rt EXCEPT ![m] = t]
      BY <1>1, <1>8
    <3>2. TableOK(t, Buf, HoldOf(Buf, rip'[m].held, ip'[m].held))
      BY <2>5, <2>6
    <3> HIDE DEF t
    <3> QED BY <1>1, <2>3, <3>1, <3>2, TablesStep
  <2> QED BY <1>6, <2>4, <2>7, StepKeeps
<1> QED BY <1>7, <1>8

LEMMA RipLockKeeps ==
    ASSUME IInv, NEW m \in Machines, RipLock(m)
    PROVE  IInv'
<1> DEFINE x == rip[m]
           b == x.held
           s == IF x.todo = <<>> THEN RipIdle
                ELSE [x EXCEPT !.pc = "add", !.held = 0, !.ifn = rt[m].buf[b].ifn]
           t == RtFree(rt[m], b)
<1>1. /\ m \in up /\ x.pc = "route"
      /\ rt' = [rt EXCEPT ![m] = t] /\ rip' = [rip EXCEPT ![m] = s]
      /\ UNCHANGED <<load, up, inbox, out, wire, ip, events>>
  <2>1. rip' = [rip EXCEPT ![m] = s]
    BY InvFacts DEF RipLock
  <2> QED BY <2>1 DEF RipLock
<1>2. x \in [pc : {"route"}, held : Buf, gw : Machines \cup Peers, ifn : Nat, todo : Seq(Entry)]
      /\ b \in Buf
  BY <1>1, InvFacts, RipStateIs
<1>3. s \in RipStates /\ s.held = 0
  <2>1. rt[m].buf[b].ifn \in Nat
    BY <1>2, InvFacts DEF Tables, RouteSet
  <2>2. CASE x.todo = <<>>
    BY <2>2 DEF RipStates, RipIdle
  <2>3. CASE x.todo # <<>>
    <3>1. s = [x EXCEPT !.pc = "add", !.held = 0, !.ifn = rt[m].buf[b].ifn]
      BY <2>3
    <3> HIDE DEF x, s, b
    <3>2. s \in [pc : {"add"}, held : {0}, gw : Machines \cup Peers, ifn : Nat,
                 todo : Seq(Entry) \ {<<>>}]
      BY <1>2, <2>1, <2>3, <3>1
    <3> QED BY <3>2 DEF RipStates
  <2> QED BY <2>2, <2>3
<1>4. Hold(m) = More(HoldOf(Buf, 0, ip[m].held), b)
  BY <1>2, InvFacts, HoldFacts DEF Hold
<1> HIDE DEF s
<1>5. rip' \in [Machines -> RipStates] /\ rip'[m] = s /\ \A k \in Machines \ {m} : rip'[k] = rip[k]
  BY <1>1, <1>3, InvFacts
<1>6. TableOK(t, Buf, HoldOf(Buf, 0, ip[m].held))
  <2> DEFINE H == HoldOf(Buf, 0, ip[m].held)
  <2>1. H \in Holds(Buf) /\ TableOK(rt[m], Buf, More(H, b)) /\ Buffers(Buf)
    BY <1>4, InvFacts, HoldFacts
  <2> HIDE DEF H, b
  <2>2. TableOK(RtFree(rt[m], b), Buf, H)
    BY <1>2, <2>1, FreeKeeps
  <2> QED BY <2>2 DEF H
<1> HIDE DEF t
<1>7. TablesOK'
  BY <1>1, <1>3, <1>5, <1>6, TablesStep
<1>8. RipTyped' /\ IpTyped'
  BY <1>1, <1>5, InvFacts, RipTypedStep, IpTypedStep
<1> QED BY <1>1, <1>7, <1>8, StepKeeps DEF IInv

(* A route is added to the table of a machine. *)
LEMMA RtAddStep ==
    ASSUME NEW B, Buffers(B), NEW H \in Holds(B), NEW t, TableOK(t, B, H), FreeBufs(t) # {},
           NEW dst \in Destinations, NEW gw \in Gateways, NEW metric \in Nat, NEW ifn \in Nat,
           NEW m
    PROVE  TableOK(RtAdd(t, Route(dst, gw, metric, ifn, RIPRTTL), IsGateway(m)).t, B, H)
<1> DEFINE r == Route(dst, gw, metric, ifn, RIPRTTL)
<1>1. RIPRTTL \in Int /\ IsGateway(m) \in BOOLEAN
  BY RoutingConstants DEF IsGateway
<1>2. r \in RouteSet /\ r.ref = 1
  BY <1>1, RouteMade
<1> HIDE DEF r
<1>3. TableOK(RtAdd(t, r, IsGateway(m)).t, B, H)
  BY <1>1, <1>2, AddKeeps
<1> QED BY <1>3 DEF r

(* What an update says is a destination. *)
LEMMA RipDstIs ==
    ASSUME NEW dst \in Destinations
    PROVE  RipDst(dst) \in Destinations
BY DEF RipDst, Destinations, Default

LEMMA RipAddKeeps ==
    ASSUME IInv, NEW m \in Machines, RipAdd(m)
    PROVE  IInv'
<1> DEFINE x == rip[m]
           e == Head(x.todo)
           t == RtAdd(rt[m], Route(RipDst(e.dst), x.gw, e.metric, x.ifn, RIPRTTL), IsGateway(m)).t
           s == IF Len(x.todo) = 1 THEN RipIdle ELSE [x EXCEPT !.todo = Tail(x.todo)]
<1>1. /\ m \in up /\ x.pc = "add"
      /\ rip' = [rip EXCEPT ![m] = s]
      /\ rt' = rt \/ (FreeBufs(rt[m]) # {} /\ rt' = [rt EXCEPT ![m] = t])
      /\ UNCHANGED <<load, up, inbox, wire, ip, events>>
  <2>1. rip' = [rip EXCEPT ![m] = IF Len(@.todo) = 1 THEN RipIdle
                                  ELSE [@ EXCEPT !.todo = Tail(rip[m].todo)]]
    BY DEF RipAdd
  <2>2. rip' = [rip EXCEPT ![m] = s]
    BY <2>1
  <2> QED BY <2>2 DEF RipAdd
<1>2. x \in [pc : {"add"}, held : {0}, gw : Machines \cup Peers, ifn : Nat,
             todo : Seq(Entry) \ {<<>>}]
  BY <1>1, InvFacts, RipStateIs
<1>3. /\ e \in Entry /\ Len(x.todo) \in Nat \ {0}
      /\ Len(x.todo) # 1 => Tail(x.todo) \in Seq(Entry) \ {<<>>}
  <2> DEFINE q == x.todo
  <2>1. q \in Seq(Entry) /\ q # <<>>
    BY <1>2
  <2> HIDE DEF q
  <2>2. /\ Len(q) \in Nat /\ Len(q) # 0 /\ Head(q) \in Entry /\ Tail(q) \in Seq(Entry)
        /\ Len(Tail(q)) = Len(q) - 1
    BY <2>1, LenProperties, EmptySeq, HeadTailProperties
  <2>3. Len(q) # 1 => Tail(q) # <<>>
    <3>1. ASSUME Tail(q) = <<>> PROVE Len(q) = 1
      <4> DEFINE z == Tail(q)
      <4>1. z = <<>> /\ Len(z) = Len(q) - 1
        BY <2>2, <3>1
      <4> HIDE DEF z
      <4>2. Len(z) = 0
        BY <4>1
      <4>3. Len(q) - 1 = 0 /\ Len(q) \in Nat
        BY <2>2, <4>1, <4>2
      <4> QED BY <4>3
    <3> QED BY <3>1
  <2> QED BY <2>2, <2>3 DEF q
<1>4. s \in RipStates /\ s.held = 0 /\ x.held = 0
  <2>1. CASE Len(x.todo) = 1
    BY <1>2, <2>1 DEF RipStates, RipIdle
  <2>2. CASE Len(x.todo) # 1
    <3> DEFINE q == Tail(x.todo)
    <3>1. s = [x EXCEPT !.todo = q] /\ q \in Seq(Entry) \ {<<>>}
      BY <1>3, <2>2
    <3> HIDE DEF x, s, q
    <3>2. s \in [pc : {"add"}, held : {0}, gw : Machines \cup Peers, ifn : Nat,
                 todo : Seq(Entry) \ {<<>>}]
      BY <1>2, <3>1
    <3> QED BY <1>2, <3>2 DEF RipStates
  <2> QED BY <2>1, <2>2
<1> HIDE DEF s
<1>5. /\ rip' \in [Machines -> RipStates] /\ rip'[m] = s
      /\ \A k \in Machines : rip'[k].held = rip[k].held
  BY <1>1, <1>4, InvFacts
<1>6. RipTyped' /\ IpTyped'
  BY <1>1, <1>5, InvFacts, RipTypedStep, IpTypedStep
<1>7. TablesOK'
  <2>1. CASE rt' = rt
    BY <1>1, <1>5, <2>1, TablesSame
  <2>2. CASE FreeBufs(rt[m]) # {} /\ rt' = [rt EXCEPT ![m] = t]
    <3>1. RipDst(e.dst) \in Destinations /\ e.metric \in Nat /\ x.gw \in Gateways /\ x.ifn \in Nat
      BY <1>2, <1>3, RipDstIs DEF Entry, Gateways
    <3>2. TableOK(t, Buf, Hold(m))
      <4> HIDE DEF x, e
      <4> QED BY <2>2, <3>1, InvFacts, RtAddStep
    <3>3. HoldOf(Buf, rip'[m].held, ip'[m].held) = Hold(m)
      BY <1>1, <1>5 DEF Hold
    <3> HIDE DEF t
    <3> QED BY <1>1, <1>5, <2>2, <3>2, <3>3, TablesStep
  <2> QED BY <1>1, <2>1, <2>2
<1> QED BY <1>1, <1>6, <1>7, StepKeeps DEF IInv

LEMMA TickKeeps ==
    ASSUME IInv, Tick
    PROVE  IInv'
<1>1. /\ rt' = [m \in Machines |-> IF m \in up THEN RtTimer(rt[m], IsGateway(m)).t ELSE rt[m]]
      /\ UNCHANGED <<load, up, inbox, rip, wire, ip, events>>
  BY DEF Tick
<1>2. Buf' = Buf
  BY <1>1, Same
<1>3. ASSUME NEW m \in Machines
      PROVE  rt'[m] \in Tables(Buf) /\ TableOK(rt'[m], Buf, Hold(m)) /\ Hold(m)' = Hold(m)
  <2>1. TableOK(RtTimer(rt[m], IsGateway(m)).t, Buf, Hold(m))
    <3>1. IsGateway(m) \in BOOLEAN
      BY DEF IsGateway
    <3> QED BY <3>1, InvFacts, TimerKeeps
  <2>2. TableOK(rt'[m], Buf, Hold(m))
    BY <1>1, <2>1, InvFacts
  <2>3. Hold(m)' = Hold(m)
    BY <1>1, <1>2 DEF Hold
  <2> QED BY <2>2, <2>3 DEF TableOK
<1>4. rt' = [m \in Machines |-> rt'[m]]
  BY <1>1
<1>5. TablesOK'
  BY <1>2, <1>3, <1>4 DEF TablesOK
<1>6. RipTyped' /\ IpTyped'
  BY <1>1, Same DEF IInv, RipTyped, IpTyped, Reaches, Attach
<1> QED BY <1>1, <1>5, <1>6, StepKeeps DEF IInv

LEMMA IpStateIs ==
    ASSUME NEW x \in IpStates
    PROVE  /\ x.pc = "idle" => x = IpIdle
           /\ x.pc # "idle" => x.held \in Buf
           /\ x.pc = "route" => x.pkt[1] \in Data
           /\ x.pc \in {"delete", "free", "add"} => x.pkt \in {<<p>> : p \in Redir}
                                                 /\ x.pkt[1] \in Redir
           /\ x.pc = "delete" => x.new = <<>>
           /\ x.pc = "add" => x.new[1] \in One
BY DEF IpStates, IpIdle

(* The next packet *)
LEMMA PacketIs ==
    ASSUME NEW q \in Seq(Data \cup Redir), q # <<>>
    PROVE  /\ Tail(q) \in Seq(Data \cup Redir)
           /\ Head(q).kind = "data" => Head(q) \in Data
           /\ Head(q).kind # "data" => Head(q) \in Redir
           /\ Head(q).dst \in Address /\ Head(q).dst.net \in Nets
<1>1. Head(q) \in Data \cup Redir /\ Tail(q) \in Seq(Data \cup Redir)
  BY HeadTailProperties
<1> QED BY <1>1 DEF Data, Redir, Address

LEMMA IpRouteKeeps ==
    ASSUME IInv, NEW m \in Machines, IpRoute(m)
    PROVE  IInv'
<1> DEFINE p == Head(wire[m])
           b == RtFind(rt[m], p.dst)
           s == [IpIdle EXCEPT !.pc = "route", !.held = b, !.pkt = <<p>>]
           t == RtHold(rt[m], b)
<1>1. /\ m \in up /\ ip[m].pc = "idle" /\ wire[m] # <<>> /\ p.kind = "data"
      /\ wire' = [wire EXCEPT ![m] = Tail(wire[m])]
      /\ \/ UNCHANGED <<rt, ip>>
         \/ b # 0 /\ rt' = [rt EXCEPT ![m] = t] /\ ip' = [ip EXCEPT ![m] = s]
      /\ UNCHANGED <<load, up, inbox, rip, out, events>>
  BY DEF IpRoute
<1>2. /\ Tail(wire[m]) \in Seq(Data \cup Redir) /\ p \in Data /\ p.dst.net \in Nets
  BY <1>1, InvFacts, PacketIs
<1>3. b \in Buf \cup {0}
  BY <1>2, InvFacts, FindFacts
<1> HIDE DEF b, p
<1>4. wire' \in [Machines -> Seq(Data \cup Redir)] /\ ip[m] = IpIdle
  BY <1>1, <1>2, InvFacts, IpStateIs
<1>5. RipTyped'
  BY <1>1, InvFacts, RipTypedStep
<1>6. CASE UNCHANGED <<rt, ip>>
  <2>1. IpTyped' /\ TablesOK'
    BY <1>1, <1>4, <1>6, InvFacts, IpTypedStep, TablesSame
  <2> QED BY <1>1, <1>5, <2>1, StepKeeps DEF IInv
<1>7. CASE b # 0 /\ rt' = [rt EXCEPT ![m] = t] /\ ip' = [ip EXCEPT ![m] = s]
  <2>1. b \in Buf /\ ip[m].held = 0 /\ IpIdle.held = 0
    BY <1>3, <1>4, <1>7 DEF IpIdle
  <2>2. s \in IpStates /\ s.held = b
    BY <1>2, <2>1 DEF IpStates, IpIdle
  <2> HIDE DEF s
  <2>3. ip' \in [Machines -> IpStates] /\ ip'[m] = s /\ \A k \in Machines \ {m} : ip'[k] = ip[k]
    BY <1>7, <2>2, InvFacts
  <2>4. IpTyped'
    BY <1>1, <1>4, <2>3, IpTypedStep
  <2>5. TableOK(t, Buf, More(Hold(m), b))
    BY <2>1, InvFacts, HoldKeeps
  <2>6. HoldOf(Buf, rip'[m].held, ip'[m].held) = More(Hold(m), b)
    BY <1>1, <2>1, <2>2, <2>3, InvFacts, HoldFacts DEF Hold
  <2> HIDE DEF t
  <2>7. TablesOK'
    BY <1>1, <1>7, <2>3, <2>5, <2>6, TablesStep
  <2> QED BY <1>1, <1>5, <2>4, <2>7, StepKeeps DEF IInv
<1> QED BY <1>1, <1>6, <1>7

(* The route a process holds is given back when it has become idle. *)
LEMMA IpFreeStep ==
    ASSUME IInv, NEW m \in Machines, ip[m].pc # "idle"
    PROVE  /\ ip[m].held \in Buf
           /\ TableOK(RtFree(rt[m], ip[m].held), Buf, HoldOf(Buf, rip[m].held, 0))
<1> DEFINE b == ip[m].held
           H == HoldOf(Buf, rip[m].held, 0)
<1>1. b \in Buf
  BY InvFacts, IpStateIs
<1>2. Hold(m) = More(H, b)
  BY <1>1, InvFacts, HoldFacts DEF Hold
<1>3. H \in Holds(Buf) /\ TableOK(rt[m], Buf, More(H, b)) /\ Buffers(Buf)
  BY <1>2, InvFacts, HoldFacts
<1> HIDE DEF H, b
<1>4. TableOK(RtFree(rt[m], b), Buf, H)
  BY <1>1, <1>3, FreeKeeps
<1> QED BY <1>1, <1>4 DEF H, b

LEMMA IpForwardKeeps ==
    ASSUME IInv, NEW m \in Machines, IpForward(m)
    PROVE  IInv'
<1> DEFINE P == Data \cup Redir
           p == ip[m].pkt[1]
           r == rt[m].buf[ip[m].held]
           n == Attach(m)[r.ifn]
           k == Gw(m, p, ip[m].held)
           e == Redirect(m, p, r)
           tell == IF Redirects(m, p, r)
                   THEN [wire EXCEPT ![p.src] = Append(wire[p.src], e)]
                   ELSE wire
           f == [p EXCEPT !.ttl = p.ttl - 1, !.ifn = IfOn(k, n)]
           w == IF p.ttl > 1 THEN tell ELSE wire
           t == RtFree(rt[m], ip[m].held)
<1>1. /\ m \in up /\ ip[m].pc = "route"
      /\ rt' = [rt EXCEPT ![m] = t] /\ ip' = [ip EXCEPT ![m] = IpIdle]
      /\ UNCHANGED <<load, up, inbox, rip, out, events>>
  BY DEF IpForward
<1>2. wire' = IF p.ttl > 1 /\ k \in On(n) THEN [w EXCEPT ![k] = Append(w[k], f)] ELSE w
  BY DEF IpForward
<1>3. /\ p \in Data /\ r \in RouteSet /\ m \in Machines
  BY <1>1, InvFacts, IpStateIs DEF Tables
<1>4. e \in Redir
  BY <1>3 DEF Redirect, Redir, Data, RouteSet
<1>5. k \in On(n) => k \in Machines /\ f \in Data
  <2> SUFFICES ASSUME k \in On(n) PROVE k \in Machines /\ f \in Data
    OBVIOUS
  <2>1. k \in DOMAIN load.attach /\ n \in Range(Attach(k)) /\ load \in Loads
    BY DEF On, IInv
  <2>2. \E i \in DOMAIN Attach(k) : Attach(k)[i] = n
    BY <2>1 DEF Range
  <2>3. IfOn(k, n) \in DOMAIN Attach(k)
    BY <2>2 DEF IfOn
  <2>4. k \in Machines /\ IfOn(k, n) \in Nat
    BY <2>1, <2>3, AttachIs
  <2> DEFINE i == IfOn(k, n)
  <2> HIDE DEF k, n, p, i
  <2>5. [p EXCEPT !.ttl = p.ttl - 1, !.ifn = i] \in Data
    <3> DEFINE y == p.ttl - 1
    <3>1. i \in Nat /\ y \in Int
      BY <1>3, <2>4 DEF i, Data
    <3> HIDE DEF y
    <3>2. [p EXCEPT !.ttl = y, !.ifn = i] \in Data
      BY <1>3, <3>1 DEF Data
    <3> QED BY <3>2 DEF y
  <2> QED BY <2>4, <2>5 DEF i
<1> HIDE DEF p, r, k, e, f, n
<1>6. w \in [Machines -> Seq(P)]
  <2>1. tell \in [Machines -> Seq(P)]
    <3>1. p.src \in Machines
      BY <1>3 DEF Data
    <3>2. wire[p.src] \in Seq(P)
      BY <3>1, InvFacts
    <3>3. Append(wire[p.src], e) \in Seq(P)
      BY <1>4, <3>2, AppendProperties
    <3> QED BY <3>1, <3>3, InvFacts
  <2> QED BY <2>1, InvFacts
<1> HIDE DEF w
<1>7. wire' \in [Machines -> Seq(P)]
  <2>1. CASE p.ttl > 1 /\ k \in On(n)
    <3>1. k \in Machines /\ f \in P /\ w[k] \in Seq(P)
      BY <1>5, <1>6, <2>1
    <3>2. Append(w[k], f) \in Seq(P)
      BY <3>1, AppendProperties
    <3> QED BY <1>2, <1>6, <2>1, <3>1, <3>2
  <2>2. CASE ~ (p.ttl > 1 /\ k \in On(n))
    BY <1>2, <1>6, <2>2
  <2> QED BY <2>1, <2>2
<1>8. IpIdle \in IpStates /\ IpIdle.held = 0
  BY DEF IpStates, IpIdle
<1>9. ip' \in [Machines -> IpStates] /\ ip'[m] = IpIdle /\ \A j \in Machines \ {m} : ip'[j] = ip[j]
  BY <1>1, <1>8, InvFacts
<1>10. IpTyped' /\ RipTyped'
  BY <1>1, <1>7, <1>9, InvFacts, IpTypedStep, RipTypedStep
<1>11. TablesOK'
  <2>1. TableOK(t, Buf, HoldOf(Buf, rip'[m].held, ip'[m].held))
    BY <1>1, <1>8, <1>9, IpFreeStep
  <2> HIDE DEF t
  <2> QED BY <1>1, <1>9, <2>1, TablesStep
<1> QED BY <1>1, <1>10, <1>11, StepKeeps DEF IInv

(* The destination of a redirect *)
LEMMA RedirectDstIs ==
    ASSUME NEW p \in Redir
    PROVE  RedirectDst(p) \in Destinations /\ RedirectDst(p).net \in Nets /\ p.gw \in Gateways
BY DEF RedirectDst, Redir, Address, Destinations

(* A redirect begins: the route in use is held. *)
LEMMA IcGetKeeps ==
    ASSUME IInv, NEW m \in Machines, IcGet(m)
    PROVE  IInv'
<1> DEFINE p == Head(wire[m])
           b == RtFind(rt[m], p.dst)
           c == IF rt[m].buf[b].gw = p.from THEN "delete" ELSE "free"
           s == [IpIdle EXCEPT !.pc = c, !.held = b, !.pkt = <<p>>]
           t == RtHold(rt[m], b)
<1>1. /\ m \in up /\ ip[m].pc = "idle" /\ wire[m] # <<>> /\ p.kind \in {"net", "host"}
      /\ wire' = [wire EXCEPT ![m] = Tail(wire[m])]
      /\ \/ UNCHANGED <<rt, ip>>
         \/ b # 0 /\ rt' = [rt EXCEPT ![m] = t] /\ ip' = [ip EXCEPT ![m] = s]
      /\ UNCHANGED <<load, up, inbox, rip, out, events>>
  BY DEF IcGet
<1>2. /\ Tail(wire[m]) \in Seq(Data \cup Redir) /\ p \in Redir /\ p.dst.net \in Nets
  BY <1>1, InvFacts, PacketIs
<1>3. b \in Buf \cup {0} /\ c \in {"delete", "free"}
  BY <1>2, InvFacts, FindFacts
<1> HIDE DEF b, p, c
<1>4. wire' \in [Machines -> Seq(Data \cup Redir)] /\ ip[m] = IpIdle
  BY <1>1, <1>2, InvFacts, IpStateIs
<1>5. RipTyped'
  BY <1>1, InvFacts, RipTypedStep
<1>6. CASE UNCHANGED <<rt, ip>>
  <2>1. IpTyped' /\ TablesOK'
    BY <1>1, <1>4, <1>6, InvFacts, IpTypedStep, TablesSame
  <2> QED BY <1>1, <1>5, <2>1, StepKeeps DEF IInv
<1>7. CASE b # 0 /\ rt' = [rt EXCEPT ![m] = t] /\ ip' = [ip EXCEPT ![m] = s]
  <2>1. b \in Buf /\ ip[m].held = 0 /\ IpIdle.held = 0
    BY <1>3, <1>4, <1>7 DEF IpIdle
  <2>2. s \in IpStates /\ s.held = b
    BY <1>2, <1>3, <2>1 DEF IpStates, IpIdle
  <2> HIDE DEF s
  <2>3. ip' \in [Machines -> IpStates] /\ ip'[m] = s /\ \A k \in Machines \ {m} : ip'[k] = ip[k]
    BY <1>7, <2>2, InvFacts
  <2>4. IpTyped'
    BY <1>1, <1>4, <2>3, IpTypedStep
  <2>5. TableOK(t, Buf, More(Hold(m), b))
    BY <2>1, InvFacts, HoldKeeps
  <2>6. HoldOf(Buf, rip'[m].held, ip'[m].held) = More(Hold(m), b)
    BY <1>1, <2>1, <2>2, <2>3, InvFacts, HoldFacts DEF Hold
  <2> HIDE DEF t
  <2>7. TablesOK'
    BY <1>1, <1>7, <2>3, <2>5, <2>6, TablesStep
  <2> QED BY <1>1, <1>5, <2>4, <2>7, StepKeeps DEF IInv
<1> QED BY <1>1, <1>6, <1>7

(* A step that changes the table and keeps what the IP process holds *)
LEMMA IpHeldStep ==
    ASSUME IInv, NEW m \in Machines, NEW t, TableOK(t, Buf, Hold(m)),
           NEW s \in IpStates, s.held = ip[m].held,
           rt' = [rt EXCEPT ![m] = t], ip' = [ip EXCEPT ![m] = s],
           UNCHANGED <<load, up, inbox, rip, wire>>
    PROVE  IInv'
<1>1. ip' \in [Machines -> IpStates] /\ \A k \in Machines : ip'[k].held = ip[k].held
  BY InvFacts
<1>2. RipTyped' /\ IpTyped'
  BY <1>1, InvFacts, RipTypedStep, IpTypedStep
<1>3. HoldOf(Buf, rip'[m].held, ip'[m].held) = Hold(m)
  BY <1>1 DEF Hold
<1>4. TablesOK'
  BY <1>1, <1>3, TablesStep
<1> QED BY <1>2, <1>4, StepKeeps DEF IInv

LEMMA IcDeleteKeeps ==
    ASSUME IInv, NEW m \in Machines, IcDelete(m)
    PROVE  IInv'
<1> DEFINE x == ip[m]
           p == x.pkt[1]
           r == rt[m].buf[x.held]
           d == RedirectDst(p)
           a == Route(d, p.gw, r.metric, r.ifn, IC_RDTTL)
           s == [x EXCEPT !.pc = "add", !.new = <<a>>]
           t == RtDel(rt[m], d)
<1>1. /\ m \in up /\ x.pc = "delete"
      /\ rt' = [rt EXCEPT ![m] = t]
      /\ ip' = [ip EXCEPT ![m] = s]
      /\ UNCHANGED <<load, up, inbox, rip, out, wire, events>>
  <2>1. ip' = [ip EXCEPT ![m].pc = "add", ![m].new = <<a>>]
    BY DEF IcDelete
  <2>2. ip' = [ip EXCEPT ![m] = s]
    BY <2>1, InvFacts
  <2> QED BY <2>2 DEF IcDelete
<1>2. x \in [pc : {"delete", "free"}, held : Buf, pkt : {<<q>> : q \in Redir}, new : {<<>>}]
  BY <1>1, InvFacts DEF IpStates, IpIdle
<1>3. p \in Redir /\ x.held \in Buf
  BY <1>1, InvFacts, IpStateIs
<1>4. d \in Destinations /\ d.net \in Nets /\ p.gw \in Gateways
  BY <1>3, RedirectDstIs
<1>5. r.metric \in Nat /\ r.ifn \in Nat /\ IC_RDTTL \in Int
  BY <1>3, InvFacts, RoutingConstants DEF Tables, RouteSet
<1> HIDE DEF p, r, d
<1>6. a \in One
  BY <1>4, <1>5, RouteMade DEF One
<1> HIDE DEF a
<1>7. s \in IpStates /\ s.held = x.held
  <2> HIDE DEF x
  <2>1. s \in [pc : {"add"}, held : Buf, pkt : {<<q>> : q \in Redir}, new : {<<c>> : c \in One}]
    BY <1>2, <1>6
  <2>2. s.held = x.held
    BY <1>2
  <2> QED BY <2>1, <2>2 DEF IpStates
<1>8. TableOK(t, Buf, Hold(m))
  BY <1>4, InvFacts, DelKeeps
<1> HIDE DEF s, t
<1> QED BY <1>1, <1>7, <1>8, IpHeldStep

LEMMA IcAddKeeps ==
    ASSUME IInv, NEW m \in Machines, IcAdd(m)
    PROVE  IInv'
<1> DEFINE x == ip[m]
           a == x.new[1]
           s == [x EXCEPT !.pc = "free", !.new = <<>>]
           t == RtAdd(rt[m], a, IsGateway(m)).t
<1>1. /\ m \in up /\ x.pc = "add" /\ FreeBufs(rt[m]) # {}
      /\ rt' = [rt EXCEPT ![m] = t]
      /\ ip' = [ip EXCEPT ![m] = s]
      /\ UNCHANGED <<load, up, inbox, rip, wire, events>>
  <2>1. ip' = [ip EXCEPT ![m].pc = "free", ![m].new = <<>>]
    BY DEF IcAdd
  <2>2. ip' = [ip EXCEPT ![m] = s]
    BY <2>1, InvFacts
  <2> QED BY <2>2 DEF IcAdd
<1>2. x \in [pc : {"add"}, held : Buf, pkt : {<<q>> : q \in Redir}, new : {<<r>> : r \in One}]
  <2>1. x \in IpStates
    BY InvFacts
  <2> HIDE DEF x
  <2> QED BY <1>1, <2>1, SMTT(30) DEF IpStates, IpIdle
<1>3. a \in RouteSet /\ a.ref = 1
  BY <1>1, InvFacts, IpStateIs DEF One
<1>4. s \in IpStates /\ s.held = x.held
  <2> HIDE DEF x
  <2>1. s \in [pc : {"delete", "free"}, held : Buf, pkt : {<<q>> : q \in Redir}, new : {<<>>}]
    BY <1>2
  <2>2. s.held = x.held
    BY <1>2
  <2> QED BY <2>1, <2>2 DEF IpStates
<1>5. TableOK(t, Buf, Hold(m))
  <2>1. IsGateway(m) \in BOOLEAN
    BY DEF IsGateway
  <2> HIDE DEF a
  <2> QED BY <1>1, <1>3, <2>1, InvFacts, AddKeeps
<1> HIDE DEF s, t
<1> QED BY <1>1, <1>4, <1>5, IpHeldStep

LEMMA IcFreeKeeps ==
    ASSUME IInv, NEW m \in Machines, IcFree(m)
    PROVE  IInv'
<1> DEFINE t == RtFree(rt[m], ip[m].held)
<1>1. /\ m \in up /\ ip[m].pc = "free"
      /\ rt' = [rt EXCEPT ![m] = t] /\ ip' = [ip EXCEPT ![m] = IpIdle]
      /\ UNCHANGED <<load, up, inbox, rip, out, wire, events>>
  BY DEF IcFree
<1>2. IpIdle \in IpStates /\ IpIdle.held = 0
  BY DEF IpStates, IpIdle
<1>3. ip' \in [Machines -> IpStates] /\ ip'[m] = IpIdle /\ \A j \in Machines \ {m} : ip'[j] = ip[j]
  BY <1>1, <1>2, InvFacts
<1>4. IpTyped' /\ RipTyped'
  BY <1>1, <1>3, InvFacts, IpTypedStep, RipTypedStep
<1>5. TableOK(t, Buf, HoldOf(Buf, rip'[m].held, ip'[m].held))
  BY <1>1, <1>2, <1>3, IpFreeStep
<1> HIDE DEF t
<1>6. TablesOK'
  BY <1>1, <1>3, <1>5, TablesStep
<1> QED BY <1>1, <1>4, <1>6, StepKeeps DEF IInv

LEMMA SendPacketKeeps ==
    ASSUME IInv, SendPacket
    PROVE  IInv'
<1>1. UNCHANGED <<load, up, rt, inbox, rip, out, ip>>
  BY DEF SendPacket
<1>2. PICK p \in load.packets :
         wire' = [wire EXCEPT ![p.src] = Append(wire[p.src],
                    [kind |-> "data", src |-> p.src, dst |-> p.dst, ttl |-> IP_TTL, ifn |-> 0])]
  BY DEF SendPacket
<1>3. p.src \in Machines /\ p.dst \in Address
  BY LoadsAssumption DEF IInv, Address
<1>4. [kind |-> "data", src |-> p.src, dst |-> p.dst, ttl |-> IP_TTL, ifn |-> 0] \in Data
  BY <1>3, RoutingConstants DEF Data
<1>5. wire' \in [Machines -> Seq(Data \cup Redir)]
  <2> DEFINE q == [kind |-> "data", src |-> p.src, dst |-> p.dst, ttl |-> IP_TTL, ifn |-> 0]
  <2>1. q \in Data \cup Redir /\ wire[p.src] \in Seq(Data \cup Redir)
    BY <1>3, <1>4, InvFacts
  <2> HIDE DEF q
  <2>2. Append(wire[p.src], q) \in Seq(Data \cup Redir)
    BY <2>1, AppendProperties
  <2>3. wire \in [Machines -> Seq(Data \cup Redir)]
    BY <1>3, InvFacts
  <2>4. wire' = [wire EXCEPT ![p.src] = Append(wire[p.src], q)]
    BY <1>2 DEF q
  <2> QED BY <1>3, <2>2, <2>3, <2>4
<1>6. IpTyped'
  BY <1>1, <1>3, <1>5, InvFacts, IpTypedStep
<1>7. RipTyped' /\ TablesOK'
  BY <1>1, <1>3, InvFacts, RipTypedStep, TablesSame
<1> QED BY <1>1, <1>6, <1>7, StepKeeps DEF IInv

(* The queues alone change. *)
LEMMA InboxStep ==
    ASSUME IInv, NEW m \in DOMAIN load.attach, NEW q, Queue(m, q), inbox' = [inbox EXCEPT ![m] = q],
           UNCHANGED <<load, up, rt, rip, out, wire, ip>>
    PROVE  IInv'
<1>1. m \in Machines /\ load \in Loads
  BY AttachIs DEF IInv
<1>2. inbox' = [k \in Machines |-> inbox'[k]] /\ \A k \in Machines : Queue(k, inbox'[k])
  BY <1>1, InvFacts
<1>3. RipTyped'
  BY <1>1, <1>2, InvFacts, RipTypedStep
<1>4. IpTyped' /\ TablesOK'
  BY <1>1, InvFacts, IpTypedStep, TablesSame
<1> QED BY <1>3, <1>4, StepKeeps DEF IInv

LEMMA PeerUpdateKeeps ==
    ASSUME IInv, PeerUpdate
    PROVE  IInv'
<1>1. UNCHANGED <<load, up, rt, rip, out, wire, ip>>
  BY DEF PeerUpdate
<1>2. PICK m \in up, g \in Peers, es \in load.updates :
         inbox' = [inbox EXCEPT ![m] =
                     Queued(inbox[m], [cmd |-> "response", gw |-> g, entries |-> es])]
  BY DEF PeerUpdate
<1> DEFINE msg == [cmd |-> "response", gw |-> g, entries |-> es]
<1>3. m \in DOMAIN load.attach /\ m \in Machines /\ load \in Loads
  BY AttachIs DEF IInv
<1>4. msg \in Message /\ Reaches(msg.gw, m)
  BY <1>3, LoadsAssumption DEF Message, Entry, Reaches
<1> HIDE DEF msg
<1>5. Queue(m, inbox[m])
  BY <1>3, InvFacts
<1>6. Queue(m, Queued(inbox[m], msg))
  BY <1>4, <1>5, QueuedKeeps
<1>7. inbox' = [inbox EXCEPT ![m] = Queued(inbox[m], msg)]
  BY <1>2 DEF msg
<1> QED BY <1>1, <1>3, <1>6, <1>7, InboxStep

LEMMA LoseUpdateKeeps ==
    ASSUME IInv, LoseUpdate
    PROVE  IInv'
<1>1. UNCHANGED <<load, up, rt, rip, out, wire, ip>>
  BY DEF LoseUpdate
<1>2. PICK m \in up : inbox[m] # <<>> /\ inbox' = [inbox EXCEPT ![m] = Tail(inbox[m])]
  BY DEF LoseUpdate
<1>3. m \in DOMAIN load.attach /\ m \in Machines
  BY AttachIs DEF IInv
<1>4. Queue(m, Tail(inbox[m]))
  BY <1>2, <1>3, InvFacts, TailQueue
<1> QED BY <1>1, <1>2, <1>3, <1>4, InboxStep

LEMMA EmptyQueue ==
    ASSUME NEW k
    PROVE  Queue(k, <<>>)
<1>1. <<>> \in Seq(Message) /\ Len(<<>>) = 0
  BY EmptySeq
<1> QED BY <1>1 DEF Queue

LEMMA CrashKeeps ==
    ASSUME IInv, Crash
    PROVE  IInv'
<1>1. PICK m \in load.frail \cap up :
         /\ up' = up \ {m}
         /\ rt' = [rt EXCEPT ![m] = FirstTable(m)]
         /\ inbox' = [inbox EXCEPT ![m] = <<>>]
         /\ rip' = [rip EXCEPT ![m] = RipIdle]
         /\ wire' = [wire EXCEPT ![m] = <<>>]
         /\ ip' = [ip EXCEPT ![m] = IpIdle]
         /\ load' = load
  BY DEF Crash
<1>2. m \in DOMAIN load.attach /\ m \in Machines /\ load \in Loads
  BY AttachIs DEF IInv
<1>3. RipIdle \in RipStates /\ RipIdle.held = 0 /\ IpIdle \in IpStates /\ IpIdle.held = 0
  BY DEF RipStates, IpStates, RipIdle, IpIdle
<1>4. /\ rip' \in [Machines -> RipStates] /\ rip'[m].held = 0
      /\ ip' \in [Machines -> IpStates] /\ ip'[m].held = 0
      /\ \A k \in Machines \ {m} : rip'[k].held = rip[k].held /\ ip'[k].held = ip[k].held
  BY <1>1, <1>2, <1>3, InvFacts
<1>5. RipTyped'
  <2>1. inbox' = [k \in Machines |-> inbox'[k]] /\ \A k \in Machines : Queue(k, inbox'[k])
    BY <1>1, <1>2, InvFacts, EmptyQueue
  <2> QED BY <1>1, <1>2, <1>4, <2>1, RipTypedStep
<1>6. IpTyped'
  <2>1. wire' \in [Machines -> Seq(Data \cup Redir)]
    <3>1. <<>> \in Seq(Data \cup Redir)
      BY EmptySeq
    <3> QED BY <1>1, <1>2, <3>1, InvFacts
  <2> QED BY <1>1, <1>4, <2>1, IpTypedStep
<1>7. TablesOK'
  <2>1. TableOK(FirstTable(m), Buf, HoldOf(Buf, rip'[m].held, ip'[m].held))
    BY <1>2, <1>4, FirstOK, HoldFacts, BufIs
  <2> QED BY <1>1, <1>2, <1>4, <2>1, TablesStep
<1> QED BY <1>1, <1>5, <1>6, <1>7, StepKeeps DEF IInv

LEMMA RestartKeeps ==
    ASSUME IInv, Restart
    PROVE  IInv'
<1>1. PICK m \in load.frail \ up : up' = up \cup {m} /\ UNCHANGED <<load, rt, inbox, rip, wire, ip>>
  BY DEF Restart
<1>2. m \in DOMAIN load.attach /\ m \in Machines /\ load \in Loads
  BY LoadsAssumption DEF IInv
<1>3. IpTyped' /\ RipTyped' /\ TablesOK'
  BY <1>1, <1>2, InvFacts, IpTypedStep, RipTypedStep, TablesSame
<1>4. up' \subseteq DOMAIN load.attach
  BY <1>1, <1>2 DEF IInv
<1> QED BY <1>1, <1>3, <1>4, StepKeeps

LEMMA InitHolds ==
    RoutingInit => IInv
<1> SUFFICES ASSUME RoutingInit PROVE IInv
  OBVIOUS
<1> USE DEF RoutingInit
<1>1. load \in Loads /\ up \subseteq DOMAIN load.attach
  OBVIOUS
<1>2. /\ RipIdle \in RipStates /\ RipIdle.held = 0 /\ IpIdle \in IpStates /\ IpIdle.held = 0
  BY DEF RipStates, IpStates, RipIdle, IpIdle
<1>3. RipTyped
  <2>1. <<>> \in Seq(Message) /\ Len(<<>>) = 0
    BY EmptySeq
  <2>2. \A m \in DOMAIN load.attach : m \in Machines
    BY <1>1, AttachIs
  <2>3. rip \in [Machines -> RipStates] /\ inbox \in [Machines -> Seq(Message)]
    BY <1>2, <2>1
  <2>4. \A m \in DOMAIN load.attach : inbox[m] = <<>>
    BY <2>2
  <2>5. \A m \in DOMAIN load.attach : \A i \in 1..Len(inbox[m]) : Reaches(inbox[m][i].gw, m)
    BY <2>1, <2>4
  <2> QED BY <2>3, <2>5 DEF RipTyped
<1>4. IpTyped
  <2>1. <<>> \in Seq(Data \cup Redir)
    BY EmptySeq
  <2> QED BY <1>2, <2>1 DEF IpTyped
<1>5. ASSUME NEW m \in Machines PROVE TableOK(rt[m], Buf, Hold(m))
  <2>1. Hold(m) = Zero(Buf)
    BY <1>1, <1>2, HoldFacts, BufIs DEF Hold
  <2>2. CASE m \in DOMAIN load.attach
    BY <1>1, <2>1, <2>2, FirstOK
  <2>3. CASE m \notin DOMAIN load.attach
    BY <1>1, <2>1, <2>3, EmptyOK
  <2> QED BY <2>2, <2>3
<1>6. TablesOK
  <2>1. \A m \in Machines : rt[m] \in Tables(Buf)
    BY <1>5 DEF TableOK
  <2>2. rt = [m \in Machines |-> rt[m]]
    OBVIOUS
  <2> QED BY <1>5, <2>1, <2>2 DEF TablesOK
<1> QED BY <1>1, <1>3, <1>4, <1>6 DEF IInv

LEMMA NextKeeps ==
    IInv /\ [RoutingNext]_routingVars => IInv'
<1> SUFFICES ASSUME IInv, [RoutingNext]_routingVars PROVE IInv'
  OBVIOUS
<1>1. ASSUME NEW m \in Machines, RipOut(m) \/ RipStep(m) \/ IpStep(m) PROVE IInv'
  BY <1>1, RipOutKeeps, RipRecvKeeps, RipLockKeeps, RipAddKeeps, IpRouteKeeps, IpForwardKeeps,
     IcGetKeeps, IcDeleteKeeps, IcAddKeeps, IcFreeKeeps DEF RipStep, IpStep, IcStep
<1>2. CASE Tick
  BY <1>2, TickKeeps
<1>3. CASE SendPacket \/ PeerUpdate \/ LoseUpdate
  BY <1>3, SendPacketKeeps, PeerUpdateKeeps, LoseUpdateKeeps
<1>4. CASE Crash \/ Restart
  BY <1>4, CrashKeeps, RestartKeeps
<1>5. CASE UNCHANGED routingVars
  <2>1. UNCHANGED <<load, up, rt, inbox, rip, wire, ip>>
    BY <1>5 DEF routingVars
  <2>2. RipTyped' /\ IpTyped'
    BY <2>1, Same DEF IInv, RipTyped, IpTyped, Reaches, Attach
  <2>3. TablesOK'
    BY <2>1, TablesSame
  <2> QED BY <2>1, <2>2, <2>3, StepKeeps DEF IInv
<1> QED BY <1>1, <1>2, <1>3, <1>4, <1>5 DEF RoutingNext, MachineStep

(* A buffer of the table is in one bucket or the default route, and only once. *)
LEMMA CountedOnce ==
    ASSUME NEW B, Buffers(B), NEW H \in Holds(B), NEW t, TableOK(t, B, H), NEW b \in B
    PROVE  In(t, b) = Cardinality({n \in Nets : b \in Range(t.chain[n])})
                        + (IF t.dflt = b THEN 1 ELSE 0)
<1> DEFINE S == {n \in Nets : b \in Range(t.chain[n])}
<1>1. \A n \in Nets : b \in Range(t.chain[n]) <=> (b \in Linked(t) /\ t.buf[b].dst.net = n)
  <2> SUFFICES ASSUME NEW n \in Nets
               PROVE  b \in Range(t.chain[n]) <=> (b \in Linked(t) /\ t.buf[b].dst.net = n)
    OBVIOUS
  <2>1. b \in Range(t.chain[n]) <=> \E i \in 1..Len(t.chain[n]) : t.chain[n][i] = b
    <3>1. DOMAIN t.chain[n] = 1..Len(t.chain[n])
      BY TableFacts
    <3> QED BY <3>1 DEF Range
  <2> QED BY <2>1, BucketOf
<1>2. b \in Linked(t) => t.buf[b].dst.net \in Nets /\ b # t.dflt
  BY TableFacts
<1>3. CASE b \in Linked(t)
  <2>1. S = {t.buf[b].dst.net}
    BY <1>1, <1>2, <1>3
  <2> HIDE DEF S
  <2>2. Cardinality(S) = 1
    BY <2>1, FS_Singleton
  <2> QED BY <1>2, <1>3, <2>2 DEF In, S
<1>4. CASE b \notin Linked(t)
  <2>1. S = {}
    BY <1>1, <1>4
  <2> HIDE DEF S
  <2>2. Cardinality(S) = 0
    BY <2>1, FS_EmptySet
  <2> QED BY <1>4, <2>2 DEF In, S
<1> QED BY <1>3, <1>4

LEMMA CountedFollows ==
    IInv => RoutesCounted
<1> SUFFICES ASSUME IInv, NEW m \in Machines
             PROVE  /\ \A b \in 1..load.bufs : rt[m].buf[b].ref = Uses(m, b)
                    /\ \A n \in Nets : Sorted(rt[m], rt[m].chain[n])
  BY DEF RoutesCounted
<1> DEFINE t == rt[m]
           one(c) == IF c THEN 1 ELSE 0
<1>1. TableOK(t, Buf, Hold(m)) /\ Buffers(Buf) /\ Hold(m) \in Holds(Buf)
  BY InvFacts
<1>2. ASSUME NEW b \in Buf PROVE t.buf[b].ref = Uses(m, b)
  <2>1. t.buf[b].ref = In(t, b) + Hold(m)[b]
    BY <1>1, TableFacts
  <2>2. Hold(m)[b] = one(rip[m].held = b) + one(ip[m].held = b)
    BY DEF Hold, HoldOf
  <2>3. In(t, b) = Cardinality({n \in Nets : b \in Range(t.chain[n])}) + one(t.dflt = b)
    BY <1>1, CountedOnce
  <2>4. Cardinality({n \in Nets : b \in Range(t.chain[n])}) \in Nat
    <3>1. IsFiniteSet({n \in Nets : b \in Range(t.chain[n])})
      BY FS_Subset, RoutingConstants
    <3> QED BY <3>1, FS_CardinalityType
  <2> DEFINE x == Cardinality({n \in Nets : b \in Range(t.chain[n])})
             i == one(rip[m].held = b)
             j == one(ip[m].held = b)
             k == one(t.dflt = b)
  <2>5. Uses(m, b) = x + k + i + j
    BY DEF Uses
  <2>6. i \in Nat /\ j \in Nat /\ k \in Nat /\ x \in Nat
    BY <2>4
  <2>7. t.buf[b].ref = (x + k) + (i + j)
    BY <2>1, <2>2, <2>3
  <2> HIDE DEF x, i, j, k
  <2> QED BY <2>5, <2>6, <2>7
<1>3. \A n \in Nets : Sorted(t, t.chain[n])
  BY <1>1 DEF TableOK
<1> QED BY <1>2, <1>3 DEF Buf

-----------------------------------------------------------------------------
(***************************************************************************)
(* The count of every route buffer is the number of its users, at every    *)
(* moment and on every machine: rtadd, rtdel, rtget, rtfree and rttimer     *)
(* neither lose a buffer nor give back one that is in use, whatever else    *)
(* happens between them; and the buckets stay sorted for rtget.             *)
(***************************************************************************)
THEOREM RoutesAreCounted == RoutingSpec => []RoutesCounted
<1>1. RoutingInit => IInv
  BY InitHolds
<1>2. IInv /\ [RoutingNext]_routingVars => IInv'
  BY NextKeeps
<1>3. IInv => RoutesCounted
  BY CountedFollows
<1> QED BY <1>1, <1>2, <1>3, PTL DEF RoutingSpec

===============================================================================
