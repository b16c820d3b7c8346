------------------------------- MODULE MbcProofs -------------------------------
(***************************************************************************)
(* For every size of the shared memory and whatever the printer asks for,   *)
(* while no interrupt comes between the two halves of DeliverPacket: the    *)
(* printer receives the buffers in order (PrintedInOrder); and as long as   *)
(* the list of the interrupts is not full, every packet is in one place and *)
(* nothing is left to be done when MBC waits (MailAccounted).               *)
(***************************************************************************)
EXTENDS Mbc, SequenceTheorems, FiniteSetTheorems, FunctionTheorems,
        WellFoundedInduction, TLAPS

-----------------------------------------------------------------------------
(* Numbers *)

(* What holds of 0 and of the number after each of which it holds, holds of  *)
(* every number: T is the set of those of which it holds.                    *)
LEMMA AllNumbers ==
    ASSUME NEW T, 0 \in T, \A k \in Nat : k \in T => k + 1 \in T
    PROVE  \A k \in Nat : k \in T
<1> DEFINE Out == {k \in Nat : k \notin T}
           Less == OpToRel(<, Nat)
<1>1. ASSUME Out # {} PROVE FALSE
  <2>1. IsWellFoundedOn(Less, Nat)
    BY NatLessThanWellFounded
  <2>2. \A x, y \in Nat : y < x => <<y, x>> \in Less
    BY DEF OpToRel
  <2> HIDE DEF Less
  <2>3. PICK k \in Out : \A j \in Out : ~ (<<j, k>> \in Less)
    BY <1>1, <2>1, WFMin
  <2>4. k # 0 /\ k \in Nat
    BY <2>3
  <2>5. k - 1 \in Nat /\ (k - 1) + 1 = k /\ k - 1 < k
    BY <2>4
  <2>6. k - 1 \notin Out
    BY <2>2, <2>3, <2>4, <2>5
  <2>7. k - 1 \in T
    BY <2>5, <2>6
  <2> QED BY <2>3, <2>5, <2>7
<1> QED BY <1>1

-----------------------------------------------------------------------------
(* Counting *)

Hits(s, T) == {i \in DOMAIN s : s[i] \in T}

LEMMA HitsFinite ==
    ASSUME NEW S, NEW s \in Seq(S), NEW T
    PROVE  IsFiniteSet(Hits(s, T)) /\ Cardinality(Hits(s, T)) \in Nat
<1>1. Len(s) \in Nat /\ DOMAIN s = 1..Len(s)
  BY LenProperties
<1>2. IsFiniteSet(1..Len(s))
  BY <1>1, FS_Interval
<1>3. Hits(s, T) \in SUBSET (1..Len(s))
  BY <1>1 DEF Hits
<1> QED BY <1>2, <1>3, FS_Subset, FS_CardinalityType

LEMMA HitsEmpty ==
    ASSUME NEW T
    PROVE  Cardinality(Hits(<<>>, T)) = 0
<1>1. Hits(<<>>, T) = {}
  BY DEF Hits
<1> QED BY <1>1, FS_EmptySet

LEMMA HitsAppend ==
    ASSUME NEW S, NEW s \in Seq(S), NEW x \in S, NEW T
    PROVE  Cardinality(Hits(Append(s, x), T)) = Cardinality(Hits(s, T)) + Bit01(x \in T)
<1> DEFINE n == Len(s)
           t == Append(s, x)
<1>1. /\ n \in Nat /\ DOMAIN s = 1..n /\ DOMAIN t = 1..n + 1
      /\ \A i \in 1..n : t[i] = s[i]
      /\ t[n + 1] = x
  BY AppendProperties, LenProperties
<1> HIDE DEF t, n
<1>2. Hits(t, T) = IF x \in T THEN Hits(s, T) \cup {n + 1} ELSE Hits(s, T)
  <2>1. \A i : i \in Hits(t, T) <=> (i \in Hits(s, T) \/ (i = n + 1 /\ x \in T))
    <3>1. \A i : i \in 1..n + 1 <=> i \in 1..n \/ i = n + 1
      BY <1>1
    <3>2. n + 1 \notin 1..n
      BY <1>1
    <3> QED BY <1>1, <3>1, <3>2 DEF Hits
  <2> QED BY <2>1
<1>3. n + 1 \notin Hits(s, T)
  BY <1>1 DEF Hits
<1>4. IsFiniteSet(Hits(s, T)) /\ Cardinality(Hits(s, T)) \in Nat
  BY HitsFinite
<1>5. CASE x \in T
  BY <1>2, <1>3, <1>4, <1>5, FS_AddElement DEF Bit01, t
<1>6. CASE x \notin T
  BY <1>2, <1>4, <1>6 DEF Bit01, t
<1> QED BY <1>5, <1>6

LEMMA HitsTail ==
    ASSUME NEW S, NEW s \in Seq(S), s # <<>>, NEW T
    PROVE  Cardinality(Hits(s, T)) = Cardinality(Hits(Tail(s), T)) + Bit01(Head(s) \in T)
<1> DEFINE t == Tail(s)
           f == [i \in Hits(t, T) |-> i + 1]
<1>1. /\ Len(s) \in Nat \ {0} /\ DOMAIN s = 1..Len(s)
      /\ t \in Seq(S) /\ Len(t) = Len(s) - 1 /\ DOMAIN t = 1..Len(s) - 1
      /\ \A i \in 1..Len(s) - 1 : t[i] = s[i + 1]
      /\ Head(s) = s[1]
  BY EmptySeq, LenProperties, HeadTailProperties
<1> HIDE DEF t
<1>2. IsFiniteSet(Hits(s, T)) /\ Cardinality(Hits(s, T)) \in Nat
  BY HitsFinite
<1>3. IsFiniteSet(Hits(t, T)) /\ Cardinality(Hits(t, T)) \in Nat
  BY <1>1, HitsFinite
<1>4. f \in Bijection(Hits(t, T), Hits(s, T) \ {1})
  <2>1. \A i \in Hits(t, T) : i + 1 \in Hits(s, T) \ {1} /\ i \in Nat
    BY <1>1 DEF Hits
  <2>2. \A j \in Hits(s, T) \ {1} : j - 1 \in Hits(t, T) /\ f[j - 1] = j
    <3> SUFFICES ASSUME NEW j \in Hits(s, T) \ {1}
                 PROVE  j - 1 \in Hits(t, T) /\ f[j - 1] = j
      OBVIOUS
    <3>1. j \in 1..Len(s) /\ j # 1 /\ s[j] \in T
      BY <1>1 DEF Hits
    <3>2. j - 1 \in 1..Len(s) - 1 /\ (j - 1) + 1 = j
      BY <1>1, <3>1
    <3>3. t[j - 1] = s[j]
      BY <1>1, <3>2
    <3>4. j - 1 \in Hits(t, T)
      BY <1>1, <3>1, <3>2, <3>3 DEF Hits
    <3> QED BY <3>2, <3>4
  <2>3. \A i, j \in Hits(t, T) : f[i] = f[j] => i = j
    BY <2>1
  <2>4. f \in [Hits(t, T) -> Hits(s, T) \ {1}]
    BY <2>1
  <2>5. \A j \in Hits(s, T) \ {1} : \E i \in Hits(t, T) : f[i] = j
    BY <2>2
  <2> HIDE DEF f
  <2> QED BY <2>3, <2>4, <2>5, Fun_IsBij
<1>5. Cardinality(Hits(t, T)) = Cardinality(Hits(s, T) \ {1})
  <2>1. ExistsBijection(Hits(t, T), Hits(s, T) \ {1})
    BY <1>4 DEF ExistsBijection
  <2> QED BY <1>3, <2>1, FS_Bijection
<1>6. 1 \in Hits(s, T) <=> Head(s) \in T
  BY <1>1 DEF Hits
<1>7. Cardinality(Hits(s, T) \ {1})
        = IF 1 \in Hits(s, T) THEN Cardinality(Hits(s, T)) - 1 ELSE Cardinality(Hits(s, T))
  BY <1>2, FS_RemoveElement
<1>8. CASE Head(s) \in T
  BY <1>2, <1>5, <1>6, <1>7, <1>8 DEF Bit01, t
<1>9. CASE Head(s) \notin T
  BY <1>2, <1>5, <1>6, <1>7, <1>9 DEF Bit01, t
<1> QED BY <1>8, <1>9

LEMMA HitsConcat ==
    ASSUME NEW S, NEW s \in Seq(S), NEW t \in Seq(S), NEW T
    PROVE  Cardinality(Hits(s \o t, T)) = Cardinality(Hits(s, T)) + Cardinality(Hits(t, T))
<1> DEFINE n == Len(s)
           u == s \o t
           B == {i \in Hits(u, T) : i > n}
           f == [i \in Hits(t, T) |-> i + n]
<1>1. /\ n \in Nat /\ Len(t) \in Nat /\ DOMAIN s = 1..n /\ DOMAIN t = 1..Len(t)
      /\ u \in Seq(S) /\ DOMAIN u = 1..n + Len(t)
      /\ \A i \in 1..n + Len(t) : u[i] = IF i <= n THEN s[i] ELSE t[i - n]
  BY ConcatProperties, LenProperties
<1> HIDE DEF n, u
<1>2. /\ IsFiniteSet(Hits(s, T)) /\ Cardinality(Hits(s, T)) \in Nat
      /\ IsFiniteSet(Hits(t, T)) /\ Cardinality(Hits(t, T)) \in Nat
      /\ IsFiniteSet(Hits(u, T)) /\ Cardinality(Hits(u, T)) \in Nat
  BY <1>1, HitsFinite
<1>3. f \in Bijection(Hits(t, T), B)
  <2>1. \A i \in Hits(t, T) : i + n \in B /\ i \in Nat
    <3> SUFFICES ASSUME NEW i \in Hits(t, T) PROVE i + n \in B /\ i \in Nat
      OBVIOUS
    <3>1. i \in 1..Len(t) /\ t[i] \in T
      BY <1>1 DEF Hits
    <3>2. i + n \in 1..n + Len(t) /\ ~ (i + n <= n) /\ (i + n) - n = i /\ i + n > n
      BY <1>1, <3>1
    <3>3. u[i + n] = t[i]
      BY <1>1, <3>2
    <3> QED BY <1>1, <3>1, <3>2, <3>3 DEF Hits
  <2>2. \A j \in B : j - n \in Hits(t, T) /\ f[j - n] = j
    <3> SUFFICES ASSUME NEW j \in B PROVE j - n \in Hits(t, T) /\ f[j - n] = j
      OBVIOUS
    <3>1. j \in 1..n + Len(t) /\ j > n /\ u[j] \in T
      BY <1>1 DEF Hits
    <3>2. j - n \in 1..Len(t) /\ (j - n) + n = j /\ u[j] = t[j - n]
      BY <1>1, <3>1
    <3>3. j - n \in Hits(t, T)
      BY <1>1, <3>1, <3>2 DEF Hits
    <3> QED BY <3>2, <3>3
  <2>3. \A i, j \in Hits(t, T) : f[i] = f[j] => i = j
    BY <1>1, <2>1
  <2>4. f \in [Hits(t, T) -> B]
    BY <2>1
  <2>5. \A j \in B : \E i \in Hits(t, T) : f[i] = j
    BY <2>2
  <2> HIDE DEF f, B
  <2> QED BY <2>3, <2>4, <2>5, Fun_IsBij
<1>4. Cardinality(Hits(t, T)) = Cardinality(B) /\ IsFiniteSet(B)
  <2>1. ExistsBijection(Hits(t, T), B)
    BY <1>3 DEF ExistsBijection
  <2> HIDE DEF B
  <2> QED BY <1>2, <2>1, FS_Bijection
<1>5. Hits(u, T) = Hits(s, T) \cup B /\ Hits(s, T) \cap B = {}
  <2>1. \A i \in 1..n : i \in 1..n + Len(t) /\ i <= n /\ u[i] = s[i] /\ ~ (i > n)
    BY <1>1
  <2>2. \A i \in 1..n + Len(t) : ~ (i > n) => i \in 1..n
    BY <1>1
  <2>3. \A i : i \in Hits(s, T) <=> i \in Hits(u, T) /\ ~ (i > n)
    BY <1>1, <2>1, <2>2 DEF Hits
  <2> QED BY <2>3
<1> HIDE DEF B
<1>6. Cardinality(Hits(s, T) \cup B) = Cardinality(Hits(s, T)) + Cardinality(B)
  <2>1. Cardinality(Hits(s, T) \cap B) = 0
    BY <1>5, FS_EmptySet
  <2>2. Cardinality(Hits(s, T) \cup B)
          = Cardinality(Hits(s, T)) + Cardinality(B) - Cardinality(Hits(s, T) \cap B)
    BY <1>2, <1>4, FS_Union
  <2> QED BY <1>2, <1>4, <2>1, <2>2
<1> QED BY <1>4, <1>5, <1>6 DEF u

-----------------------------------------------------------------------------
(* The packets that are negotiated *)

R == Layout.reads
W == Layout.writes
N == R + W + 3

LEMMA Multiples ==
    /\ \A k, c \in Nat : (k + 1) * c = k * c + c
    /\ \A k, c \in Nat : k * c \in Nat
    /\ \A c \in Nat : 0 * c = 0
OBVIOUS

LEMMA Rounded ==
    ASSUME NEW x \in Nat, NEW d \in Nat \ {0}
    PROVE  x \div d \in Nat /\ (x \div d) * d <= x
OBVIOUS

(* The sizes leave room: rounding is downwards, and the packet that is added  *)
(* fits into the rest.                                                       *)
LEMMA NegotiatedFits ==
    ASSUME NEW l \in MbcLoads
    PROVE  LET n == Negotiated(l.config)
           IN /\ n.reads \in Nat /\ n.reads >= 2 /\ n.writes \in Nat
              /\ n.io \in Nat /\ n.pr \in Nat
              /\ MAILBOXES + (4 + n.reads + n.writes) * HEADER + n.reads * SIZE_READ_PACK
                   + n.writes * SIZE_WRITE_PACK + 2 * n.io + n.pr <= MAX_SHARE_MEM
<1> DEFINE config == l.config
           pz == AtLeast(config[1], MIN_PRGP_SIZE)
           iz == AtLeast(config[2], MIN_IOGP_SIZE)
           mix == AtLeast(config[3], PERCENT_READ)
           a == MAX_SHARE_MEM - 2 * (pz + HEADER) - 2 * (iz + HEADER) - MAILBOXES
           rs == SIZE_READ_PACK + HEADER
           ws == SIZE_WRITE_PACK + HEADER
           r == (a * mix) \div (rs * 100)
           w == (a * (100 - mix)) \div (ws * 100)
           rest == a - r * rs - w * ws
           more == mix > 50 /\ rest > rs
           n == Negotiated(config)
<1>1. /\ MAX_SHARE_MEM \in Nat /\ HEADER \in Nat /\ MAILBOXES \in Nat
      /\ SIZE_READ_PACK \in Nat \ {0} /\ SIZE_WRITE_PACK \in Nat \ {0}
      /\ MIN_PRGP_SIZE \in Nat /\ MIN_IOGP_SIZE \in Nat /\ PERCENT_READ \in 0..100
      /\ config[1] \in Nat /\ config[2] \in Nat /\ config[3] \in 0..100
  BY MbcAssumption
<1>2. /\ pz \in Nat /\ iz \in Nat /\ mix \in 0..100 /\ a \in Int
      /\ rs \in Nat \ {0} /\ ws \in Nat \ {0}
  BY <1>1 DEF AtLeast
<1>3. n = [reads |-> IF more THEN r + 1 ELSE r, writes |-> w, io |-> iz, pr |-> pz]
  BY DEF Negotiated
<1>4. n.reads >= 2
  BY MbcAssumption
<1> HIDE DEF config, pz, iz, mix, n
<1>5. a >= 0
  <2>1. CASE a < 0
    <3>1. a * mix <= 0 /\ a * mix \in Int
      BY <1>2, <2>1
    <3>2. rs * 100 > 0 /\ rs * 100 \in Int
      BY <1>2
    <3>3. r <= 0
      BY <3>1, <3>2
    <3> QED BY <1>2, <1>3, <1>4, <3>3
  <2> QED BY <1>2, <2>1
<1>6. /\ r \in Nat /\ w \in Nat
      /\ r * (rs * 100) <= a * mix /\ w * (ws * 100) <= a * (100 - mix)
  <2>1. a * mix \in Nat /\ a * (100 - mix) \in Nat /\ rs * 100 \in Nat \ {0} /\ ws * 100 \in Nat \ {0}
    BY <1>2, <1>5
  <2> HIDE DEF a, rs, ws
  <2> QED BY <2>1, Rounded
<1> HIDE DEF r, w
<1>7. r * rs + w * ws <= a
  <2>1. /\ r * (rs * 100) = (r * rs) * 100 /\ w * (ws * 100) = (w * ws) * 100
        /\ a * (100 - mix) = a * 100 - a * mix
    BY <1>2, <1>6
  <2>2. r * rs \in Nat /\ w * ws \in Nat /\ a * mix \in Int
    BY <1>2, <1>6
  <2> DEFINE x == r * rs
             y == w * ws
             z == a * mix
  <2>3. x * 100 <= z /\ y * 100 <= a * 100 - z
    BY <1>6, <2>1
  <2> HIDE DEF x, y, z, a
  <2>4. x + y <= a
    BY <1>2, <2>2, <2>3 DEF x, y, z
  <2> QED BY <2>4 DEF x, y
<1>8. n.reads \in Nat /\ n.reads * rs + n.writes * ws <= a
  <2>1. (r + 1) * rs = r * rs + rs /\ r * rs \in Nat /\ w * ws \in Nat
    BY <1>2, <1>6
  <2>2. CASE more
    BY <1>2, <1>3, <1>6, <2>1, <2>2
  <2>3. CASE ~ more
    BY <1>3, <1>6, <1>7, <2>3
  <2> QED BY <2>2, <2>3
<1>9. /\ n.reads * rs = n.reads * SIZE_READ_PACK + n.reads * HEADER
      /\ n.writes * ws = n.writes * SIZE_WRITE_PACK + n.writes * HEADER
      /\ (4 + n.reads + n.writes) * HEADER = 4 * HEADER + n.reads * HEADER + n.writes * HEADER
  BY <1>1, <1>3, <1>6, <1>8
<1> DEFINE b == n.reads * SIZE_READ_PACK
           c == n.writes * SIZE_WRITE_PACK
           d == n.reads * HEADER
           e == n.writes * HEADER
<1>10. b \in Nat /\ c \in Nat /\ d \in Nat /\ e \in Nat
  BY <1>1, <1>3, <1>6, <1>8
<1>11. (b + d) + (c + e) <= MAX_SHARE_MEM - 2 * (pz + HEADER) - 2 * (iz + HEADER) - MAILBOXES
  BY <1>8, <1>9
<1>12. n.writes \in Nat /\ n.io = iz /\ n.pr = pz
  BY <1>3, <1>6
<1> HIDE DEF b, c, d, e, a, rs, ws, more, rest
<1>13. MAILBOXES + (4 * HEADER + d + e) + b + c + 2 * iz + pz <= MAX_SHARE_MEM
  BY <1>1, <1>2, <1>10, <1>11
<1> QED BY <1>2, <1>4, <1>8, <1>9, <1>12, <1>13 DEF b, c, d, e, n, config

LEMMA LayoutIs ==
    ASSUME NEW l \in MbcLoads
    PROVE  Layouts[l.config] = Built(Negotiated(l.config))
BY DEF Layouts

(* Where the READ packets, the WRITE packets, and the four others end. *)
LEMMA BuiltFits ==
    ASSUME NEW l \in MbcLoads
    PROVE  LET b == Built(Negotiated(l.config))
           IN \A p \in DOMAIN b.kind : b.data_end[p] <= MAX_SHARE_MEM
<1> DEFINE n == Negotiated(l.config)
           r == n.reads
           w == n.writes
           count == r + w + 3
           kind == [p \in 1 .. count |->
                     IF p <= r THEN "read" ELSE IF p <= r + w THEN "write"
                     ELSE IF p = count THEN "prgp" ELSE "iogp"]
           size == [read |-> SIZE_READ_PACK, write |-> SIZE_WRITE_PACK, iogp |-> n.io,
                    prgp |-> n.pr]
           base == MAILBOXES + (4 + r + w) * HEADER
           First(p) == IF p <= r + 1 THEN base + (p - 1) * SIZE_READ_PACK
                       ELSE IF p <= r + w + 1
                         THEN base + r * SIZE_READ_PACK + (p - r - 1) * SIZE_WRITE_PACK
                       ELSE IF p <= count
                         THEN base + r * SIZE_READ_PACK + w * SIZE_WRITE_PACK
                                + (p - r - w - 1) * n.io
                         ELSE base + r * SIZE_READ_PACK + w * SIZE_WRITE_PACK + 2 * n.io + n.pr
           Starts(f) == f = [p \in 1 .. count + 1 |->
                               IF p = 1 THEN base ELSE f[p - 1] + size[kind[p - 1]]]
           closed == [p \in 1 .. count + 1 |-> First(p)]
           start == CHOOSE f : Starts(f)
<1>1. /\ r \in Nat /\ w \in Nat /\ n.io \in Nat /\ n.pr \in Nat /\ count \in Nat
      /\ base + r * SIZE_READ_PACK + w * SIZE_WRITE_PACK + 2 * n.io + n.pr <= MAX_SHARE_MEM
      /\ SIZE_READ_PACK \in Nat /\ SIZE_WRITE_PACK \in Nat /\ base \in Nat
  BY NegotiatedFits, MbcAssumption
<1>2. Built(n) = [kind |-> kind, reads |-> r, writes |-> w,
                  data_end |-> [p \in 1 .. count |-> start[p + 1]]]
  BY DEF Built
<1>3. /\ \A k \in Nat : k * SIZE_READ_PACK \in Nat /\ k * SIZE_WRITE_PACK \in Nat /\ k * n.io \in Nat
      /\ \A k \in Nat : /\ (k + 1) * SIZE_READ_PACK = k * SIZE_READ_PACK + SIZE_READ_PACK
                        /\ (k + 1) * SIZE_WRITE_PACK = k * SIZE_WRITE_PACK + SIZE_WRITE_PACK
                        /\ (k + 1) * n.io = k * n.io + n.io
      /\ 0 * SIZE_READ_PACK = 0 /\ 0 * SIZE_WRITE_PACK = 0 /\ 0 * n.io = 0
  BY <1>1, Multiples
<1> HIDE DEF n, base
<1>4. \A p \in 1..count : First(p + 1) = First(p) + size[kind[p]]
  <2> SUFFICES ASSUME NEW p \in 1..count PROVE First(p + 1) = First(p) + size[kind[p]]
    OBVIOUS
  <2>1. CASE p <= r
    <3>1. kind[p] = "read" /\ p - 1 \in Nat /\ p + 1 <= r + 1 /\ p <= r + 1
      BY <1>1, <2>1
    <3>2. ((p - 1) + 1) * SIZE_READ_PACK = (p - 1) * SIZE_READ_PACK + SIZE_READ_PACK
      BY <1>3, <3>1
    <3>3. (p - 1) + 1 = p /\ (p + 1) - 1 = p
      BY <1>1
    <3> QED BY <1>1, <1>3, <3>1, <3>2, <3>3
  <2>2. CASE ~ (p <= r) /\ p <= r + w
    <3>1. /\ kind[p] = "write" /\ p - r - 1 \in Nat /\ p + 1 <= r + w + 1 /\ ~ (p + 1 <= r + 1)
          /\ (p - r - 1) + 1 = (p + 1) - r - 1
      BY <1>1, <2>2
    <3>2. ((p + 1) - r - 1) * SIZE_WRITE_PACK = (p - r - 1) * SIZE_WRITE_PACK + SIZE_WRITE_PACK
      BY <1>3, <3>1
    <3>3. First(p + 1) = base + r * SIZE_READ_PACK + ((p + 1) - r - 1) * SIZE_WRITE_PACK
      BY <3>1
    <3>4. First(p) = base + r * SIZE_READ_PACK + (p - r - 1) * SIZE_WRITE_PACK
      <4>1. CASE p <= r + 1
        <5>1. p = r + 1 /\ p - 1 = r /\ p - r - 1 = 0
          <6> HIDE DEF r, w, First, kind, size
          <6> QED BY <1>1, <2>2, <4>1
        <5> QED BY <1>1, <1>3, <4>1, <5>1
      <4>2. CASE ~ (p <= r + 1)
        BY <1>1, <2>2, <4>2
      <4> QED BY <4>1, <4>2
    <3> DEFINE x == r * SIZE_READ_PACK
               y == (p - r - 1) * SIZE_WRITE_PACK
    <3>5. x \in Nat /\ y \in Nat
      BY <1>1, <1>3, <3>1
    <3>6. First(p + 1) = base + x + (y + SIZE_WRITE_PACK) /\ First(p) = base + x + y
      BY <3>2, <3>3, <3>4
    <3> HIDE DEF x, y, First
    <3> QED BY <1>1, <3>1, <3>5, <3>6
  <2>3. CASE ~ (p <= r + w) /\ p < count
    <3>1. /\ kind[p] = "iogp" /\ p - r - w - 1 \in Nat /\ p + 1 <= count /\ ~ (p + 1 <= r + 1)
          /\ ~ (p + 1 <= r + w + 1) /\ (p - r - w - 1) + 1 = (p + 1) - r - w - 1 /\ ~ (p <= r)
      <4>1. /\ p - r - w - 1 \in Nat /\ p + 1 <= count /\ ~ (p + 1 <= r + 1)
            /\ ~ (p + 1 <= r + w + 1) /\ (p - r - w - 1) + 1 = (p + 1) - r - w - 1 /\ ~ (p <= r)
        <5> HIDE DEF r, w, First, kind, size
        <5> QED BY <1>1, <2>3
      <4>2. kind[p] = "iogp"
        <5> HIDE DEF r, w, First, size
        <5> QED BY <2>3, <4>1
      <4> QED BY <4>1, <4>2
    <3>2. ((p + 1) - r - w - 1) * n.io = (p - r - w - 1) * n.io + n.io
      BY <1>3, <3>1
    <3>3. First(p + 1) = base + r * SIZE_READ_PACK + w * SIZE_WRITE_PACK
                           + ((p + 1) - r - w - 1) * n.io
      BY <3>1
    <3>4. First(p) = base + r * SIZE_READ_PACK + w * SIZE_WRITE_PACK + (p - r - w - 1) * n.io
      <4>1. CASE p <= r + 1
        <5>1. p = r + 1 /\ p - 1 = r /\ p - r - w - 1 = 0 /\ w = 0
          <6> HIDE DEF r, w, First, kind, size
          <6> QED BY <1>1, <2>3, <4>1
        <5>2. First(p) = base + r * SIZE_READ_PACK
          BY <4>1, <5>1
        <5>3. r * SIZE_READ_PACK \in Nat /\ w * SIZE_WRITE_PACK = 0 /\ (p - r - w - 1) * n.io = 0
          BY <1>1, <1>3, <5>1
        <5> HIDE DEF First
        <5> QED BY <1>1, <5>2, <5>3
      <4>2. CASE ~ (p <= r + 1) /\ p <= r + w + 1
        <5>1. p = r + w + 1 /\ p - r - 1 = w /\ p - r - w - 1 = 0
          BY <1>1, <2>3, <4>2
        <5>2. First(p) = base + r * SIZE_READ_PACK + w * SIZE_WRITE_PACK
          BY <4>2, <5>1
        <5>3. r * SIZE_READ_PACK \in Nat /\ w * SIZE_WRITE_PACK \in Nat /\ (p - r - w - 1) * n.io = 0
          BY <1>1, <1>3, <5>1
        <5> HIDE DEF First
        <5> QED BY <1>1, <5>2, <5>3
      <4>3. CASE ~ (p <= r + 1) /\ ~ (p <= r + w + 1)
        BY <1>1, <2>3, <4>3
      <4> QED BY <4>1, <4>2, <4>3
    <3> DEFINE x == r * SIZE_READ_PACK
               y == w * SIZE_WRITE_PACK
               z == (p - r - w - 1) * n.io
    <3>5. x \in Nat /\ y \in Nat /\ z \in Nat
      BY <1>1, <1>3, <3>1
    <3>6. First(p + 1) = base + x + y + (z + n.io) /\ First(p) = base + x + y + z
      BY <3>2, <3>3, <3>4
    <3> HIDE DEF x, y, z, First
    <3> QED BY <1>1, <3>1, <3>5, <3>6
  <2>4. CASE p = count
    <3>1. /\ kind[p] = "prgp" /\ p - r - w - 1 = 2 /\ ~ (p + 1 <= count) /\ ~ (p + 1 <= r + 1)
          /\ ~ (p + 1 <= r + w + 1) /\ ~ (p <= r + 1) /\ ~ (p <= r + w + 1) /\ p <= count
      BY <1>1, <2>4
    <3>2. /\ First(p) = base + r * SIZE_READ_PACK + w * SIZE_WRITE_PACK + (p - r - w - 1) * n.io
          /\ First(p + 1) = base + r * SIZE_READ_PACK + w * SIZE_WRITE_PACK + 2 * n.io + n.pr
      BY <3>1
    <3> HIDE DEF First
    <3> QED BY <1>1, <1>3, <3>1, <3>2
  <2> QED BY <1>1, <2>1, <2>2, <2>3, <2>4
<1>5. First(1) = base /\ \A p \in 1 .. count + 1 : First(p) <= MAX_SHARE_MEM
  <2>1. First(1) = base
    <3>1. 1 <= r + 1 /\ 1 - 1 = 0
      BY <1>1
    <3>2. First(1) = base + 0 * SIZE_READ_PACK
      BY <3>1
    <3> QED BY <1>1, <1>3, <3>2
  <2>2. \A p \in 1..count : First(p) \in Nat
    <3> SUFFICES ASSUME NEW p \in 1..count PROVE First(p) \in Nat
      OBVIOUS
    <3>1. /\ p <= r + 1 => p - 1 \in Nat
          /\ ~ (p <= r + 1) => p - r - 1 \in Nat
          /\ ~ (p <= r + w + 1) => p - r - w - 1 \in Nat
      <4> HIDE DEF r, w, First, kind, size
      <4> QED BY <1>1
    <3>2. /\ p <= r + 1 => (p - 1) * SIZE_READ_PACK \in Nat
          /\ ~ (p <= r + 1) => (p - r - 1) * SIZE_WRITE_PACK \in Nat
          /\ ~ (p <= r + w + 1) => (p - r - w - 1) * n.io \in Nat
          /\ r * SIZE_READ_PACK \in Nat /\ w * SIZE_WRITE_PACK \in Nat
      BY <1>1, <1>3, <3>1
    <3>3. CASE p <= r + 1
      BY <1>1, <3>2, <3>3
    <3>4. CASE ~ (p <= r + 1) /\ p <= r + w + 1
      BY <1>1, <3>2, <3>4
    <3>5. CASE ~ (p <= r + 1) /\ ~ (p <= r + w + 1)
      BY <1>1, <3>2, <3>5
    <3> QED BY <3>3, <3>4, <3>5
  <2>3. First(count + 1) = base + r * SIZE_READ_PACK + w * SIZE_WRITE_PACK + 2 * n.io + n.pr
    BY <1>1
  <2>4. \A p \in 1..count : size[kind[p]] \in Nat
    BY <1>1
  <2> DEFINE T == {k \in Nat : k <= count => First(count + 1 - k) <= MAX_SHARE_MEM}
  <2> HIDE DEF First, size, kind
  <2>5. 0 \in T
    BY <1>1, <2>3
  <2>6. ASSUME NEW k \in Nat, k \in T PROVE k + 1 \in T
    <3> SUFFICES ASSUME k + 1 <= count PROVE First(count + 1 - (k + 1)) <= MAX_SHARE_MEM
      OBVIOUS
    <3> DEFINE p == count - k
    <3>1. p \in 1..count /\ p + 1 = count + 1 - k /\ p = count + 1 - (k + 1) /\ k <= count
      BY <1>1
    <3> HIDE DEF p
    <3>2. First(p + 1) <= MAX_SHARE_MEM
      BY <2>6, <3>1
    <3>3. First(p + 1) = First(p) + size[kind[p]] /\ First(p) \in Nat /\ size[kind[p]] \in Nat
      BY <1>4, <2>2, <2>4, <3>1
    <3>4. First(p) <= MAX_SHARE_MEM
      BY <3>2, <3>3, MbcAssumption
    <3> QED BY <3>1, <3>4
  <2> HIDE DEF T
  <2>7. \A k \in Nat : k \in T
    BY <2>5, <2>6, AllNumbers
  <2>8. ASSUME NEW p \in 1 .. count + 1 PROVE First(p) <= MAX_SHARE_MEM
    <3>1. CASE p = count + 1
      BY <1>1, <2>3, <3>1
    <3>2. CASE p \in 1..count
      <4>1. count + 1 - p \in T /\ count + 1 - p <= count /\ count + 1 - (count + 1 - p) = p
        BY <1>1, <2>7, <3>2
      <4> QED BY <4>1 DEF T
    <3> QED BY <1>1, <3>1, <3>2
  <2> QED BY <2>1, <2>8
<1> HIDE DEF First, size, kind, count
<1>6. Starts(closed)
  <2>1. \A p \in 1 .. count + 1 : p # 1 => p - 1 \in 1..count /\ (p - 1) + 1 = p
    BY <1>1
  <2>2. \A p \in 1 .. count + 1 : p # 1 => closed[p - 1] = First(p - 1)
    BY <1>1, <2>1
  <2>3. \A p \in 1 .. count + 1 :
           First(p) = IF p = 1 THEN base ELSE closed[p - 1] + size[kind[p - 1]]
    BY <1>4, <1>5, <2>1, <2>2
  <2> QED BY <2>3
<1> HIDE DEF closed
<1>7. Starts(start)
  BY <1>6
<1>8. \A p \in 1 .. count + 1 :
         start[p] = IF p = 1 THEN base ELSE start[p - 1] + size[kind[p - 1]]
  BY <1>7
<1> HIDE DEF start, Starts
<1>9. \A p \in 1 .. count + 1 : start[p] = First(p)
  <2> DEFINE T == {k \in Nat : k <= count => start[k + 1] = First(k + 1)}
  <2>1. 0 \in T
    BY <1>1, <1>5, <1>8
  <2>2. ASSUME NEW k \in Nat, k \in T PROVE k + 1 \in T
    <3> SUFFICES ASSUME k + 1 <= count PROVE start[(k + 1) + 1] = First((k + 1) + 1)
      OBVIOUS
    <3>1. (k + 1) + 1 \in 1 .. count + 1 /\ (k + 1) + 1 # 1 /\ ((k + 1) + 1) - 1 = k + 1
          /\ k + 1 \in 1..count /\ k <= count
      BY <1>1
    <3>2. start[(k + 1) + 1] = start[k + 1] + size[kind[k + 1]]
      BY <1>8, <3>1
    <3> QED BY <1>4, <2>2, <3>1, <3>2
  <2> HIDE DEF T
  <2>3. \A k \in Nat : k \in T
    BY <2>1, <2>2, AllNumbers
  <2> SUFFICES ASSUME NEW p \in 1 .. count + 1 PROVE start[p] = First(p)
    OBVIOUS
  <2>4. p - 1 \in T /\ p - 1 <= count /\ (p - 1) + 1 = p
    BY <1>1, <2>3
  <2> QED BY <2>4 DEF T
<1>10. DOMAIN Built(n).kind = 1..count
  BY <1>2 DEF kind
<1> SUFFICES ASSUME NEW p \in 1..count PROVE Built(n).data_end[p] <= MAX_SHARE_MEM
  BY <1>10 DEF n
<1>11. Built(n).data_end[p] = start[p + 1] /\ p + 1 \in 1 .. count + 1
  BY <1>1, <1>2
<1> QED BY <1>5, <1>9, <1>11

LEMMA LayoutFacts ==
    ASSUME mbcload \in MbcLoads
    PROVE  /\ R \in Nat /\ R >= 2 /\ W \in Nat /\ N \in Nat /\ N >= 5 /\ Packets = 1..N
           /\ \A p \in 1..R : Kind(p) = "read"
           /\ \A p \in R + 1 .. R + W : Kind(p) = "write"
           /\ \A p \in R + W + 1 .. R + W + 2 : Kind(p) = "iogp"
           /\ Kind(N) = "prgp" /\ Kind(0) = "iogp"
           /\ \A p \in Packets : Layout.data_end[p] <= MAX_SHARE_MEM
<1> DEFINE n == Negotiated(mbcload.config)
<1>1. Layout = Built(n)
  BY LayoutIs DEF Layout
<1>2. n.reads \in Nat /\ n.reads >= 2 /\ n.writes \in Nat
  BY NegotiatedFits
<1>3. R = n.reads /\ W = n.writes
  BY <1>1 DEF R, W, Built
<1>4. R \in Nat /\ R >= 2 /\ W \in Nat /\ N \in Nat /\ N >= 5
  BY <1>2, <1>3 DEF N
<1>5. Layout.kind = [p \in 1..N |->
           IF p <= R THEN "read" ELSE IF p <= R + W THEN "write"
           ELSE IF p = N THEN "prgp" ELSE "iogp"]
  <2> HIDE DEF n
  <2> QED BY <1>1, <1>3 DEF Built, N
<1>6. Packets = 1..N
  BY <1>5 DEF Packets
<1>7. \A p \in Packets : Layout.data_end[p] <= MAX_SHARE_MEM
  BY <1>1, BuiltFits DEF Packets
<1> HIDE DEF n
<1>8. \A p \in 1..N : Kind(p) = IF p <= R THEN "read" ELSE IF p <= R + W THEN "write"
                                ELSE IF p = N THEN "prgp" ELSE "iogp"
  BY <1>4, <1>5 DEF Kind, Temporary
<1>9. Kind(0) = "iogp"
  BY DEF Kind, Temporary
<1>10. N = R + W + 3
  BY DEF N
<1> HIDE DEF R, W, N
<1>11. /\ \A p \in 1..R : p \in 1..N /\ p <= R
       /\ \A p \in R + 1 .. R + W : p \in 1..N /\ ~ (p <= R) /\ p <= R + W
       /\ \A p \in R + W + 1 .. R + W + 2 : p \in 1..N /\ ~ (p <= R) /\ ~ (p <= R + W) /\ p # N
       /\ N \in 1..N /\ ~ (N <= R) /\ ~ (N <= R + W)
  BY <1>4, <1>10
<1>12. /\ \A p \in 1..R : Kind(p) = "read"
       /\ \A p \in R + 1 .. R + W : Kind(p) = "write"
       /\ \A p \in R + W + 1 .. R + W + 2 : Kind(p) = "iogp"
       /\ Kind(N) = "prgp"
  BY <1>8, <1>11
<1> QED BY <1>4, <1>6, <1>7, <1>9, <1>12

-----------------------------------------------------------------------------
(* What is always so: where packets may be, and what MBC is about to do.  A  *)
(* packet of the first R is read into, one of the next W written from; mail  *)
(* is what the printer sends with a packet of each kind.                     *)

All == 0 .. N
IoPackets == {0} \union R + W + 1 .. R + W + 2
Mails == ((1 .. R) \X {"READBLOCK"}) \union ((R + 1 .. R + W) \X {"WRITEBLOCK"})
           \union ({N} \X Requests) \union (IoPackets \X IoRequests)
Held == {m \in All \X (IoRequests \union {""}) : m[2] # "" => m[1] \in IoPackets}

Commands == IoRequests \union Requests
              \union {"", "READBLOCK", "WRITEBLOCK", "NEW_PACKET", "UNDERSTOOD", "ANSWER"}
Text == {"DATA", "LOGICAL_BREAK"}
Hands == {"deliver", "deliverNow", "process"}
Places == {"selftest", "reply", "replied", "build", "readBack", "taken", "wait", "mail",
           "online", "write"}

Boards == [at : Places \union Hands \union {"hung"}, ret : Places \union {""}, pkt : All,
           cmd : Commands, i : All, flagged : BOOLEAN]
Lists == [list : Seq(Mails), inqueue : Nat, mail : BOOLEAN, intr : Nat]
Pools == [read : Seq(1 .. R), write : Seq(All), iogp : Seq(IoPackets)]
Blocks == [read : Nat, write : Nat]
Dues == [due : BOOLEAN, pkt : {0, N}]
ToPrinter == [vld : BOOLEAN, clrrsp : BOOLEAN, pkt : All, what : Commands \union Text]
ToBoard == [vld : BOOLEAN, clrreq : BOOLEAN, pkt : All, cmd : Commands, idle : BOOLEAN]
Writers == [given : Nat, done : Nat, pkt : 0 .. R]

Typed ==
    /\ mbcload \in MbcLoads
    /\ mbc \in Boards /\ mess \in Lists /\ pools \in Pools /\ blocks \in Blocks
    /\ per \in Dues /\ idle \in BOOLEAN /\ pr \in ToPrinter /\ io \in ToBoard
    /\ printer \subseteq Held /\ IsFiniteSet(printer)
    /\ writer \in Writers /\ printed \in Seq(Text)

(* Where MBC is, or will go on when what it has in its hands is done. *)
Place == IF mbc.at \in Hands THEN mbc.ret ELSE mbc.at

HandInv ==
    /\ mbc.at = "process" => /\ mbc.ret \in {"reply", "readBack", "taken", "mail"}
                             /\ <<mbc.pkt, mbc.cmd>> \in Mails
    /\ mbc.at \in {"deliver", "deliverNow"} =>
          /\ mbc.ret \in {"reply", "readBack", "build", "taken", "mail", "write", "wait"}
          /\ mbc.cmd \in IoRequests => mbc.pkt \in IoPackets

BoxInv ==
    /\ io.vld => <<io.pkt, io.cmd>> \in Mails
    /\ pr.vld /\ pr.what \in IoRequests => pr.pkt \in IoPackets

StageInv ==
    /\ Place \in {"selftest", "reply", "replied"} => mbc.i = 0
    /\ Place = "readBack" => mbc.i \in 1 .. R
    /\ mbc.at \in Hands /\ mbc.ret = "build" => mbc.i \in 1 .. R
    /\ Place = "taken" => mbc.i > R
    /\ Place \in {"wait", "mail", "online", "write"} => mbc.i = N

(* MIO_Mail is set from the start until the first answer has been processed. *)
First ==
    /\ mbc.i = 0 /\ mbc.at \in {"selftest", "deliver", "deliverNow", "reply"}
    /\ mbc.cmd \in {"", "RETRIEVE_IO_CONFIG"}

ListInv ==
    /\ blocks.read = Len(pools.read) /\ blocks.write = Len(pools.write)
    /\ mess.inqueue = Len(mess.list)
    /\ mess.inqueue > 0 => mess.mail
    /\ mess.mail /\ ~ First /\ mbc.at # "hung" => mess.inqueue > 0
    /\ mbc.i <= R => mess.intr = Len(mess.list)

OrderInv ==
    /\ mbc.at = "deliverNow" => ~ pr.vld /\ InterruptsOn
    /\ writer.given \in {writer.done, writer.done + 1} /\ writer.given <= mbcload.buffers
    /\ ~ InterruptsOn => writer.given = writer.done + 1
    /\ PrintedInOrder

MInv == Typed /\ HandInv /\ BoxInv /\ StageInv /\ ListInv /\ OrderInv

LEMMA SizesStay ==
    ASSUME mbcload' = mbcload
    PROVE  /\ R' = R /\ W' = W /\ N' = N /\ All' = All /\ IoPackets' = IoPackets
           /\ Mails' = Mails /\ Held' = Held /\ Boards' = Boards /\ Lists' = Lists
           /\ Pools' = Pools /\ Dues' = Dues /\ ToPrinter' = ToPrinter /\ ToBoard' = ToBoard
           /\ Writers' = Writers
<1>1. R' = R /\ W' = W
  BY DEF R, W, Layout
<1>2. N' = N
  BY <1>1 DEF N
<1>3. All' = All /\ IoPackets' = IoPackets
  BY <1>1, <1>2 DEF All, IoPackets
<1>4. Mails' = Mails /\ Held' = Held
  BY <1>1, <1>2, <1>3 DEF Mails, Held
<1>5. Boards' = Boards /\ Lists' = Lists /\ Pools' = Pools /\ Dues' = Dues
  BY <1>1, <1>2, <1>3, <1>4 DEF Boards, Lists, Pools, Dues
<1>6. ToPrinter' = ToPrinter /\ ToBoard' = ToBoard /\ Writers' = Writers
  BY <1>1, <1>3 DEF ToPrinter, ToBoard, Writers
<1> QED BY <1>1, <1>2, <1>3, <1>4, <1>5, <1>6

LEMMA PairIs ==
    ASSUME NEW A, NEW B, NEW m \in A \X B
    PROVE  m = <<m[1], m[2]>> /\ m[1] \in A /\ m[2] \in B
OBVIOUS

LEMMA SetFacts ==
    ASSUME mbcload \in MbcLoads
    PROVE  /\ 0 \in All /\ N \in All /\ 1 .. R \subseteq All /\ 0 .. R \subseteq All
           /\ R + 1 .. R + W \subseteq All /\ IoPackets \subseteq All /\ 0 \in IoPackets
           /\ All \subseteq Nat /\ N \notin 1 .. R /\ N \notin IoPackets
           /\ \A p \in IoPackets : p \notin 1 .. R /\ p \notin R + 1 .. R + W /\ p # N
           /\ \A p \in All : /\ Kind(p) = "iogp" => p \in IoPackets
                             /\ Kind(p) = "read" => p \in 1 .. R
                             /\ Kind(p) = "write" => p \in R + 1 .. R + W
                             /\ Kind(p) = "prgp" => p = N
           /\ \A m \in Mails : m = <<m[1], m[2]>> /\ m[1] \in All /\ m[2] \in Commands
<1>1. /\ R \in Nat /\ R >= 2 /\ W \in Nat /\ N \in Nat /\ N = R + W + 3
      /\ \A p \in 1..R : Kind(p) = "read"
      /\ \A p \in R + 1 .. R + W : Kind(p) = "write"
      /\ \A p \in R + W + 1 .. R + W + 2 : Kind(p) = "iogp"
      /\ Kind(N) = "prgp" /\ Kind(0) = "iogp"
  BY LayoutFacts DEF N
<1>2. /\ 0 \in All /\ N \in All /\ 1 .. R \subseteq All /\ 0 .. R \subseteq All
      /\ R + 1 .. R + W \subseteq All /\ IoPackets \subseteq All /\ 0 \in IoPackets
      /\ All \subseteq Nat /\ N \notin 1 .. R /\ N \notin IoPackets
      /\ \A p \in IoPackets : p \notin 1 .. R /\ p \notin R + 1 .. R + W /\ p # N
  BY <1>1 DEF All, IoPackets
<1>3. ASSUME NEW p \in All
      PROVE  p = 0 \/ p \in 1..R \/ p \in R + 1 .. R + W \/ p \in R + W + 1 .. R + W + 2 \/ p = N
  BY <1>1 DEF All
<1>4. \A p \in All : /\ Kind(p) = "iogp" => p \in IoPackets
                     /\ Kind(p) = "read" => p \in 1 .. R
                     /\ Kind(p) = "write" => p \in R + 1 .. R + W
                     /\ Kind(p) = "prgp" => p = N
  BY <1>1, <1>3 DEF IoPackets
<1>5. \A m \in Mails : m = <<m[1], m[2]>> /\ m[1] \in All /\ m[2] \in Commands
  <2> SUFFICES ASSUME NEW m \in Mails
               PROVE  m = <<m[1], m[2]>> /\ m[1] \in All /\ m[2] \in Commands
    OBVIOUS
  <2>1. CASE m \in (1 .. R) \X {"READBLOCK"}
    <3>1. m = <<m[1], m[2]>> /\ m[1] \in 1 .. R /\ m[2] \in {"READBLOCK"}
      BY <2>1, PairIs
    <3> QED BY <1>2, <3>1 DEF Commands
  <2>2. CASE m \in (R + 1 .. R + W) \X {"WRITEBLOCK"}
    <3>1. m = <<m[1], m[2]>> /\ m[1] \in R + 1 .. R + W /\ m[2] \in {"WRITEBLOCK"}
      BY <2>2, PairIs
    <3> QED BY <1>2, <3>1 DEF Commands
  <2>3. CASE m \in {N} \X Requests
    BY <1>2, <2>3, PairIs DEF Commands
  <2>4. CASE m \in IoPackets \X IoRequests
    BY <1>2, <2>4, PairIs DEF Commands
  <2> QED BY <2>1, <2>2, <2>3, <2>4 DEF Mails
<1> QED BY <1>2, <1>4, <1>5

-----------------------------------------------------------------------------
(* Steps of MBC: how its place changes *)

LEMMA GotoFacts ==
    ASSUME MInv, mbcload' = mbcload, NEW place \in Places, GotoMbc(place)
    PROVE  /\ mbc' \in Boards /\ HandInv' /\ Place' = place
           /\ mbc'.at = place /\ mbc'.i = mbc.i /\ mbc'.cmd = mbc.cmd /\ mbc'.pkt = mbc.pkt
<1>1. mbc \in Boards /\ mbc' = [mbc EXCEPT !.at = place]
  BY DEF MInv, Typed, GotoMbc
<1>2. /\ mbc' \in Boards /\ mbc'.at = place /\ mbc'.i = mbc.i /\ mbc'.cmd = mbc.cmd
      /\ mbc'.pkt = mbc.pkt
  BY <1>1 DEF Boards
<1>3. place \notin Hands
  BY DEF Places, Hands
<1>4. Place' = place
  BY <1>2, <1>3 DEF Place
<1>5. HandInv'
  BY <1>2, <1>3 DEF HandInv, Hands
<1> QED BY <1>2, <1>4, <1>5

LEMMA DoneFacts ==
    ASSUME MInv, mbcload' = mbcload, NEW place \in Places, Done(place)
    PROVE  /\ mbc' \in Boards /\ HandInv' /\ Place' = place
           /\ mbc'.at = place /\ mbc'.i = mbc.i /\ mbc'.cmd = ""
<1>1. mbc \in Boards
      /\ mbc' = [mbc EXCEPT !.at = place, !.ret = "", !.pkt = NoPacket, !.cmd = ""]
  BY DEF MInv, Typed, Done
<1>2. 0 \in All /\ NoPacket = 0
  BY SetFacts DEF MInv, Typed, NoPacket
<1>3. mbc' \in Boards /\ mbc'.at = place /\ mbc'.i = mbc.i /\ mbc'.cmd = ""
  BY <1>1, <1>2 DEF Boards, Commands
<1>4. place \notin Hands
  BY DEF Places, Hands
<1>5. Place' = place
  BY <1>3, <1>4 DEF Place
<1>6. HandInv'
  BY <1>3, <1>4 DEF HandInv, Hands
<1> QED BY <1>3, <1>5, <1>6

LEMMA DeliverFacts ==
    ASSUME MInv, mbcload' = mbcload, NEW p \in All, NEW what \in Commands,
           what \in IoRequests => p \in IoPackets,
           NEW place \in {"reply", "readBack", "build", "taken", "mail", "write", "wait"},
           mbc'.at = "deliver", mbc'.ret = place, mbc'.pkt = p, mbc'.cmd = what, mbc' \in Boards
    PROVE  HandInv' /\ Place' = place
<1>1. IoPackets' = IoPackets
  BY SizesStay
<1>2. HandInv'
  BY <1>1 DEF HandInv
<1>3. Place' = place
  BY DEF Place, Hands
<1> QED BY <1>2, <1>3

(* Its stage is as it should be where the next place is of the same kind. *)
LEMMA StageStays ==
    ASSUME MInv, mbcload' = mbcload, mbc'.i = mbc.i,
           mbc'.at \in Hands /\ mbc'.ret = "build" => mbc.i \in 1 .. R,
           \/ Place' = "build"
           \/ Place' = Place
           \/ {Place, Place'} \subseteq {"selftest", "reply", "replied"}
           \/ {Place, Place'} \subseteq {"wait", "mail", "online", "write"}
    PROVE  StageInv'
<1>1. R' = R /\ N' = N
  BY SizesStay
<1> QED BY <1>1 DEF MInv, StageInv

LEMMA OrderStays ==
    ASSUME MInv, UNCHANGED <<pr, writer, printed, mbcload>>,
           mbc'.at # "deliverNow" \/ (~ pr.vld /\ InterruptsOn)
    PROVE  OrderInv'
<1>1. PrintedInOrder' /\ InterruptsOn' = InterruptsOn
  BY DEF MInv, OrderInv, PrintedInOrder, InterruptsOn
<1> QED BY <1>1 DEF MInv, OrderInv

LEMMA BoardStep ==
    ASSUME MInv, UNCHANGED <<pr, io, printer, writer, printed, mbcload, per, idle>>,
           mbc' \in Boards, mess' \in Lists, pools' \in Pools, blocks' \in Blocks,
           HandInv', StageInv', ListInv',
           mbc'.at # "deliverNow" \/ (~ pr.vld /\ InterruptsOn)
    PROVE  MInv'
<1>1. Typed'
  BY SizesStay DEF MInv, Typed
<1>2. BoxInv'
  BY SizesStay DEF MInv, BoxInv
<1>3. OrderInv'
  BY OrderStays
<1> QED BY <1>1, <1>2, <1>3 DEF MInv

-----------------------------------------------------------------------------
(* DeliverPacket, the negotiation and the building of packets *)

LEMMA StageFacts ==
    ASSUME MInv
    PROVE  /\ R \in Nat /\ R >= 2 /\ W \in Nat /\ N \in Nat /\ N > R /\ N >= 5
           /\ mbc.i \in Nat /\ mbc.i \in All /\ mbc.pkt \in All /\ mbc.cmd \in Commands
           /\ mbc \in Boards /\ mess \in Lists /\ pools \in Pools /\ blocks \in Blocks
           /\ mbcload \in MbcLoads
<1>1. mbcload \in MbcLoads
  BY DEF MInv, Typed
<1>2. mbc.i \in All /\ mbc.pkt \in All /\ mbc.cmd \in Commands
  BY DEF MInv, Typed, Boards
<1>3. R \in Nat /\ R >= 2 /\ W \in Nat /\ N \in Nat /\ N >= 5 /\ N = R + W + 3
  BY <1>1, LayoutFacts DEF N
<1> QED BY <1>1, <1>2, <1>3, SetFacts DEF MInv, Typed

LEMMA deliverTestKeeps ==
    ASSUME MInv, InterruptsOn, deliverTest,
           UNCHANGED <<io, printer, writer, printed, mbcload>>
    PROVE  MInv'
<1>1. /\ mbc.at = "deliver" /\ ~ pr.vld /\ mbc' = [mbc EXCEPT !.at = "deliverNow"]
      /\ UNCHANGED <<mess, pools, blocks, per, idle, pr>>
  BY DEF deliverTest, GotoMbc
<1>2. /\ mbc' \in Boards /\ mbc'.at = "deliverNow" /\ mbc'.ret = mbc.ret /\ mbc'.i = mbc.i
      /\ mbc'.cmd = mbc.cmd /\ mbc'.pkt = mbc.pkt
  BY <1>1, StageFacts DEF Boards, Hands
<1>3. HandInv'
  BY <1>1, <1>2, SizesStay DEF MInv, HandInv
<1>4. Place' = Place
  BY <1>1, <1>2 DEF Place, Hands
<1>5. StageInv'
  BY <1>1, <1>2, <1>4, StageStays DEF MInv, StageInv, Hands
<1>6. First' = First
  BY <1>1, <1>2 DEF First
<1>7. ListInv'
  BY <1>1, <1>2, <1>6, SizesStay DEF MInv, ListInv
<1> QED BY <1>1, <1>2, <1>3, <1>5, <1>7, StageFacts, BoardStep

LEMMA deliverNowKeeps ==
    ASSUME MInv, InterruptsOn, deliverNow,
           UNCHANGED <<io, printer, writer, printed, mbcload>>
    PROVE  MInv'
<1>1. /\ mbc.at = "deliverNow" /\ UNCHANGED <<mess, pools, blocks, per, idle>>
      /\ pr' = [pr EXCEPT !.vld = TRUE, !.pkt = mbc.pkt, !.what = mbc.cmd]
      /\ IF mbc.ret = "reply" THEN GotoMbc("reply") ELSE Done(mbc.ret)
  BY DEF deliverNow
<1>2. mbc.ret \in {"reply", "readBack", "build", "taken", "mail", "write", "wait"}
  BY <1>1 DEF MInv, HandInv
<1>3. mbc.ret \in Places
  BY <1>2 DEF Places
<1>4. /\ mbc' \in Boards /\ HandInv' /\ Place' = mbc.ret /\ mbc'.at = mbc.ret /\ mbc'.i = mbc.i
      /\ mbc.ret = "reply" => mbc'.cmd = mbc.cmd
  BY <1>1, <1>3, GotoFacts, DoneFacts
<1>5. Place = mbc.ret
  BY <1>1 DEF Place, Hands
<1>6. StageInv'
  BY <1>2, <1>4, <1>5, StageStays DEF Hands
<1>7. First <=> First'
  <2>1. CASE mbc.ret = "reply"
    BY <1>1, <1>4, <2>1 DEF First
  <2>2. CASE mbc.ret # "reply"
    <3>1. mbc.i # 0
      BY <1>1, <1>2, <1>5, <2>2, StageFacts DEF MInv, StageInv, Hands
    <3> QED BY <1>4, <3>1 DEF First
  <2> QED BY <2>1, <2>2
<1>8. ListInv'
  BY <1>1, <1>2, <1>4, <1>7, SizesStay DEF MInv, ListInv
<1>9. pr \in ToPrinter /\ mbc.pkt \in All /\ mbc.cmd \in Commands
  BY StageFacts DEF MInv, Typed
<1>10. pr' \in ToPrinter /\ pr'.pkt = mbc.pkt /\ pr'.what = mbc.cmd
  BY <1>1, <1>9 DEF ToPrinter
<1>11. Typed'
  BY <1>1, <1>4, <1>10, SizesStay DEF MInv, Typed
<1>12. BoxInv'
  BY <1>1, <1>10, SizesStay DEF MInv, BoxInv, HandInv
<1>13. OrderInv'
  <2>1. ~ pr.vld /\ mbc.cmd \notin {"DATA", "LOGICAL_BREAK"}
    BY <1>1, <1>9 DEF MInv, OrderInv, Commands, IoRequests, Requests
  <2>2. PrintedInOrder' <=> PrintedInOrder
    BY <1>1, <1>10, <2>1 DEF PrintedInOrder
  <2> QED BY <1>2, <1>4, <2>2 DEF MInv, OrderInv, InterruptsOn
<1> QED BY <1>4, <1>6, <1>8, <1>11, <1>12, <1>13 DEF MInv

LEMMA PoolFacts ==
    ASSUME MInv
    PROVE  /\ pools.read \in Seq(1 .. R) /\ pools.write \in Seq(All)
           /\ pools.iogp \in Seq(IoPackets)
           /\ pools.iogp # <<>> => /\ Head(pools.iogp) \in IoPackets
                                   /\ Head(pools.iogp) \in All
                                   /\ Tail(pools.iogp) \in Seq(IoPackets)
           /\ blocks.read = Len(pools.read) /\ blocks.write = Len(pools.write)
           /\ blocks.read \in Nat /\ blocks.write \in Nat
<1>1. pools \in Pools /\ blocks \in Blocks /\ mbcload \in MbcLoads
  BY StageFacts
<1>2. /\ pools.read \in Seq(1 .. R) /\ pools.write \in Seq(All) /\ pools.iogp \in Seq(IoPackets)
      /\ blocks.read \in Nat /\ blocks.write \in Nat
  BY <1>1 DEF Pools, Blocks
<1>3. pools.iogp # <<>> => /\ Head(pools.iogp) \in IoPackets
                           /\ Tail(pools.iogp) \in Seq(IoPackets)
  BY <1>2, HeadTailProperties
<1>4. IoPackets \subseteq All
  BY <1>1, SetFacts
<1> QED BY <1>2, <1>3, <1>4 DEF MInv, ListInv

LEMMA SendMailFacts ==
    ASSUME MInv, mbcload' = mbcload, NEW cmd \in IoRequests,
           NEW place \in {"reply", "write"}, SendMail(cmd, place)
    PROVE  /\ mbc' \in Boards /\ HandInv' /\ Place' = place /\ mbc'.at \in {"deliver", place}
           /\ mbc'.i = mbc.i /\ mbc'.cmd \in {cmd, mbc.cmd}
           /\ mbc'.at = "deliver" => mbc'.cmd = cmd /\ mbc'.ret = place
           /\ pools' \in Pools /\ pools'.read = pools.read /\ pools'.write = pools.write
<1>1. cmd \in Commands /\ mbc \in Boards /\ pools \in Pools
  BY StageFacts DEF Commands
<1>2. CASE pools.iogp # <<>>
  <2>1. /\ mbc' = [mbc EXCEPT !.at = "deliver", !.ret = place, !.pkt = Head(pools.iogp), !.cmd = cmd]
        /\ pools' = [pools EXCEPT !.iogp = Tail(@)]
    BY <1>2 DEF SendMail, Deliver
  <2>2. /\ Head(pools.iogp) \in IoPackets /\ Head(pools.iogp) \in All
        /\ Tail(pools.iogp) \in Seq(IoPackets)
    BY <1>2, PoolFacts
  <2>3. place \in Places
    BY DEF Places
  <2>4. /\ mbc' \in Boards /\ mbc'.at = "deliver" /\ mbc'.ret = place /\ mbc'.i = mbc.i
        /\ mbc'.cmd = cmd /\ mbc'.pkt = Head(pools.iogp)
    BY <1>1, <2>1, <2>2, <2>3 DEF Boards, Hands
  <2>5. pools' \in Pools /\ pools'.read = pools.read /\ pools'.write = pools.write
    BY <1>1, <2>1, <2>2 DEF Pools
  <2>6. HandInv' /\ Place' = place
    BY <1>1, <2>2, <2>4, DeliverFacts
  <2> QED BY <2>4, <2>5, <2>6
<1>3. CASE pools.iogp = <<>>
  <2>1. GotoMbc(place) /\ pools' = pools /\ place \in Places
    BY <1>3 DEF SendMail, Places
  <2> QED BY <1>1, <2>1, GotoFacts
<1> QED BY <1>2, <1>3

LEMMA negotiateKeeps ==
    ASSUME MInv, InterruptsOn, negotiate,
           UNCHANGED <<io, printer, writer, printed, mbcload>>
    PROVE  MInv'
<1>1. UNCHANGED <<mess, blocks, per, idle, pr>>
  BY DEF negotiate
<1>2. CASE mbc.at = "selftest" /\ SendMail(NextRequest(""), "reply")
  <2>1. NextRequest("") = "RETRIEVE_IO_CONFIG" /\ "RETRIEVE_IO_CONFIG" \in IoRequests
    BY DEF NextRequest, IoRequests
  <2>2. /\ mbc' \in Boards /\ HandInv' /\ Place' = "reply" /\ mbc'.at \in {"deliver", "reply"}
        /\ mbc'.i = mbc.i /\ mbc'.cmd \in {"RETRIEVE_IO_CONFIG", mbc.cmd}
        /\ mbc'.at = "deliver" => mbc'.cmd = "RETRIEVE_IO_CONFIG" /\ mbc'.ret = "reply"
        /\ pools' \in Pools /\ pools'.read = pools.read /\ pools'.write = pools.write
    BY <1>2, <2>1, SendMailFacts
  <2>3. Place = "selftest"
    BY <1>2 DEF Place, Hands
  <2>4. StageInv'
    BY <2>2, <2>3, StageStays DEF Hands
  <2>5. mbc.i = 0
    BY <2>3 DEF MInv, StageInv
  <2>6. First => First'
    BY <2>2, <2>5 DEF First
  <2>7. ListInv'
    BY <1>1, <1>2, <2>2, <2>6, SizesStay DEF MInv, ListInv
  <2> QED BY <1>1, <2>2, <2>4, <2>7, StageFacts, BoardStep
<1>3. CASE /\ mbc.at = "replied" /\ mbc.cmd \in {"RETRIEVE_IO_CONFIG", "IDENTIFY"}
           /\ SendMail(NextRequest(mbc.cmd), "reply")
  <2>1. NextRequest(mbc.cmd) \in IoRequests
    BY <1>3 DEF NextRequest, IoRequests
  <2>2. /\ mbc' \in Boards /\ HandInv' /\ Place' = "reply" /\ mbc'.at \in {"deliver", "reply"}
        /\ mbc'.i = mbc.i
        /\ mbc'.at = "deliver" => mbc'.ret = "reply"
        /\ pools' \in Pools /\ pools'.read = pools.read /\ pools'.write = pools.write
    BY <1>3, <2>1, SendMailFacts
  <2>3. Place = "replied"
    BY <1>3 DEF Place, Hands
  <2>4. StageInv'
    BY <2>2, <2>3, StageStays DEF Hands
  <2>5. ~ First
    BY <1>3 DEF First
  <2>6. ListInv'
    BY <1>1, <1>3, <2>2, <2>5, SizesStay DEF MInv, ListInv
  <2> QED BY <1>1, <2>2, <2>4, <2>6, StageFacts, BoardStep
<1>4. CASE /\ mbc.at = "replied" /\ mbc' = [mbc EXCEPT !.at = "build", !.i = 0]
           /\ UNCHANGED pools
  <2>1. /\ mbc' \in Boards /\ mbc'.at = "build" /\ mbc'.i = 0 /\ 0 \in All
    BY <1>4, StageFacts, SetFacts DEF Boards, Places
  <2>2. Place = "replied" /\ Place' = "build" /\ HandInv'
    BY <1>4, <2>1 DEF Place, Hands, HandInv
  <2>3. mbc.i = 0
    BY <2>2 DEF MInv, StageInv
  <2>4. StageInv'
    BY <2>1, <2>2, <2>3, StageStays DEF Hands
  <2>5. ~ First
    BY <1>4 DEF First
  <2>6. ListInv'
    BY <1>1, <1>4, <2>1, <2>3, <2>5, SizesStay DEF MInv, ListInv
  <2> QED BY <1>1, <1>4, <2>1, <2>2, <2>4, <2>6, StageFacts, BoardStep
<1> QED BY <1>2, <1>3, <1>4 DEF negotiate

LEMMA buildKeeps ==
    ASSUME MInv, InterruptsOn, build,
           UNCHANGED <<io, printer, writer, printed, mbcload>>
    PROVE  MInv'
<1> DEFINE p == mbc.i + 1
<1>1. /\ mbc.at = "build" /\ p \in 1..N
      /\ mbc' = [mbc EXCEPT !.i = p, !.pkt = p, !.cmd = "NEW_PACKET",
                            !.at = IF Kind(p) = "iogp" THEN "build" ELSE "deliver",
                            !.ret = IF Kind(p) = "read" THEN "readBack" ELSE "taken"]
      /\ pools' = IF Kind(p) # "iogp" THEN pools
                  ELSE IF p = Layout.reads + Layout.writes + 1 THEN [pools EXCEPT !.iogp = <<p>>]
                  ELSE [pools EXCEPT !.iogp = Append(@, p)]
      /\ UNCHANGED <<mess, blocks, per, idle, pr>>
  BY LayoutFacts, StageFacts DEF build
<1>2. /\ mbc \in Boards /\ p \in All /\ p > 0 /\ p \in Nat /\ mbc.i \in Nat /\ p = mbc.i + 1
      /\ R \in Nat /\ N \in Nat
  BY <1>1, StageFacts, SetFacts DEF All
<1> HIDE DEF p
<1>3. /\ mbc' \in Boards /\ mbc'.i = p /\ mbc'.pkt = p /\ mbc'.cmd = "NEW_PACKET"
      /\ mbc'.at = IF Kind(p) = "iogp" THEN "build" ELSE "deliver"
      /\ mbc'.ret = IF Kind(p) = "read" THEN "readBack" ELSE "taken"
  BY <1>1, <1>2 DEF Boards, Places, Hands, Commands
<1>4. /\ Kind(p) = "read" => p \in 1 .. R
      /\ Kind(p) = "iogp" => p \in IoPackets
      /\ Kind(p) # "read" => p > R
  BY <1>1, <1>2, SetFacts, LayoutFacts, StageFacts
<1>5. pools' \in Pools /\ pools'.read = pools.read /\ pools'.write = pools.write
  <2>1. Kind(p) = "iogp" =>
          <<p>> \in Seq(IoPackets) /\ Append(pools.iogp, p) \in Seq(IoPackets)
    BY <1>4, PoolFacts, AppendProperties
  <2> QED BY <1>1, <2>1, StageFacts DEF Pools
<1>6. "NEW_PACKET" \notin IoRequests
  BY DEF IoRequests
<1>7. HandInv'
  BY <1>3, <1>6 DEF HandInv
<1>8. Place' = IF Kind(p) = "iogp" THEN "build" ELSE IF Kind(p) = "read" THEN "readBack" ELSE "taken"
  BY <1>3 DEF Place, Hands
<1>9. StageInv'
  BY <1>2, <1>3, <1>4, <1>8, SizesStay DEF StageInv, Hands
<1>10. ~ First
  BY <1>1 DEF First
<1>11. ListInv'
  BY <1>1, <1>2, <1>3, <1>5, <1>10, SizesStay DEF MInv, ListInv
<1> QED BY <1>1, <1>3, <1>5, <1>7, <1>9, <1>11, StageFacts, BoardStep

LEMMA builtKeeps ==
    ASSUME MInv, InterruptsOn, built,
           UNCHANGED <<io, printer, writer, printed, mbcload>>
    PROVE  MInv'
<1>1. UNCHANGED <<mess, pools, blocks, per, idle, pr>>
  BY DEF built
<1>2. CASE mbc.at = "taken" /\ GotoMbc("build")
  <2>1. "build" \in Places
    BY DEF Places
  <2>2. /\ mbc' \in Boards /\ HandInv' /\ Place' = "build" /\ mbc'.at = "build" /\ mbc'.i = mbc.i
    BY <1>2, <2>1, GotoFacts
  <2>3. StageInv'
    BY <2>2, StageStays DEF Hands
  <2>4. ListInv'
    BY <1>1, <1>2, <2>2, SizesStay DEF MInv, ListInv, First
  <2> QED BY <1>1, <2>2, <2>3, <2>4, StageFacts, BoardStep
<1>3. CASE mbc.at = "build" /\ mbc.i + 1 \notin Packets /\ GotoMbc("wait")
  <2>1. "wait" \in Places
    BY DEF Places
  <2>2. /\ mbc' \in Boards /\ HandInv' /\ Place' = "wait" /\ mbc'.at = "wait" /\ mbc'.i = mbc.i
    BY <1>3, <2>1, GotoFacts
  <2>3. mbc.i = N
    BY <1>3, StageFacts, LayoutFacts DEF All
  <2>4. StageInv'
    BY <2>2, <2>3, SizesStay DEF StageInv, Hands
  <2>5. ListInv'
    BY <1>1, <1>3, <2>2, SizesStay DEF MInv, ListInv, First
  <2> QED BY <1>1, <2>2, <2>4, <2>5, StageFacts, BoardStep
<1> QED BY <1>2, <1>3 DEF built


-----------------------------------------------------------------------------
(* Mail is taken off the list and acted upon *)

LEMMA MailFacts ==
    ASSUME MInv, NEW mail \in Mails
    PROVE  /\ mail = <<mail[1], mail[2]>> /\ mail[1] \in All /\ mail[2] \in Commands
           /\ mail[2] = "READBLOCK" => mail[1] \in 1 .. R
           /\ mail[2] \in IoRequests => mail[1] \in IoPackets
           /\ mail[2] \in {"READBLOCK", "WRITEBLOCK"} \union Requests \union IoRequests
<1>1. mail = <<mail[1], mail[2]>> /\ mail[1] \in All /\ mail[2] \in Commands
  BY SetFacts, StageFacts
<1>2. "READBLOCK" \notin Requests \union IoRequests /\ "WRITEBLOCK" \notin Requests \union IoRequests
      /\ Requests \cap IoRequests = {} /\ "READBLOCK" # "WRITEBLOCK"
  BY DEF Requests, IoRequests
<1>3. CASE mail \in (1 .. R) \X {"READBLOCK"}
  <2>1. mail[1] \in 1 .. R /\ mail[2] \in {"READBLOCK"}
    BY <1>3, PairIs
  <2> QED BY <1>1, <1>2, <2>1
<1>4. CASE mail \in (R + 1 .. R + W) \X {"WRITEBLOCK"}
  <2>1. mail[2] \in {"WRITEBLOCK"}
    BY <1>4, PairIs
  <2> QED BY <1>1, <1>2, <2>1
<1>5. CASE mail \in {N} \X Requests
  <2>1. mail[2] \in Requests
    BY <1>5, PairIs
  <2> QED BY <1>1, <1>2, <2>1
<1>6. CASE mail \in IoPackets \X IoRequests
  <2>1. mail[1] \in IoPackets /\ mail[2] \in IoRequests
    BY <1>6, PairIs
  <2> QED BY <1>1, <1>2, <2>1
<1> QED BY <1>3, <1>4, <1>5, <1>6 DEF Mails

LEMMA ProcessKeeps ==
    ASSUME MInv, UNCHANGED <<io, printer, writer, printed, mbcload>>,
           NEW m, (m = waitIntr /\ mess.intr > 0) \/ (m = mess /\ ~ (mbc.i <= R)),
           Process(m, mbc.at), mess.inqueue > 0,
           mbc.at \in {"reply", "readBack", "taken", "mail"}
    PROVE  MInv'
<1>1. mess \in Lists /\ mess.list \in Seq(Mails) /\ mess.list # <<>> /\ mess.inqueue = Len(mess.list)
      /\ mess.inqueue \in Nat /\ mess.intr \in Nat
  <2>1. /\ mess \in Lists /\ mess.list \in Seq(Mails) /\ mess.inqueue = Len(mess.list)
        /\ mess.inqueue \in Nat /\ mess.intr \in Nat
    BY StageFacts DEF MInv, ListInv, Lists
  <2> QED BY <2>1, EmptySeq
<1>2. /\ m \in Lists /\ m.list = mess.list /\ m.inqueue = mess.inqueue /\ m.mail = mess.mail
      /\ mbc.i <= R => m.intr = mess.intr - 1
  <2>1. CASE m = waitIntr /\ mess.intr > 0
    <3>1. mess.intr - 1 \in Nat
      BY <1>1, <2>1
    <3> QED BY <1>1, <2>1, <3>1 DEF waitIntr, Lists
  <2>2. CASE m = mess /\ ~ (mbc.i <= R)
    BY <1>1, <2>2
  <2> QED BY <2>1, <2>2
<1>3. /\ mess' = [m EXCEPT !.list = Tail(@), !.inqueue = @ - 1, !.mail = @ /\ m.inqueue # 1]
      /\ mbc' = [mbc EXCEPT !.at = "process", !.ret = mbc.at, !.pkt = Head(m.list)[1],
                            !.cmd = Head(m.list)[2]]
      /\ UNCHANGED <<pools, blocks, per, idle, pr>>
  BY DEF Process, Dequeued
<1>4. /\ Head(mess.list) \in Mails /\ Tail(mess.list) \in Seq(Mails)
      /\ Len(Tail(mess.list)) = Len(mess.list) - 1
  BY <1>1, HeadTailProperties
<1>5. /\ mess' \in Lists /\ mess'.list = Tail(mess.list) /\ mess'.inqueue = mess.inqueue - 1
      /\ mess'.mail = (mess.mail /\ mess.inqueue # 1) /\ mess'.intr = m.intr
  <2>1. mess.inqueue - 1 \in Nat /\ m.intr \in Nat /\ m.mail \in BOOLEAN
    BY <1>1, <1>2 DEF Lists
  <2>2. /\ mess'.list = Tail(mess.list) /\ mess'.inqueue = mess.inqueue - 1
        /\ mess'.mail = (mess.mail /\ mess.inqueue # 1) /\ mess'.intr = m.intr
        /\ mess' = [list |-> mess'.list, inqueue |-> mess'.inqueue, mail |-> mess'.mail,
                    intr |-> mess'.intr]
    BY <1>2, <1>3 DEF Lists
  <2>3. mess'.mail \in BOOLEAN
    BY <2>2
  <2> QED BY <1>4, <2>1, <2>2, <2>3 DEF Lists
<1>6. /\ Head(mess.list)[1] \in All /\ Head(mess.list)[2] \in Commands
      /\ Head(mess.list) = <<Head(mess.list)[1], Head(mess.list)[2]>>
  BY <1>4, MailFacts
<1>7. /\ mbc' \in Boards /\ mbc'.at = "process" /\ mbc'.ret = mbc.at /\ mbc'.i = mbc.i
      /\ <<mbc'.pkt, mbc'.cmd>> \in Mails
  <2>1. mbc \in Boards /\ mbc.at \in Places
    BY StageFacts DEF Places
  <2>2. /\ mbc' \in Boards /\ mbc'.at = "process" /\ mbc'.ret = mbc.at /\ mbc'.i = mbc.i
        /\ mbc'.pkt = Head(mess.list)[1] /\ mbc'.cmd = Head(mess.list)[2]
    BY <1>2, <1>3, <1>6, <2>1 DEF Boards, Hands
  <2> QED BY <1>4, <1>6, <2>2
<1>8. HandInv'
  BY <1>7, SizesStay DEF HandInv
<1>9. Place' = mbc.at /\ Place = mbc.at
  BY <1>7 DEF Place, Hands
<1>10. StageInv'
  BY <1>7, <1>9, StageStays
<1>11. ~ First'
  BY <1>7 DEF First
<1>12. mess.inqueue > 0 => mess.mail
  BY DEF MInv, ListInv
<1>13. ListInv'
  <2>1. mess'.inqueue = Len(mess'.list)
    BY <1>1, <1>4, <1>5
  <2> DEFINE many == mess'.inqueue > 0
             some == mess.inqueue > 0
             one == mess.inqueue = 1
  <2>0. (many <=> ~ one) /\ some
    <3>1. mess'.inqueue = mess.inqueue - 1 /\ mess.inqueue \in Nat
      BY <1>1, <1>5
    <3> QED BY <3>1
  <2> HIDE DEF many, some, one
  <2>2a. mess'.mail = (mess.mail /\ ~ one) /\ (some => mess.mail)
    BY <1>5, <1>12, Zenon DEF one, some
  <2>2. many => mess'.mail
    BY <2>0, <2>2a, Zenon
  <2>3. mess'.mail => many
    BY <2>0, <2>2a, Zenon
  <2>4. mbc'.i <= R' => mess'.intr = Len(mess'.list)
    <3> SUFFICES ASSUME mbc.i <= R PROVE mess'.intr = Len(mess'.list)
      BY <1>7, SizesStay
    <3>1. mess.intr = Len(mess.list)
      BY DEF MInv, ListInv
    <3> QED BY <1>1, <1>2, <1>4, <1>5, <3>1
  <2> QED BY <1>3, <2>1, <2>2, <2>3, <2>4 DEF MInv, ListInv, many
<1> QED BY <1>3, <1>5, <1>7, <1>8, <1>10, <1>13, StageFacts, BoardStep

LEMMA mailInStartKeeps ==
    ASSUME MInv, mailInStart, UNCHANGED <<io, printer, writer, printed, mbcload>>
    PROVE  MInv'
<1>1. /\ mess.inqueue = Len(mess.list) /\ mess.inqueue \in Nat /\ mess.intr \in Nat
      /\ mbc.i <= R => mess.intr = Len(mess.list)
      /\ mess.mail /\ ~ First /\ mbc.at # "hung" => mess.inqueue > 0
  BY StageFacts DEF MInv, ListInv, Lists
<1>2. Place = mbc.at \/ mbc.at \in Hands
  BY DEF Place
<1>3. CASE mbc.at \in {"reply", "readBack"} /\ mess.intr > 0 /\ Process(waitIntr, mbc.at)
  <2>1. mbc.i <= R
    BY <1>2, <1>3, StageFacts DEF MInv, StageInv, Hands
  <2>2. mess.inqueue > 0
    BY <1>1, <1>3, <2>1
  <2>3. (waitIntr = waitIntr /\ mess.intr > 0) \/ (waitIntr = mess /\ ~ (mbc.i <= R))
    BY <1>3
  <2>4. Process(waitIntr, mbc.at) /\ mbc.at \in {"reply", "readBack", "taken", "mail"}
    BY <1>3
  <2> QED BY <2>2, <2>3, <2>4, ProcessKeeps
<1>4. CASE mbc.at = "taken" /\ mess.mail /\ Process(mess, "taken")
  <2>1. mbc.i > R /\ ~ First
    BY <1>2, <1>4 DEF MInv, StageInv, Hands, First
  <2>2. ~ (mbc.i <= R)
    BY <2>1, StageFacts
  <2>3. Process(mess, mbc.at)
    BY <1>4
  <2> QED BY <1>1, <1>4, <2>1, <2>2, <2>3, ProcessKeeps
<1> QED BY <1>3, <1>4 DEF mailInStart

LEMMA mbcMailKeeps ==
    ASSUME MInv, mbcMail, UNCHANGED <<io, printer, writer, printed, mbcload>>
    PROVE  MInv'
<1>1. mbc.at = "mail" /\ Place = "mail" /\ mbc.i = N /\ ~ First
  <2>1. mbc.at = "mail"
    BY DEF mbcMail
  <2>2. Place = "mail"
    BY <2>1 DEF Place, Hands
  <2> QED BY <2>1, <2>2 DEF MInv, StageInv, First
<1>2. CASE mess.mail /\ Process(mess, "mail")
  <2>1. mess.inqueue > 0
    BY <1>1, <1>2 DEF MInv, ListInv
  <2>2. ~ (mbc.i <= R)
    BY <1>1, StageFacts
  <2>3. Process(mess, mbc.at)
    BY <1>1, <1>2
  <2> QED BY <1>1, <1>2, <2>1, <2>2, <2>3, ProcessKeeps
<1>3. CASE /\ ~ mess.mail /\ GotoMbc(IF mbc.flagged THEN "online" ELSE "write")
           /\ UNCHANGED <<mess, pools, blocks, per, idle, pr>>
  <2>1. PICK place \in {"online", "write"} : GotoMbc(place)
    BY <1>3
  <2>2. place \in Places
    BY DEF Places
  <2>3. /\ mbc' \in Boards /\ HandInv' /\ Place' = place /\ mbc'.at = place /\ mbc'.i = mbc.i
    BY <2>1, <2>2, GotoFacts
  <2>4. StageInv'
    BY <1>1, <2>3, StageStays DEF Hands
  <2>5. ListInv'
    BY <1>1, <1>3, <2>3, SizesStay DEF MInv, ListInv
  <2> QED BY <1>3, <2>3, <2>4, <2>5, StageFacts, BoardStep
<1> QED BY <1>2, <1>3 DEF mbcMail

LEMMA mbcWaitKeeps ==
    ASSUME MInv, mbcWait, UNCHANGED <<io, printer, writer, printed, mbcload>>
    PROVE  MInv'
<1>1. /\ mbc.at = "wait" /\ mess.intr > 0 /\ mess' = waitIntr /\ GotoMbc("mail")
      /\ UNCHANGED <<pools, blocks, per, idle, pr>>
  BY DEF mbcWait
<1>2. Place = "wait" /\ mbc.i = N
  BY <1>1 DEF Place, Hands, MInv, StageInv
<1>3. "mail" \in Places
  BY DEF Places
<1>4. /\ mbc' \in Boards /\ HandInv' /\ Place' = "mail" /\ mbc'.at = "mail" /\ mbc'.i = mbc.i
  BY <1>1, <1>3, GotoFacts
<1>5. StageInv'
  BY <1>2, <1>4, StageStays DEF Hands
<1>6. mess \in Lists /\ mess.intr - 1 \in Nat
  BY <1>1, StageFacts DEF Lists
<1>7. /\ mess' \in Lists /\ mess'.list = mess.list /\ mess'.inqueue = mess.inqueue
      /\ mess'.mail = mess.mail
  BY <1>1, <1>6 DEF waitIntr, Lists
<1>8. ListInv'
  <2>1. ~ First /\ mbc.at # "hung"
    BY <1>1 DEF First
  <2>2. ~ (mbc'.i <= R')
    BY <1>2, <1>4, SizesStay, StageFacts
  <2> QED BY <1>1, <1>7, <2>1, <2>2 DEF MInv, ListInv
<1> QED BY <1>1, <1>4, <1>5, <1>7, <1>8, StageFacts, BoardStep

LEMMA AfterMailFacts ==
    ASSUME MInv, mbc.at = "process"
    PROVE  /\ AfterMail \in {"reply", "replied", "build", "taken", "mail"} /\ AfterMail \in Places
           /\ Place = mbc.ret /\ mbc.ret \in {"reply", "readBack", "taken", "mail"}
           /\ AfterMail = "build" => mbc.i \in 1 .. R
           /\ AfterMail = "replied" => mbc.cmd \in IoRequests
           /\ \/ AfterMail = "build"
              \/ AfterMail = Place
              \/ {Place, AfterMail} \subseteq {"selftest", "reply", "replied"}
           /\ <<mbc.pkt, mbc.cmd>> \in Mails /\ ~ First
           /\ mbc.cmd = "READBLOCK" => mbc.pkt \in 1 .. R
           /\ mbc.cmd \in IoRequests => mbc.pkt \in IoPackets
           /\ mbc.cmd \in {"READBLOCK", "WRITEBLOCK"} \union Requests \union IoRequests
<1>1. mbc.ret \in {"reply", "readBack", "taken", "mail"} /\ <<mbc.pkt, mbc.cmd>> \in Mails
  BY DEF MInv, HandInv
<1>2. Place = mbc.ret
  BY DEF Place, Hands
<1>3. /\ mbc.ret = "reply" => AfterMail = IF mbc.cmd \in IoRequests THEN "replied" ELSE "reply"
      /\ mbc.ret = "readBack" => AfterMail = "build"
      /\ mbc.ret \in {"taken", "mail"} => AfterMail = mbc.ret
  BY DEF AfterMail
<1>4. mbc.ret = "readBack" => mbc.i \in 1 .. R
  BY <1>2 DEF MInv, StageInv
<1>5. /\ mbc.cmd = "READBLOCK" => mbc.pkt \in 1 .. R
      /\ mbc.cmd \in IoRequests => mbc.pkt \in IoPackets
      /\ mbc.cmd \in {"READBLOCK", "WRITEBLOCK"} \union Requests \union IoRequests
  BY <1>1, MailFacts
<1> QED BY <1>1, <1>2, <1>3, <1>4, <1>5 DEF First, Places

LEMMA ProcessedFacts ==
    ASSUME MInv, mbc.at = "process", mbcload' = mbcload, Processed
    PROVE  /\ mbc' \in Boards /\ HandInv' /\ StageInv' /\ Place' = AfterMail
           /\ mbc'.at = AfterMail /\ mbc'.i = mbc.i /\ ~ First'
<1>1. IF mbc.ret = "reply" THEN GotoMbc(AfterMail) ELSE Done(AfterMail)
  BY DEF Processed
<1>2. /\ mbc' \in Boards /\ HandInv' /\ Place' = AfterMail /\ mbc'.at = AfterMail /\ mbc'.i = mbc.i
      /\ mbc.ret = "reply" => mbc'.cmd = mbc.cmd
  BY <1>1, AfterMailFacts, GotoFacts, DoneFacts
<1>3. StageInv'
  BY <1>2, AfterMailFacts, StageStays DEF Hands
<1>4. ~ First'
  <2>1. CASE AfterMail = "reply"
    <3>1. mbc.ret = "reply" /\ mbc.cmd \notin IoRequests
      BY <2>1, AfterMailFacts DEF AfterMail
    <3>2. mbc.cmd \in {"READBLOCK", "WRITEBLOCK"} \union Requests
      BY <3>1, AfterMailFacts
    <3> QED BY <1>2, <3>1, <3>2 DEF First, IoRequests, Requests
  <2>2. CASE AfterMail # "reply"
    BY <1>2, <2>2, AfterMailFacts DEF First
  <2> QED BY <2>1, <2>2
<1> QED BY <1>2, <1>3, <1>4

LEMMA ProcessMailKeeps ==
    ASSUME MInv, ProcessMail, UNCHANGED <<io, printer, writer, printed, mbcload>>
    PROVE  MInv'
<1>1. mbc.at = "process" /\ UNCHANGED <<mess, per, idle, pr>>
  BY DEF ProcessMail
<1>2. mbc.pkt \in All /\ mbc.cmd \in Commands /\ mbc \in Boards /\ pools \in Pools /\ blocks \in Blocks
  BY StageFacts
<1>3. /\ blocks.read = Len(pools.read) /\ blocks.write = Len(pools.write)
      /\ blocks.read \in Nat /\ blocks.write \in Nat
      /\ pools.read \in Seq(1 .. R) /\ pools.write \in Seq(All) /\ pools.iogp \in Seq(IoPackets)
  BY PoolFacts
(* The list as it was, and what has been done with the packet.               *)
<1>4. ASSUME Processed, pools' \in Pools, blocks' \in Blocks,
             blocks'.read = Len(pools'.read), blocks'.write = Len(pools'.write)
      PROVE  MInv'
  <2>1. /\ mbc' \in Boards /\ HandInv' /\ StageInv' /\ mbc'.at = AfterMail /\ mbc'.i = mbc.i
        /\ ~ First' /\ ~ First /\ AfterMail \in Places
    BY <1>1, <1>4, ProcessedFacts, AfterMailFacts
  <2>2. ListInv'
    BY <1>1, <1>4, <2>1, SizesStay DEF MInv, ListInv
  <2>3. mbc'.at # "deliverNow"
    BY <2>1 DEF Places
  <2> QED BY <1>1, <1>4, <2>1, <2>2, <2>3, StageFacts, BoardStep
<1>5. CASE /\ mbc.cmd = "READBLOCK" /\ Processed
           /\ blocks' = [blocks EXCEPT !.read = @ + 1]
           /\ pools' = [pools EXCEPT !.read = Append(@, mbc.pkt)]
  <2>1. mbc.pkt \in 1 .. R
    BY <1>1, <1>5, AfterMailFacts
  <2>2. /\ Append(pools.read, mbc.pkt) \in Seq(1 .. R)
        /\ Len(Append(pools.read, mbc.pkt)) = Len(pools.read) + 1
    BY <1>3, <2>1, AppendProperties
  <2>3. pools' \in Pools /\ pools'.read = Append(pools.read, mbc.pkt) /\ pools'.write = pools.write
    BY <1>2, <1>5, <2>2 DEF Pools
  <2>4. blocks' \in Blocks /\ blocks'.read = blocks.read + 1 /\ blocks'.write = blocks.write
    BY <1>2, <1>5 DEF Blocks
  <2> QED BY <1>3, <1>4, <1>5, <2>2, <2>3, <2>4
<1>6. CASE /\ mbc.cmd \in {"WRITEBLOCK", "ASCII_STATUS"} /\ Processed
           /\ blocks' = [blocks EXCEPT !.write = @ + 1]
           /\ pools' = [pools EXCEPT !.write = Append(@, mbc.pkt)]
  <2>2. /\ Append(pools.write, mbc.pkt) \in Seq(All)
        /\ Len(Append(pools.write, mbc.pkt)) = Len(pools.write) + 1
    BY <1>2, <1>3, AppendProperties
  <2>3. pools' \in Pools /\ pools'.write = Append(pools.write, mbc.pkt) /\ pools'.read = pools.read
    BY <1>2, <1>6, <2>2 DEF Pools
  <2>4. blocks' \in Blocks /\ blocks'.write = blocks.write + 1 /\ blocks'.read = blocks.read
    BY <1>2, <1>6 DEF Blocks
  <2> QED BY <1>3, <1>4, <1>6, <2>2, <2>3, <2>4
<1>7. CASE mbc.cmd \in IoRequests /\ IoReply
  <2>1. mbc.pkt \in IoPackets /\ Processed /\ blocks' = blocks
        /\ pools' = [pools EXCEPT !.iogp = Append(@, mbc.pkt)]
    BY <1>1, <1>7, AfterMailFacts DEF IoReply
  <2>2. Append(pools.iogp, mbc.pkt) \in Seq(IoPackets)
    BY <1>3, <2>1, AppendProperties
  <2>3. pools' \in Pools /\ pools'.read = pools.read /\ pools'.write = pools.write
    BY <1>2, <2>1, <2>2 DEF Pools
  <2> QED BY <1>2, <1>3, <1>4, <2>1, <2>3
<1>8. CASE mbc.cmd \notin IoRequests /\ Answered
  <2>1. /\ mbc' = [mbc EXCEPT !.at = "deliver", !.ret = AfterMail, !.pkt = mbc.pkt, !.cmd = "ANSWER"]
        /\ UNCHANGED <<pools, blocks>>
    BY <1>8 DEF Answered, Deliver
  <2>2. "ANSWER" \in Commands /\ "ANSWER" \notin IoRequests /\ AfterMail \in Places
    BY <1>1, AfterMailFacts DEF Commands, IoRequests
  <2>3. /\ mbc' \in Boards /\ mbc'.at = "deliver" /\ mbc'.ret = AfterMail /\ mbc'.pkt = mbc.pkt
        /\ mbc'.cmd = "ANSWER" /\ mbc'.i = mbc.i
    BY <1>2, <2>1, <2>2 DEF Boards, Hands
  <2>4. AfterMail \in {"reply", "readBack", "build", "taken", "mail", "write", "wait"}
        \/ AfterMail = "replied"
    BY <1>1, AfterMailFacts
  <2>5. AfterMail # "replied"
    BY <1>1, <1>8, AfterMailFacts
  <2>6. HandInv' /\ Place' = AfterMail
    BY <1>2, <2>2, <2>3, <2>4, <2>5, DeliverFacts
  <2>7. StageInv'
    BY <1>1, <2>3, <2>6, AfterMailFacts, StageStays
  <2>8. ~ First /\ ~ First'
    BY <1>1, <2>3, AfterMailFacts DEF First
  <2>9. ListInv'
    BY <1>1, <2>1, <2>3, <2>8, SizesStay DEF MInv, ListInv
  <2> QED BY <1>1, <1>2, <2>1, <2>3, <2>6, <2>7, <2>9, StageFacts, BoardStep
<1> QED BY <1>5, <1>6, <1>7, <1>8 DEF ProcessMail

-----------------------------------------------------------------------------
(* The board tells that it is ready, and returns WRITE packets *)

LEMMA mbcOnlineKeeps ==
    ASSUME MInv, mbcOnline, UNCHANGED <<io, printer, writer, printed, mbcload>>
    PROVE  MInv'
<1>1. mbc.at = "online" /\ UNCHANGED <<mess, blocks, per, idle, pr>>
  BY DEF mbcOnline
<1>2. Place = "online" /\ mbc.i = N /\ ~ First
  BY <1>1, StageFacts DEF Place, Hands, MInv, StageInv, First
<1>3. mbc \in Boards /\ pools \in Pools
  BY StageFacts
<1>4. CASE /\ pools.iogp # <<>>
           /\ mbc' = [mbc EXCEPT !.at = "deliver", !.ret = "write", !.flagged = FALSE,
                                 !.pkt = Head(pools.iogp), !.cmd = "ASYNC_IO_STATUS"]
           /\ pools' = [pools EXCEPT !.iogp = Tail(@)]
  <2>1. /\ Head(pools.iogp) \in IoPackets /\ Head(pools.iogp) \in All
        /\ Tail(pools.iogp) \in Seq(IoPackets)
    BY <1>4, PoolFacts
  <2>2. "ASYNC_IO_STATUS" \in Commands /\ "write" \in Places
    BY DEF Commands, IoRequests, Places
  <2>3. /\ mbc' \in Boards /\ mbc'.at = "deliver" /\ mbc'.ret = "write" /\ mbc'.i = mbc.i
        /\ mbc'.cmd = "ASYNC_IO_STATUS" /\ mbc'.pkt = Head(pools.iogp)
    BY <1>3, <1>4, <2>1, <2>2 DEF Boards, Hands
  <2>4. pools' \in Pools /\ pools'.read = pools.read /\ pools'.write = pools.write
    BY <1>3, <1>4, <2>1 DEF Pools
  <2>5. HandInv' /\ Place' = "write"
    BY <2>1, <2>2, <2>3, DeliverFacts
  <2>6. StageInv'
    BY <1>2, <2>3, <2>5, StageStays
  <2>7. ListInv'
    BY <1>1, <1>2, <2>3, <2>4, SizesStay DEF MInv, ListInv
  <2> QED BY <1>1, <2>3, <2>4, <2>5, <2>6, <2>7, StageFacts, BoardStep
<1>5. CASE mbc' = [mbc EXCEPT !.at = "write", !.flagged = FALSE] /\ UNCHANGED pools
  <2>1. "write" \in Places
    BY DEF Places
  <2>2. mbc' \in Boards /\ mbc'.at = "write" /\ mbc'.i = mbc.i
    BY <1>3, <1>5, <2>1 DEF Boards
  <2>3. HandInv' /\ Place' = "write"
    BY <2>2 DEF HandInv, Place, Hands
  <2>4. StageInv'
    BY <1>2, <2>2, <2>3, StageStays DEF Hands
  <2>5. ListInv'
    BY <1>1, <1>2, <1>5, <2>2, SizesStay DEF MInv, ListInv
  <2> QED BY <1>1, <1>3, <1>5, <2>2, <2>3, <2>4, <2>5, StageFacts, BoardStep
<1> QED BY <1>4, <1>5 DEF mbcOnline

LEMMA mbcWriteKeeps ==
    ASSUME MInv, mbcWrite, UNCHANGED <<io, printer, writer, printed, mbcload>>
    PROVE  MInv'
<1>1. mbc.at = "write" /\ UNCHANGED <<mess, per, idle, pr>>
  BY DEF mbcWrite
<1>2. Place = "write" /\ mbc.i = N /\ ~ First /\ "wait" \in Places
  BY <1>1, StageFacts DEF Place, Hands, MInv, StageInv, First, Places
<1>3. /\ mbc \in Boards /\ pools \in Pools /\ blocks \in Blocks
      /\ blocks.read = Len(pools.read) /\ blocks.write = Len(pools.write)
      /\ blocks.read \in Nat /\ blocks.write \in Nat /\ pools.write \in Seq(All)
  BY StageFacts, PoolFacts
<1>4. CASE GotoMbc("wait") /\ UNCHANGED <<pools, blocks>>
  <2>1. mbc' \in Boards /\ HandInv' /\ Place' = "wait" /\ mbc'.at = "wait" /\ mbc'.i = mbc.i
    BY <1>2, <1>4, GotoFacts
  <2>2. StageInv'
    BY <1>2, <2>1, StageStays DEF Hands
  <2>3. ListInv'
    BY <1>1, <1>2, <1>4, <2>1, SizesStay DEF MInv, ListInv
  <2> QED BY <1>1, <1>3, <1>4, <2>1, <2>2, <2>3, StageFacts, BoardStep
<1>5. CASE /\ blocks.write > 0 /\ pools.write # <<>>
           /\ blocks' = [blocks EXCEPT !.write = @ - 1]
           /\ Deliver(Head(pools.write), "UNDERSTOOD", "wait")
           /\ pools' = [pools EXCEPT !.write = Tail(@)]
  <2>1. /\ Head(pools.write) \in All /\ Tail(pools.write) \in Seq(All)
        /\ Len(Tail(pools.write)) = Len(pools.write) - 1
    BY <1>3, <1>5, HeadTailProperties
  <2>2. "UNDERSTOOD" \in Commands /\ "UNDERSTOOD" \notin IoRequests
    BY DEF Commands, IoRequests
  <2>3. /\ mbc' \in Boards /\ mbc'.at = "deliver" /\ mbc'.ret = "wait" /\ mbc'.i = mbc.i
        /\ mbc'.cmd = "UNDERSTOOD" /\ mbc'.pkt = Head(pools.write)
    BY <1>2, <1>3, <1>5, <2>1, <2>2 DEF Boards, Hands, Deliver
  <2>4. /\ pools' \in Pools /\ pools'.read = pools.read
        /\ Len(pools'.write) = Len(pools.write) - 1
    BY <1>3, <1>5, <2>1 DEF Pools
  <2>5. blocks' \in Blocks /\ blocks'.write = blocks.write - 1 /\ blocks'.read = blocks.read
    BY <1>3, <1>5 DEF Blocks
  <2>6. HandInv' /\ Place' = "wait"
    BY <2>1, <2>2, <2>3, DeliverFacts
  <2>7. StageInv'
    BY <1>2, <2>3, <2>6, StageStays
  <2>8. ListInv'
    BY <1>1, <1>2, <1>3, <2>3, <2>4, <2>5, SizesStay DEF MInv, ListInv
  <2> QED BY <1>1, <2>3, <2>4, <2>5, <2>6, <2>7, <2>8, StageFacts, BoardStep
<1>6. ~ (blocks.write > 0 /\ pools.write = <<>>)
  BY <1>3, EmptySeq
<1> QED BY <1>4, <1>5, <1>6 DEF mbcWrite

LEMMA MbcProcessKeeps ==
    ASSUME MInv, MbcProcess
    PROVE  MInv'
<1>1. InterruptsOn /\ UNCHANGED <<io, printer, writer, printed, mbcload>>
  BY DEF MbcProcess
<1>2. \/ deliverTest \/ deliverNow \/ negotiate \/ build \/ built \/ mailInStart
      \/ ProcessMail \/ mbcWait \/ mbcMail \/ mbcOnline \/ mbcWrite
  BY DEF MbcProcess
<1> QED
  BY <1>1, <1>2, deliverTestKeeps, deliverNowKeeps, negotiateKeeps, buildKeeps, builtKeeps,
     mailInStartKeeps, ProcessMailKeeps, mbcWaitKeeps, mbcMailKeeps, mbcOnlineKeeps, mbcWriteKeeps

-----------------------------------------------------------------------------
(* The interrupt handler *)

(* No interrupt comes between the two halves of DeliverPacket: where one does, *)
(* the packet of the interrupt handler is lost (mbc_misc.c:101-106).           *)
Quiet == \A l \in MbcLoads : ~ l.races

LEMMA ReadMailKeeps ==
    ASSUME MInv, ReadMail
    PROVE  MInv'
<1>1. /\ io.vld /\ io' = Restarted.io
      /\ UNCHANGED <<pools, blocks, pr, printer, writer, printed, mbcload>>
  BY DEF ReadMail
<1>2. <<io.pkt, io.cmd>> \in Mails /\ io.pkt \in All /\ io.cmd \in Commands /\ io.idle \in BOOLEAN
  BY <1>1 DEF MInv, BoxInv, Typed, ToBoard
<1>3. /\ mess \in Lists /\ mbc \in Boards /\ per \in Dues /\ idle \in BOOLEAN
      /\ mess.list \in Seq(Mails) /\ mess.inqueue \in Nat /\ mess.intr \in Nat
  BY StageFacts DEF MInv, Typed, Lists
<1>4. io' \in ToBoard /\ ~ io'.vld
  BY <1>1, SetFacts, StageFacts DEF Restarted, ToBoard, Commands, NoPacket
<1>5. BoxInv'
  BY <1>1, <1>4, SizesStay DEF MInv, BoxInv
<1>6. ASSUME UNCHANGED <<mbc, mess>>, per' \in Dues, idle' \in BOOLEAN
      PROVE  MInv'
  <2>1. Typed'
    BY <1>1, <1>4, <1>6, SizesStay DEF MInv, Typed
  <2>2. HandInv' /\ StageInv' /\ ListInv'
    <3>1. HandInv'
      BY <1>1, <1>6, SizesStay DEF MInv, HandInv
    <3>2. StageInv'
      BY <1>1, <1>6, SizesStay DEF MInv, StageInv, Place
    <3>3. First' = First
      BY <1>6 DEF First
    <3>4. ListInv'
      BY <1>1, <1>6, <3>3, SizesStay DEF MInv, ListInv
    <3> QED BY <3>1, <3>2, <3>4
  <2>3. OrderInv'
    BY <1>1, <1>6, OrderStays DEF MInv, OrderInv
  <2> QED BY <1>5, <2>1, <2>2, <2>3 DEF MInv
<1>7. CASE /\ io.cmd \in {"ASYNC_PER_STATUS", "INQUIRE_IO_STATUS"}
           /\ per' = [due |-> TRUE, pkt |-> io.pkt]
           /\ idle' = IF io.cmd = "ASYNC_PER_STATUS" THEN io.idle ELSE idle
           /\ UNCHANGED <<mbc, mess>>
  <2>1. io.pkt = N
    <3>1. io.cmd \in Requests /\ io.cmd \notin IoRequests \union {"READBLOCK", "WRITEBLOCK"}
      BY <1>7 DEF Requests, IoRequests
    <3>2. <<io.pkt, io.cmd>> \in {N} \X Requests
      BY <1>2, <3>1 DEF Mails
    <3> QED BY <3>2
  <2> QED BY <1>2, <1>3, <1>6, <1>7, <2>1 DEF Dues
<1>8. CASE GotoMbc("hung") /\ UNCHANGED <<mess, per, idle>>
  <2>1. mbc' \in Boards /\ mbc'.at = "hung" /\ mbc'.i = mbc.i
    BY <1>3, <1>8 DEF GotoMbc, Boards
  <2>2. HandInv' /\ StageInv'
    BY <2>1 DEF HandInv, StageInv, Place, Hands
  <2>3. ListInv'
    BY <1>1, <1>8, <2>1, SizesStay DEF MInv, ListInv
  <2>4. OrderInv'
    BY <1>1, <2>1, OrderStays
  <2>5. Typed'
    BY <1>1, <1>3, <1>4, <1>8, <2>1, SizesStay DEF MInv, Typed
  <2> QED BY <1>5, <2>2, <2>3, <2>4, <2>5 DEF MInv
<1>9. CASE mess' = Listed(io.pkt, io.cmd) /\ UNCHANGED <<mbc, per, idle>>
  <2>1. /\ Append(mess.list, <<io.pkt, io.cmd>>) \in Seq(Mails)
        /\ Len(Append(mess.list, <<io.pkt, io.cmd>>)) = Len(mess.list) + 1
    BY <1>2, <1>3, AppendProperties
  <2>2. /\ mess' \in Lists /\ mess'.list = Append(mess.list, <<io.pkt, io.cmd>>) /\ mess'.mail
        /\ mess'.inqueue = mess.inqueue + 1 /\ mess'.intr = mess.intr + 1
    <3>1. mess' = [list |-> Append(mess.list, <<io.pkt, io.cmd>>), inqueue |-> mess.inqueue + 1,
                   mail |-> TRUE, intr |-> mess.intr + 1]
      BY <1>3, <1>9 DEF Listed, Lists
    <3>2. mess.inqueue + 1 \in Nat /\ mess.intr + 1 \in Nat
      BY <1>3
    <3> QED BY <2>1, <3>1, <3>2 DEF Lists
  <2>3. ListInv'
    BY <1>1, <1>3, <1>9, <2>1, <2>2, SizesStay DEF MInv, ListInv
  <2>4. HandInv' /\ StageInv'
    BY <1>1, <1>9, SizesStay DEF MInv, HandInv, StageInv, Place
  <2>5. OrderInv'
    BY <1>1, <1>9, OrderStays DEF MInv, OrderInv
  <2>6. Typed'
    BY <1>1, <1>4, <1>9, <2>2, SizesStay DEF MInv, Typed
  <2> QED BY <1>5, <2>3, <2>4, <2>5, <2>6 DEF MInv
<1> QED BY <1>7, <1>8, <1>9 DEF ReadMail

(* Without interrupts between the halves of DeliverPacket, a mailbox found    *)
(* empty is empty when it is filled.                                         *)
LEMMA deliverDueKeeps ==
    ASSUME Quiet, MInv, deliverDue
    PROVE  MInv'
<1>1. /\ MayInterrupt /\ ~ pr.vld /\ per' = Restarted.per
      /\ pr' = [pr EXCEPT !.vld = TRUE, !.pkt = per.pkt, !.what = "UNDERSTOOD"]
      /\ UNCHANGED <<mbc, mess, pools, blocks, idle, io, printer, writer, printed, mbcload>>
  BY DEF deliverDue, Due
<1>2. mbc.at # "deliverNow"
  BY <1>1, StageFacts DEF MayInterrupt, Quiet
<1>3. /\ per' \in Dues /\ pr \in ToPrinter /\ per.pkt \in All
  BY <1>1, SetFacts, StageFacts DEF MInv, Typed, Dues, Restarted, NoPacket
<1>4. pr' \in ToPrinter /\ pr'.pkt = per.pkt /\ pr'.what = "UNDERSTOOD"
  BY <1>1, <1>3 DEF ToPrinter, Commands
<1>5. Typed'
  BY <1>1, <1>3, <1>4, SizesStay DEF MInv, Typed
<1>6. BoxInv'
  BY <1>1, <1>4, SizesStay DEF MInv, BoxInv, IoRequests
<1>7. First' = First /\ Place' = Place
  BY <1>1 DEF First, Place
<1>8. HandInv' /\ StageInv' /\ ListInv'
  BY <1>1, <1>7, SizesStay DEF MInv, HandInv, StageInv, ListInv
<1>9. PrintedInOrder' <=> PrintedInOrder
  BY <1>1, <1>4 DEF PrintedInOrder
<1>10. OrderInv'
  BY <1>1, <1>2, <1>9 DEF MInv, OrderInv, InterruptsOn
<1> QED BY <1>5, <1>6, <1>8, <1>10 DEF MInv

-----------------------------------------------------------------------------
(* The start, and a start anew *)

Anew ==
    /\ mbcload \in MbcLoads
    /\ mbc = Restarted.mbc /\ mess = Restarted.mess /\ pools = Restarted.pools
    /\ blocks = Restarted.blocks /\ per = Restarted.per /\ idle = Restarted.idle
    /\ pr = Restarted.pr /\ io = Restarted.io
    /\ printer = {} /\ printed = <<>>
    /\ writer = [given |-> 0, done |-> 0, pkt |-> NoPacket]

LEMMA AnewKeeps ==
    Anew => MInv
<1> SUFFICES ASSUME Anew PROVE MInv
  OBVIOUS
<1>1. /\ mbcload \in MbcLoads
      /\ mbc = [at |-> "selftest", ret |-> "", pkt |-> 0, cmd |-> "", i |-> 0, flagged |-> TRUE]
      /\ mess = [list |-> <<>>, inqueue |-> 0, mail |-> TRUE, intr |-> 0]
      /\ pools = [read |-> <<>>, write |-> <<>>, iogp |-> <<0>>]
      /\ blocks = [read |-> 0, write |-> 0]
      /\ per = [due |-> FALSE, pkt |-> 0]
      /\ idle = TRUE
      /\ pr = [vld |-> FALSE, clrrsp |-> TRUE, pkt |-> 0, what |-> ""]
      /\ io = [vld |-> FALSE, clrreq |-> FALSE, pkt |-> 0, cmd |-> "", idle |-> TRUE]
      /\ printer = {} /\ printed = <<>>
      /\ writer = [given |-> 0, done |-> 0, pkt |-> 0]
  BY DEF Anew, Restarted, NoPacket, Temporary
<1>2. R \in Nat /\ 0 \in All /\ 0 \in IoPackets /\ "" \in Commands /\ 0 \in 0 .. R
  <2>1. mbcload \in MbcLoads
    BY <1>1
  <2>2. R \in Nat
    BY <2>1, LayoutFacts
  <2>3. 0 \in All /\ 0 \in IoPackets
    BY <2>1, SetFacts
  <2> QED BY <2>2, <2>3 DEF Commands
<1>3. /\ Len(<<>>) = 0 /\ <<>> \in Seq(Mails) /\ <<>> \in Seq(1 .. R) /\ <<>> \in Seq(All)
      /\ <<>> \in Seq(Text) /\ <<0>> \in Seq(IoPackets)
  <2>1. \A S : <<>> \in Seq(S)
    BY EmptySeq
  <2>2. Len(<<>>) = 0
    OBVIOUS
  <2>3. <<0>> \in Seq(IoPackets)
    <3>1. \A S : \A x \in S : <<x>> \in Seq(S)
      OBVIOUS
    <3> QED BY <1>2, <3>1
  <2> HIDE DEF Mails, All, Text
  <2> QED BY <2>1, <2>2, <2>3
<1>4. Typed
  <2>1. mbc \in Boards
    BY <1>1, <1>2 DEF Boards, Places
  <2>1a. mess \in Lists /\ pools \in Pools /\ blocks \in Blocks
    BY <1>1, <1>3 DEF Lists, Pools, Blocks
  <2>2. per \in Dues /\ idle \in BOOLEAN /\ pr \in ToPrinter /\ io \in ToBoard
    BY <1>1, <1>2 DEF Dues, ToPrinter, ToBoard
  <2>3. printer \subseteq Held /\ IsFiniteSet(printer)
    BY <1>1, FS_EmptySet
  <2>4. writer \in Writers /\ printed \in Seq(Text)
    BY <1>1, <1>2, <1>3 DEF Writers
  <2> QED BY <1>1, <2>1, <2>1a, <2>2, <2>3, <2>4 DEF Typed
<1>5. HandInv /\ BoxInv
  BY <1>1 DEF HandInv, BoxInv
<1>6. StageInv
  BY <1>1 DEF StageInv, Place, Hands
<1>7. ListInv
  <2>1. First
    BY <1>1 DEF First
  <2> QED BY <1>1, <1>3, <2>1 DEF ListInv
<1>8. PrintedInOrder
  <2>1. printed = <<>> /\ ~ pr.vld /\ writer.done = 0
    BY <1>1
  <2>2. <<>> \o <<>> = <<>>
    OBVIOUS
  <2>3. [i \in 1 .. 0 |-> IF i = mbcload.buffers THEN "LOGICAL_BREAK" ELSE "DATA"] = <<>>
    OBVIOUS
  <2> QED BY <2>1, <2>2, <2>3 DEF PrintedInOrder
<1>9. OrderInv
  <2>1. mbcload.buffers \in Nat
    BY <1>1, MbcAssumption
  <2>2. InterruptsOn
    BY <1>1 DEF InterruptsOn, NoPacket
  <2>3. writer.given = 0 /\ writer.done = 0 /\ mbc.at = "selftest"
    BY <1>1
  <2>4. writer.given \in {writer.done, writer.done + 1} /\ writer.given <= mbcload.buffers
    BY <2>1, <2>3
  <2> QED BY <1>8, <2>2, <2>3, <2>4 DEF OrderInv
<1> QED BY <1>4, <1>5, <1>6, <1>7, <1>9 DEF MInv

LEMMA rebootKeeps ==
    MInv /\ reboot => MInv'
<1>1. MInv /\ reboot => Anew'
  BY DEF reboot, Anew, MInv, Typed
<1>2. Anew' => MInv'
  BY AnewKeeps, PTL
<1> QED BY <1>1, <1>2

-----------------------------------------------------------------------------
(* backend_write *)

LEMMA backend_writeKeeps ==
    ASSUME MInv, backend_write
    PROVE  MInv'
<1>1. /\ ~ Sending /\ InterruptsOn /\ writer.given < mbcload.buffers
      /\ writer' = [writer EXCEPT !.given = @ + 1]
      /\ UNCHANGED <<mbc, mess, pools, blocks, per, idle, pr, io, printer, printed, mbcload>>
  BY DEF backend_write, boardVars
<1>2. /\ writer \in Writers /\ mbcload.buffers \in Nat
      /\ writer.given \in {writer.done, writer.done + 1}
  BY StageFacts, MbcAssumption DEF MInv, Typed, OrderInv
<1>3. /\ writer' \in Writers /\ writer'.done = writer.done /\ writer'.given = writer.done + 1
      /\ writer'.given <= mbcload.buffers /\ writer'.pkt = writer.pkt
  BY <1>1, <1>2 DEF Writers, Sending
<1>4. Typed'
  BY <1>1, <1>3, SizesStay DEF MInv, Typed
<1>5. First' = First /\ Place' = Place
  BY <1>1 DEF First, Place
<1>6. HandInv' /\ BoxInv' /\ StageInv' /\ ListInv'
  BY <1>1, <1>5, SizesStay DEF MInv, HandInv, BoxInv, StageInv, ListInv
<1>7. PrintedInOrder'
  BY <1>1, <1>3 DEF MInv, OrderInv, PrintedInOrder
<1>8. OrderInv'
  BY <1>1, <1>3, <1>7 DEF MInv, OrderInv, InterruptsOn
<1> QED BY <1>4, <1>6, <1>8 DEF MInv

LEMMA WritePrnKeeps ==
    ASSUME MInv, WritePrn
    PROVE  MInv'
<1>1. /\ Sending /\ MbcWaits /\ InterruptsOn /\ blocks.read >= 2
      /\ pools' = [pools EXCEPT !.read = Tail(@)]
      /\ blocks' = [blocks EXCEPT !.read = @ - 1]
      /\ writer' = [writer EXCEPT !.pkt = Head(pools.read)]
      /\ UNCHANGED <<mbc, mess, per, idle, pr, io, printer, printed, mbcload>>
  BY DEF WritePrn, MaySend
<1>2. /\ writer \in Writers /\ pools \in Pools /\ blocks \in Blocks
      /\ writer.given \in {writer.done, writer.done + 1}
      /\ blocks.read = Len(pools.read) /\ blocks.write = Len(pools.write)
      /\ blocks.read \in Nat /\ pools.read \in Seq(1 .. R) /\ R \in Nat
  BY StageFacts, PoolFacts DEF MInv, Typed, OrderInv
<1>3. /\ Head(pools.read) \in 1 .. R /\ Tail(pools.read) \in Seq(1 .. R)
      /\ Len(Tail(pools.read)) = Len(pools.read) - 1
  <2>1. pools.read # <<>>
    BY <1>1, <1>2, EmptySeq
  <2> QED BY <1>2, <2>1, HeadTailProperties
<1>4. /\ writer' \in Writers /\ writer'.done = writer.done /\ writer'.given = writer.given
      /\ writer.given = writer.done + 1
  <2>1. writer.given \in Nat /\ writer.done \in Nat /\ Head(pools.read) \in 0 .. R
    BY <1>2, <1>3 DEF Writers
  <2>2. writer' \in Writers /\ writer'.done = writer.done /\ writer'.given = writer.given
    BY <1>1, <1>2, <2>1 DEF Writers
  <2> QED BY <1>1, <1>2, <2>1, <2>2 DEF Sending
<1>5. pools' \in Pools /\ pools'.read = Tail(pools.read) /\ pools'.write = pools.write
  BY <1>1, <1>2, <1>3 DEF Pools
<1>6. blocks' \in Blocks /\ blocks'.read = blocks.read - 1 /\ blocks'.write = blocks.write
  <2>1. blocks.read - 1 \in Nat
    BY <1>1, <1>2
  <2> QED BY <1>1, <1>2, <2>1 DEF Blocks
<1>7. Typed'
  BY <1>1, <1>4, <1>5, <1>6, SizesStay DEF MInv, Typed
<1>8. First' = First /\ Place' = Place
  BY <1>1 DEF First, Place
<1>9. HandInv' /\ BoxInv' /\ StageInv'
  BY <1>1, <1>8, SizesStay DEF MInv, HandInv, BoxInv, StageInv
<1>10. ListInv'
  BY <1>1, <1>2, <1>3, <1>5, <1>6, <1>8, SizesStay DEF MInv, ListInv
<1>11. mbc'.at # "deliverNow"
  BY <1>1 DEF MbcWaits
<1>12. PrintedInOrder'
  BY <1>1, <1>4 DEF MInv, OrderInv, PrintedInOrder
<1>13. OrderInv'
  BY <1>1, <1>4, <1>11, <1>12 DEF MInv, OrderInv
<1> QED BY <1>7, <1>9, <1>10, <1>13 DEF MInv

LEMMA OutsideStep ==
    ASSUME MInv, UNCHANGED <<mbc, mess, pools, blocks, per, idle, mbcload>>,
           pr' \in ToPrinter, io' \in ToBoard, printer' \subseteq Held, IsFiniteSet(printer'),
           writer' \in Writers, printed' \in Seq(Text), BoxInv', OrderInv'
    PROVE  MInv'
<1>1. Typed'
  BY SizesStay DEF MInv, Typed
<1>2. First' = First /\ Place' = Place
  BY DEF First, Place
<1>3. HandInv'
  BY SizesStay DEF MInv, HandInv
<1>4. StageInv'
  BY <1>2, SizesStay DEF MInv, StageInv
<1>5. ListInv'
  BY <1>2, SizesStay DEF MInv, ListInv
<1> QED BY <1>1, <1>3, <1>4, <1>5 DEF MInv

LEMMA OutsideFacts ==
    ASSUME MInv
    PROVE  /\ pr \in ToPrinter /\ io \in ToBoard /\ printer \subseteq Held /\ IsFiniteSet(printer)
           /\ writer \in Writers /\ printed \in Seq(Text)
           /\ writer.given \in Nat /\ writer.done \in Nat /\ mbcload.buffers \in Nat
           /\ writer.given \in {writer.done, writer.done + 1}
           /\ writer.given <= mbcload.buffers
<1>1. writer \in Writers /\ mbcload \in MbcLoads
  BY DEF MInv, Typed
<1>2. mbcload.buffers \in Nat
  BY <1>1, MbcAssumption
<1>3. writer.given \in Nat /\ writer.done \in Nat
  BY <1>1 DEF Writers
<1> QED BY <1>1, <1>2, <1>3 DEF MInv, Typed, OrderInv

(* What the printer has received after n buffers. *)
Received(n) == [i \in 1 .. n |-> IF i = mbcload.buffers THEN "LOGICAL_BREAK" ELSE "DATA"]

LEMMA ReceivedNext ==
    ASSUME NEW n \in Nat, mbcload.buffers \in Nat
    PROVE  Append(Received(n), IF n + 1 = mbcload.buffers THEN "LOGICAL_BREAK" ELSE "DATA")
             = Received(n + 1)
<1> DEFINE x == IF n + 1 = mbcload.buffers THEN "LOGICAL_BREAK" ELSE "DATA"
           s == Received(n)
<1>1. s \in Seq(Text) /\ Len(s) = n /\ DOMAIN s = 1 .. n
  BY DEF Received, Text
<1>2. x \in Text
  BY DEF Text
<1> HIDE DEF x, s
<1>3. /\ Append(s, x) \in Seq(Text) /\ Len(Append(s, x)) = n + 1
      /\ \A i \in 1 .. n : Append(s, x)[i] = s[i]
      /\ Append(s, x)[n + 1] = x
  BY <1>1, <1>2, AppendProperties
<1>4. Received(n + 1) \in Seq(Text) /\ Len(Received(n + 1)) = n + 1
  BY DEF Received, Text
<1>5. ASSUME NEW i \in 1 .. n + 1 PROVE Append(s, x)[i] = Received(n + 1)[i]
  <2>1. CASE i \in 1 .. n
    BY <1>3, <2>1 DEF s, Received
  <2>2. CASE i = n + 1
    <3>1. Received(n + 1)[n + 1] = x
      BY DEF x, Received
    <3> QED BY <1>3, <2>2, <3>1
  <2>3. i \in 1 .. n \/ i = n + 1
    OBVIOUS
  <2> QED BY <2>1, <2>2, <2>3
<1>6. Append(s, x) = Received(n + 1)
  BY <1>3, <1>4, <1>5, SeqEqual
<1> QED BY <1>6 DEF s, x

LEMMA OrderIs ==
    ASSUME MInv
    PROVE  /\ ~ (pr.vld /\ pr.what \in Text) => printed = Received(writer.done)
           /\ pr.vld /\ pr.what \in Text => Append(printed, pr.what) = Received(writer.done)
<1>1. printed \in Seq(Text)
  BY OutsideFacts
<1>2. printed \o (IF pr.vld /\ pr.what \in {"DATA", "LOGICAL_BREAK"} THEN <<pr.what>> ELSE <<>>)
        = Received(writer.done)
  BY DEF MInv, OrderInv, PrintedInOrder, Received
<1>3. CASE ~ (pr.vld /\ pr.what \in Text)
  <2>1. printed \o <<>> = Received(writer.done)
    BY <1>2, <1>3 DEF Text
  <2> QED BY <1>1, <1>3, <2>1, ConcatEmptySeq
<1>4. CASE pr.vld /\ pr.what \in Text
  <2>1. printed \o <<pr.what>> = Received(writer.done)
    BY <1>2, <1>4 DEF Text
  <2>2. Append(printed, pr.what) = printed \o <<pr.what>>
    BY <1>1, <1>4, AppendIsConcat
  <2> QED BY <1>4, <2>1, <2>2
<1> QED BY <1>3, <1>4

LEMMA DeliverPacketKeeps ==
    ASSUME MInv, DeliverPacket
    PROVE  MInv'
<1> DEFINE what == IF LastBuffer THEN "LOGICAL_BREAK" ELSE "DATA"
<1>1. /\ ~ InterruptsOn /\ ~ pr.vld
      /\ pr' = [pr EXCEPT !.vld = TRUE, !.pkt = writer.pkt, !.what = what]
      /\ writer' = [writer EXCEPT !.done = @ + 1, !.pkt = NoPacket]
      /\ UNCHANGED <<mbc, mess, pools, blocks, per, idle, io, printer, printed, mbcload>>
  BY DEF DeliverPacket
<1>2. /\ writer.given = writer.done + 1 /\ mbc.at # "deliverNow"
      /\ what = IF writer.done + 1 = mbcload.buffers THEN "LOGICAL_BREAK" ELSE "DATA"
  BY <1>1 DEF MInv, OrderInv, LastBuffer
<1>3. what \in Text /\ what \notin IoRequests /\ writer.pkt \in All
  BY OutsideFacts, SetFacts, StageFacts DEF Text, IoRequests, Writers
<1> HIDE DEF what
<1>4. pr' \in ToPrinter /\ pr'.vld /\ pr'.what = what
  BY <1>1, <1>3, OutsideFacts DEF ToPrinter
<1>5. /\ writer' \in Writers /\ writer'.given = writer.given /\ writer'.done = writer.done + 1
      /\ writer'.pkt = NoPacket
  <2>1. writer.done + 1 \in Nat /\ NoPacket \in 0 .. R
    BY OutsideFacts, StageFacts DEF NoPacket
  <2> QED BY <1>1, <2>1, OutsideFacts DEF Writers
<1>6. BoxInv'
  BY <1>1, <1>3, <1>4, SizesStay DEF MInv, BoxInv
<1>7. Append(printed, what) = Received(writer.done + 1)
  <2>1. printed = Received(writer.done)
    BY <1>1, OrderIs
  <2> QED BY <1>2, <2>1, OutsideFacts, ReceivedNext
<1>8. PrintedInOrder'
  <2>1. Received(writer.done + 1)
          = [i \in 1 .. writer'.done |-> IF i = mbcload'.buffers THEN "LOGICAL_BREAK" ELSE "DATA"]
    BY <1>1, <1>5 DEF Received
  <2>2. printed' \o <<pr'.what>> = Append(printed, what)
    BY <1>1, <1>3, <1>4, OutsideFacts, AppendIsConcat
  <2>3. pr'.vld /\ pr'.what \in {"DATA", "LOGICAL_BREAK"}
    BY <1>3, <1>4 DEF Text
  <2> QED BY <1>7, <2>1, <2>2, <2>3 DEF PrintedInOrder
<1>9. OrderInv'
  BY <1>1, <1>2, <1>5, <1>8, OutsideFacts DEF OrderInv, InterruptsOn
<1> QED BY <1>1, <1>4, <1>5, <1>6, <1>9, OutsideFacts, OutsideStep

-----------------------------------------------------------------------------
(* The printer *)

LEMMA acknowledgeKeeps ==
    ASSUME MInv, acknowledge
    PROVE  MInv'
<1>1. /\ pr' = [pr EXCEPT !.clrrsp = FALSE]
      /\ UNCHANGED <<mbc, mess, pools, blocks, per, idle, io, printer, writer, printed, mbcload>>
  BY DEF acknowledge, boardVars
<1>2. pr' \in ToPrinter /\ pr'.vld = pr.vld /\ pr'.pkt = pr.pkt /\ pr'.what = pr.what
  BY <1>1, OutsideFacts DEF ToPrinter
<1>3. BoxInv'
  BY <1>1, <1>2, SizesStay DEF MInv, BoxInv
<1>4. PrintedInOrder'
  BY <1>1, <1>2 DEF MInv, OrderInv, PrintedInOrder
<1>5. OrderInv'
  BY <1>1, <1>2, <1>4 DEF MInv, OrderInv, InterruptsOn
<1> QED BY <1>1, <1>2, <1>3, <1>5, OutsideFacts, OutsideStep

LEMMA takeKeeps ==
    ASSUME MInv, take
    PROVE  MInv'
<1> DEFINE mail == <<pr.pkt, IF pr.what \in IoRequests THEN pr.what ELSE "">>
<1>1. /\ pr.vld /\ pr' = [pr EXCEPT !.vld = FALSE, !.pkt = NoPacket, !.what = ""]
      /\ printer' = printer \union {mail}
      /\ printed' = IF pr.what \in Text THEN Append(printed, pr.what) ELSE printed
      /\ UNCHANGED <<mbc, mess, pools, blocks, per, idle, io, writer, mbcload>>
  BY DEF take, boardVars, Text
<1>2. mail \in Held
  <2>1. pr.what \in IoRequests => pr.pkt \in IoPackets
    BY <1>1 DEF MInv, BoxInv
  <2>2. pr.pkt \in All
    BY OutsideFacts DEF ToPrinter
  <2>3. mail[1] = pr.pkt /\ mail[2] = (IF pr.what \in IoRequests THEN pr.what ELSE "")
    OBVIOUS
  <2>4. mail \in All \X (IoRequests \union {""})
    BY <2>2
  <2>5. "" \notin IoRequests
    BY DEF IoRequests
  <2> HIDE DEF mail
  <2> QED BY <2>1, <2>3, <2>4 DEF Held
<1> HIDE DEF mail
<1>3. printer' \subseteq Held /\ IsFiniteSet(printer')
  BY <1>1, <1>2, OutsideFacts, FS_AddElement
<1>4. pr' \in ToPrinter /\ ~ pr'.vld
  <2>1. NoPacket \in All /\ "" \in Commands
    BY SetFacts, StageFacts DEF NoPacket, Commands
  <2> QED BY <1>1, <2>1, OutsideFacts DEF ToPrinter
<1>5. printed' = Received(writer.done) /\ printed' \in Seq(Text)
  BY <1>1, OrderIs, OutsideFacts, AppendProperties
<1>6. PrintedInOrder'
  <2>1. printed' \o <<>> = printed'
    BY <1>5, ConcatEmptySeq
  <2> QED BY <1>1, <1>4, <1>5, <2>1 DEF PrintedInOrder, Received
<1>7. BoxInv'
  BY <1>1, <1>4, SizesStay DEF MInv, BoxInv
<1>8. OrderInv'
  BY <1>1, <1>4, <1>6 DEF MInv, OrderInv, InterruptsOn
<1> QED BY <1>1, <1>3, <1>4, <1>5, <1>7, <1>8, OutsideFacts, OutsideStep

LEMMA postKeeps ==
    ASSUME MInv, NEW mail \in printer, post(mail[1], mail[2])
    PROVE  MInv'
<1> DEFINE p == mail[1]
           req == mail[2]
<1>1. /\ printer' = printer \ {<<p, req>>}
      /\ UNCHANGED <<mbc, mess, pools, blocks, per, idle, pr, writer, printed, mbcload>>
  BY DEF post, boardVars
<1>2. PICK cmd \in Mail(p, req), state \in BOOLEAN :
         io' = [io EXCEPT !.vld = TRUE, !.pkt = p, !.cmd = cmd, !.idle = state]
  BY DEF post
<1>3. /\ req # "" => p \in IoPackets
      /\ p \in All /\ req \in IoRequests \union {""}
  BY OutsideFacts DEF Held
<1> HIDE DEF p, req
<1>4. <<p, cmd>> \in Mails /\ cmd \in Commands
  <2>1. /\ Kind(p) = "iogp" => p \in IoPackets
        /\ Kind(p) = "read" => p \in 1 .. R
        /\ Kind(p) = "write" => p \in R + 1 .. R + W
        /\ Kind(p) = "prgp" => p = N
    BY <1>3, SetFacts, StageFacts
  <2>2. mbcload.requests \subseteq Requests
    BY StageFacts, MbcAssumption
  <2>3. CASE req # ""
    <3>1. Mail(p, req) = {req}
      BY <2>3 DEF Mail
    <3>2. cmd = req
      BY <3>1
    <3>3. req \in IoRequests /\ p \in IoPackets
      BY <1>3, <2>3
    <3> QED BY <3>2, <3>3 DEF Mails, Commands
  <2>4. CASE req = "" /\ Kind(p) = "read"
    BY <1>2, <2>1, <2>4 DEF Mail, Mails, Commands
  <2>5. CASE req = "" /\ Kind(p) = "write"
    BY <1>2, <2>1, <2>5 DEF Mail, Mails, Commands
  <2>6. CASE req = "" /\ Kind(p) = "prgp"
    BY <1>2, <2>1, <2>2, <2>6 DEF Mail, Mails, Commands
  <2>7. CASE req = "" /\ Kind(p) \notin {"read", "write", "prgp"}
    BY <1>2, <2>7 DEF Mail
  <2> QED BY <2>3, <2>4, <2>5, <2>6, <2>7
<1>5. io' \in ToBoard /\ io'.pkt = p /\ io'.cmd = cmd
  BY <1>2, <1>3, <1>4, OutsideFacts DEF ToBoard
<1>6. BoxInv'
  BY <1>1, <1>4, <1>5, SizesStay DEF MInv, BoxInv
<1>7. printer' \subseteq Held /\ IsFiniteSet(printer')
  BY <1>1, OutsideFacts, FS_RemoveElement
<1>8. OrderInv'
  <2>1. PrintedInOrder'
    BY <1>1 DEF MInv, OrderInv, PrintedInOrder
  <2> QED BY <1>1, <2>1 DEF MInv, OrderInv, InterruptsOn
<1> QED BY <1>1, <1>5, <1>6, <1>7, <1>8, OutsideFacts, OutsideStep

LEMMA resetKeeps ==
    ASSUME MInv, reset
    PROVE  MInv'
<1>1. /\ io' = [io EXCEPT !.clrreq = TRUE]
      /\ UNCHANGED <<mbc, mess, pools, blocks, per, idle, pr, printer, writer, printed, mbcload>>
  BY DEF reset, boardVars
<1>2. io' \in ToBoard /\ io'.vld = io.vld /\ io'.pkt = io.pkt /\ io'.cmd = io.cmd
  BY <1>1, OutsideFacts DEF ToBoard
<1>3. BoxInv'
  BY <1>1, <1>2, SizesStay DEF MInv, BoxInv
<1>4. OrderInv'
  <2>1. PrintedInOrder'
    BY <1>1 DEF MInv, OrderInv, PrintedInOrder
  <2> QED BY <1>1, <2>1 DEF MInv, OrderInv, InterruptsOn
<1> QED BY <1>1, <1>2, <1>3, <1>4, OutsideFacts, OutsideStep

LEMMA MbcStutterKeeps ==
    ASSUME MInv, UNCHANGED mbcVars
    PROVE  MInv'
<1>1. UNCHANGED <<mbc, mess, pools, blocks, per, idle, pr, io, printer, writer, printed, mbcload>>
  BY DEF mbcVars, boardVars
<1>2. BoxInv'
  BY <1>1, SizesStay DEF MInv, BoxInv
<1>3. OrderInv'
  <2>1. PrintedInOrder'
    BY <1>1 DEF MInv, OrderInv, PrintedInOrder
  <2> QED BY <1>1, <2>1 DEF MInv, OrderInv, InterruptsOn
<1> QED BY <1>1, <1>2, <1>3, OutsideFacts, OutsideStep

LEMMA MbcKeeps ==
    ASSUME Quiet, MInv, [MbcNext]_mbcVars
    PROVE  MInv'
<1>1. CASE MbcNext
  BY <1>1, MbcProcessKeeps, ReadMailKeeps, deliverDueKeeps, rebootKeeps, backend_writeKeeps,
     WritePrnKeeps, DeliverPacketKeeps, acknowledgeKeeps, takeKeeps, resetKeeps, postKeeps
     DEF MbcNext
<1>2. CASE UNCHANGED mbcVars
  BY <1>2, MbcStutterKeeps
<1> QED BY <1>1, <1>2

-----------------------------------------------------------------------------

(* Where no interrupt comes between the two halves of DeliverPacket, the        *)
(* printer receives every buffer once and in order, with the break after the    *)
(* last one, for every negotiation and every number of buffers and resets       *)
(* (mbc_main.c:40-74, mbc_write.c:66-101, common_isr.c:55-59).                  *)
THEOREM BuffersInOrder ==
    ASSUME Quiet
    PROVE  MbcSpec => []PrintedInOrder
<1>1. MbcInit => MInv
  <2>1. MbcInit => Anew
    BY DEF MbcInit, Anew
  <2> QED BY <2>1, AnewKeeps
<1>2. MInv /\ [MbcNext]_mbcVars => MInv'
  BY MbcKeeps
<1>3. MInv => PrintedInOrder
  BY DEF MInv, OrderInv
<1> QED BY <1>1, <1>2, <1>3, PTL DEF MbcSpec

-----------------------------------------------------------------------------
(* Where a packet is counted: each term of Copies *)

Is(x, p) == IF x = p THEN 1 ELSE 0
Of(p) == {p} \X Commands

InPrinter(p) == Cardinality({mail \in printer : mail[1] = p})
InPr(p) == IF pr.vld THEN Is(pr.pkt, p) ELSE 0
InIo(p) == IF io.vld THEN Is(io.pkt, p) ELSE 0
InPer(p) == IF per.due THEN Is(per.pkt, p) ELSE 0
InWriter(p) == IF InterruptsOn THEN 0 ELSE Is(writer.pkt, p)
InMbc(p) == IF mbc.at \in Hands THEN Is(mbc.pkt, p) ELSE 0
InRead(p) == Cardinality(Hits(pools.read, {p}))
InWrite(p) == Cardinality(Hits(pools.write, {p}))
InIogp(p) == Cardinality(Hits(pools.iogp, {p}))
InList(p) == Cardinality(Hits(mess.list, Of(p)))

Sum(p) == InPrinter(p) + InPr(p) + InIo(p) + InPer(p) + InWriter(p)
            + InMbc(p) + InRead(p) + InWrite(p) + InIogp(p) + InList(p)

Counts(p) ==
    /\ InPrinter(p) \in Nat /\ InPr(p) \in 0 .. 1 /\ InIo(p) \in 0 .. 1 /\ InPer(p) \in 0 .. 1
    /\ InWriter(p) \in 0 .. 1 /\ InMbc(p) \in 0 .. 1 /\ InRead(p) \in Nat /\ InWrite(p) \in Nat
    /\ InIogp(p) \in Nat /\ InList(p) \in Nat

LEMMA CountsAre ==
    ASSUME NEW p
    PROVE  MInv => Counts(p)
<1> SUFFICES ASSUME MInv PROVE Counts(p)
  OBVIOUS
<1>1. InPrinter(p) \in Nat
  <2>1. IsFiniteSet(printer) /\ {mail \in printer : mail[1] = p} \subseteq printer
    BY OutsideFacts
  <2> QED BY <2>1, FS_Subset, FS_CardinalityType DEF InPrinter
<1>2. InRead(p) \in Nat /\ InWrite(p) \in Nat /\ InIogp(p) \in Nat
  BY PoolFacts, HitsFinite DEF InRead, InWrite, InIogp
<1>3. InList(p) \in Nat
  <2>1. mess.list \in Seq(Mails)
    BY StageFacts DEF Lists
  <2> QED BY <2>1, HitsFinite DEF InList
<1>4. /\ InPr(p) \in 0 .. 1 /\ InIo(p) \in 0 .. 1 /\ InPer(p) \in 0 .. 1
      /\ InWriter(p) \in 0 .. 1 /\ InMbc(p) \in 0 .. 1
  BY DEF InPr, InIo, InPer, InWriter, InMbc, Is
<1> QED BY <1>1, <1>2, <1>3, <1>4 DEF Counts

LEMMA CountsBefore ==
    ASSUME MInv
    PROVE  \A p : Counts(p)
BY CountsAre

LEMMA CountsAfter ==
    ASSUME NEW p
    PROVE  MInv' => Counts(p)'
BY CountsAre, PTL

LEMMA SumIsCopies ==
    ASSUME MInv, NEW p \in All
    PROVE  Copies(p) = Sum(p)
<1>1. Times(pools.read \o pools.write, p) = InRead(p) + InWrite(p)
  <2>1. {i \in DOMAIN (pools.read \o pools.write) : (pools.read \o pools.write)[i] = p}
          = Hits(pools.read \o pools.write, {p})
    BY DEF Hits
  <2>2. pools.read \in Seq(All) /\ pools.write \in Seq(All)
    <3>1. pools.read \in Seq(1 .. R) /\ pools.write \in Seq(All) /\ 1 .. R \subseteq All
      BY PoolFacts, SetFacts, StageFacts
    <3>2. \A A, B : A \subseteq B => Seq(A) \subseteq Seq(B)
      BY SeqMonotonic
    <3> QED BY <3>1, <3>2
  <2>3. Cardinality(Hits(pools.read \o pools.write, {p}))
          = Cardinality(Hits(pools.read, {p})) + Cardinality(Hits(pools.write, {p}))
    BY <2>2, HitsConcat
  <2> QED BY <2>1, <2>3 DEF Times, InRead, InWrite
<1>2. Times(pools.iogp, p) = InIogp(p)
  <2>1. {i \in DOMAIN pools.iogp : pools.iogp[i] = p} = Hits(pools.iogp, {p})
    BY DEF Hits
  <2> QED BY <2>1 DEF Times, InIogp
<1>3. Cardinality({i \in DOMAIN mess.list : mess.list[i][1] = p}) = InList(p)
  <2>1. \A i \in DOMAIN mess.list : mess.list[i] \in Mails
    BY StageFacts, ElementOfSeq, LenProperties DEF Lists
  <2>2. \A mail \in Mails : mail[1] = p <=> mail \in Of(p)
    <3> SUFFICES ASSUME NEW mail \in Mails PROVE mail[1] = p <=> mail \in Of(p)
      OBVIOUS
    <3>1. mail = <<mail[1], mail[2]>> /\ mail[2] \in Commands
      BY MailFacts
    <3>2. mail[1] = p => mail \in Of(p)
      BY <3>1 DEF Of
    <3>3. mail \in Of(p) => mail[1] = p
      BY DEF Of
    <3> QED BY <3>2, <3>3
  <2>3. {i \in DOMAIN mess.list : mess.list[i][1] = p} = Hits(mess.list, Of(p))
    BY <2>1, <2>2 DEF Hits
  <2> QED BY <2>3 DEF InList
<1>4. /\ Bit01(pr.vld /\ pr.pkt = p) = InPr(p) /\ Bit01(io.vld /\ io.pkt = p) = InIo(p)
      /\ Bit01(per.due /\ per.pkt = p) = InPer(p)
      /\ Bit01(writer.pkt = p /\ ~ InterruptsOn) = InWriter(p)
      /\ Bit01(mbc.at \in {"deliver", "deliverNow", "process"} /\ mbc.pkt = p) = InMbc(p)
  BY DEF Bit01, InPr, InIo, InPer, InWriter, InMbc, Is, Hands
<1>5. Counts(p)
  BY CountsBefore
<1>6. Copies(p) = InPrinter(p) + InPr(p) + InIo(p) + InPer(p) + InWriter(p) + InMbc(p)
                    + (InRead(p) + InWrite(p)) + InIogp(p) + InList(p)
  BY <1>1, <1>2, <1>3, <1>4 DEF Copies, InPrinter
<1> QED BY <1>5, <1>6 DEF Sum, Counts

(* What is not touched counts as before. *)
LEMMA SameCounts ==
    ASSUME NEW p
    PROVE  /\ printer' = printer => InPrinter(p)' = InPrinter(p)
           /\ pr'.vld = pr.vld /\ pr'.pkt = pr.pkt => InPr(p)' = InPr(p)
           /\ io'.vld = io.vld /\ io'.pkt = io.pkt => InIo(p)' = InIo(p)
           /\ per' = per => InPer(p)' = InPer(p)
           /\ writer'.pkt = writer.pkt => InWriter(p)' = InWriter(p)
           /\ (mbc'.at \in Hands <=> mbc.at \in Hands) /\ (mbc.at \in Hands => mbc'.pkt = mbc.pkt)
                => InMbc(p)' = InMbc(p)
           /\ pools'.read = pools.read => InRead(p)' = InRead(p)
           /\ pools'.write = pools.write => InWrite(p)' = InWrite(p)
           /\ pools'.iogp = pools.iogp => InIogp(p)' = InIogp(p)
           /\ mess'.list = mess.list => InList(p)' = InList(p)
<1>1. printer' = printer => InPrinter(p)' = InPrinter(p)
  BY DEF InPrinter
<1>2. pr'.vld = pr.vld /\ pr'.pkt = pr.pkt => InPr(p)' = InPr(p)
  BY DEF InPr
<1>3. io'.vld = io.vld /\ io'.pkt = io.pkt => InIo(p)' = InIo(p)
  BY DEF InIo
<1>4. per' = per => InPer(p)' = InPer(p)
  BY DEF InPer
<1>5. writer'.pkt = writer.pkt => InWriter(p)' = InWriter(p)
  BY DEF InWriter, InterruptsOn
<1>6. (mbc'.at \in Hands <=> mbc.at \in Hands) /\ (mbc.at \in Hands => mbc'.pkt = mbc.pkt)
        => InMbc(p)' = InMbc(p)
  BY DEF InMbc
<1>7. /\ pools'.read = pools.read => InRead(p)' = InRead(p)
      /\ pools'.write = pools.write => InWrite(p)' = InWrite(p)
      /\ pools'.iogp = pools.iogp => InIogp(p)' = InIogp(p)
  BY DEF InRead, InWrite, InIogp
<1>8. mess'.list = mess.list => InList(p)' = InList(p)
  BY DEF InList
<1> QED BY <1>1, <1>2, <1>3, <1>4, <1>5, <1>6, <1>7, <1>8

(* What is added to a pool, or taken from one, is counted once. *)
LEMMA PoolCounts ==
    ASSUME NEW S, NEW s \in Seq(S), NEW p
    PROVE  /\ \A x \in S : Cardinality(Hits(Append(s, x), {p})) = Cardinality(Hits(s, {p})) + Is(x, p)
           /\ s # <<>> => Cardinality(Hits(s, {p}))
                            = Cardinality(Hits(Tail(s), {p})) + Is(Head(s), p)
<1>1. \A x : Bit01(x \in {p}) = Is(x, p)
  BY DEF Bit01, Is
<1>2. \A x \in S : Cardinality(Hits(Append(s, x), {p})) = Cardinality(Hits(s, {p})) + Bit01(x \in {p})
  BY HitsAppend
<1>3. s # <<>> => Cardinality(Hits(s, {p}))
                    = Cardinality(Hits(Tail(s), {p})) + Bit01(Head(s) \in {p})
  BY HitsTail
<1> QED BY <1>1, <1>2, <1>3

LEMMA ListCounts ==
    ASSUME MInv, NEW p
    PROVE  /\ \A mail \in Mails : Cardinality(Hits(Append(mess.list, mail), Of(p)))
                                    = InList(p) + Is(mail[1], p)
           /\ mess.list # <<>> =>
                InList(p) = Cardinality(Hits(Tail(mess.list), Of(p))) + Is(Head(mess.list)[1], p)
<1>1. mess.list \in Seq(Mails)
  BY StageFacts DEF Lists
<1>2. ASSUME NEW mail \in Mails PROVE Bit01(mail \in Of(p)) = Is(mail[1], p)
  <2>1. mail = <<mail[1], mail[2]>> /\ mail[2] \in Commands
    BY MailFacts
  <2>2. mail[1] = p => mail \in Of(p)
    BY <2>1 DEF Of
  <2>3. mail \in Of(p) => mail[1] = p
    BY DEF Of
  <2> QED BY <2>2, <2>3 DEF Bit01, Is
<1>3. \A mail \in Mails : Cardinality(Hits(Append(mess.list, mail), Of(p)))
                            = InList(p) + Bit01(mail \in Of(p))
  BY <1>1, HitsAppend DEF InList
<1>4. mess.list # <<>> =>
        /\ InList(p) = Cardinality(Hits(Tail(mess.list), Of(p))) + Bit01(Head(mess.list) \in Of(p))
        /\ Head(mess.list) \in Mails
  BY <1>1, HitsTail, HeadTailProperties DEF InList
<1> QED BY <1>2, <1>3, <1>4

LEMMA OneCounts ==
    ASSUME NEW S, NEW x \in S, NEW p
    PROVE  Cardinality(Hits(<<x>>, {p})) = Is(x, p)
<1> DEFINE none == <<>>
<1>1. none \in Seq(S) /\ Append(none, x) = <<x>> /\ Cardinality(Hits(none, {p})) = 0
  BY HitsEmpty
<1> HIDE DEF none
<1>2. \A y \in S : Cardinality(Hits(Append(none, y), {p})) = Cardinality(Hits(none, {p})) + Is(y, p)
  BY <1>1, PoolCounts
<1>3. Cardinality(Hits(Append(none, x), {p})) = 0 + Is(x, p)
  BY <1>1, <1>2
<1>4. 0 + Is(x, p) = Is(x, p)
  BY DEF Is
<1>5. Hits(Append(none, x), {p}) = Hits(<<x>>, {p})
  BY <1>1, Zenon
<1> QED BY <1>3, <1>4, <1>5, Zenon

-----------------------------------------------------------------------------
(* Every packet that is owed to the board or the printer is in one place.  The *)
(* pool of IO_GP packets is the negotiation's until the real ones are built;   *)
(* only the PR_GP carries a status request; MBC has an interrupt to wait for   *)
(* for each message and each WRITE that it has not acted upon.                *)

Owed(p) == IF p = 0 THEN mbc.i <= R + W ELSE p <= mbc.i
Accounted == \A p \in All : Sum(p) = IF Owed(p) THEN 1 ELSE 0

NegotiationInv ==
    /\ mbc.i \in 1 .. R + W => pools.iogp = <<0>>
    /\ mbc.i = 0 /\ mbc.at \in {"selftest", "replied", "build"} => pools.iogp = <<0>>

StatusInv == per.due => per.pkt = N

Busy == IF Place \in {"mail", "online", "write"} THEN 1 ELSE 0
InProcess == IF mbc.at = "process" THEN 1 ELSE 0
BalanceInv ==
    /\ mbc.i <= R => blocks.write = 0
    /\ mbc.i > R => Len(mess.list) + blocks.write + InProcess <= mess.intr + Busy
    /\ Place \in {"online", "write"} => Len(mess.list) <= mess.intr

Goes == mbc.at # "hung"

AInv == Accounted /\ NegotiationInv /\ StatusInv /\ BalanceInv /\ Goes

LEMMA SumStays ==
    ASSUME Accounted, mbcload' = mbcload, mbc'.i = mbc.i, \A p \in All : Sum(p)' = Sum(p)
    PROVE  Accounted'
<1>1. All' = All /\ R' = R /\ W' = W
  BY SizesStay
<1>2. \A p \in All : Owed(p)' <=> Owed(p)
  BY <1>1 DEF Owed
<1> QED BY <1>1, <1>2 DEF Accounted

(* Steps of the board move packets among what the board has and the mailbox    *)
(* to the printer.                                                           *)
Board(p) == InPr(p) + InMbc(p) + InRead(p) + InWrite(p) + InIogp(p) + InList(p)

LEMMA BoardSum ==
    ASSUME NEW p
    PROVE  Counts(p) => Sum(p) = InPrinter(p) + InIo(p) + InPer(p) + InWriter(p) + Board(p)
BY DEF Counts, Sum, Board

LEMMA BoardMoves ==
    ASSUME MInv, MInv', Accounted, UNCHANGED <<io, printer, writer, per, mbcload>>,
           mbc'.i = mbc.i, \A p \in All : Board(p)' = Board(p)
    PROVE  Accounted'
<1>1. ASSUME NEW p \in All PROVE Sum(p)' = Sum(p)
  <2>1. Counts(p) /\ Counts(p)'
    BY CountsBefore, CountsAfter
  <2>2. Sum(p) = InPrinter(p) + InIo(p) + InPer(p) + InWriter(p) + Board(p)
    BY <2>1, BoardSum
  <2>3. Sum(p)' = InPrinter(p)' + InIo(p)' + InPer(p)' + InWriter(p)' + Board(p)'
    BY <2>1 DEF Counts, Sum, Board
  <2>4. InPrinter(p)' = InPrinter(p) /\ InIo(p)' = InIo(p) /\ InPer(p)' = InPer(p)
        /\ InWriter(p)' = InWriter(p)
    BY SameCounts
  <2> QED BY <2>2, <2>3, <2>4
<1> QED BY <1>1, SumStays

(* No packet is in two places. *)
LEMMA OnePlace ==
    ASSUME MInv, Accounted, NEW p \in All
    PROVE  /\ Counts(p) /\ Sum(p) \in 0 .. 1
           /\ Sum(p) = IF Owed(p) THEN 1 ELSE 0
           /\ Sum(p) = InPrinter(p) + InPr(p) + InIo(p) + InPer(p) + InWriter(p)
                         + InMbc(p) + InRead(p) + InWrite(p) + InIogp(p) + InList(p)
<1>1. Counts(p)
  BY CountsBefore
<1>2. Sum(p) = IF Owed(p) THEN 1 ELSE 0
  BY DEF Accounted
<1> QED BY <1>1, <1>2 DEF Sum

LEMMA SumCovers ==
    ASSUME MInv, NEW p
    PROVE  Sum(p) >= InIogp(p) /\ Sum(p) \in Nat /\ InIogp(p) \in Nat
<1>1. Counts(p)
  BY CountsBefore
<1> QED BY <1>1 DEF Counts, Sum

LEMMA AStateFacts ==
    ASSUME MInv, AInv
    PROVE  /\ Accounted /\ NegotiationInv /\ StatusInv /\ BalanceInv /\ Goes
           /\ Len(mess.list) \in Nat /\ mess.intr \in Nat /\ mess.inqueue = Len(mess.list)
           /\ mess.list \in Seq(Mails)
           /\ blocks.write \in Nat /\ InProcess \in 0 .. 1 /\ Busy \in 0 .. 1
<1>1. mess.intr \in Nat /\ mess.list \in Seq(Mails) /\ mess.inqueue = Len(mess.list)
  BY StageFacts DEF MInv, ListInv, Lists
<1>2. Len(mess.list) \in Nat
  BY <1>1, LenProperties
<1> QED BY <1>1, <1>2, PoolFacts DEF AInv, InProcess, Busy

LEMMA BoardAccounts ==
    ASSUME MInv, MInv', AInv, UNCHANGED <<io, printer, writer, per, mbcload>>,
           mbc'.i = mbc.i, \A p \in All : Board(p)' = Board(p),
           NegotiationInv', BalanceInv', mbc'.at # "hung"
    PROVE  AInv'
<1>1. Accounted'
  BY BoardMoves, AStateFacts
<1>2. StatusInv'
  BY AStateFacts, SizesStay DEF StatusInv
<1> QED BY <1>1, <1>2, AStateFacts DEF AInv, Goes

LEMMA NegotiationStays ==
    ASSUME AInv, mbcload' = mbcload, mbc'.i = mbc.i, pools'.iogp = pools.iogp,
           \/ mbc.i # 0
           \/ mbc'.at \notin {"selftest", "replied", "build"}
           \/ mbc.at \in {"selftest", "replied", "build"}
    PROVE  NegotiationInv'
<1>1. R' = R /\ W' = W
  BY SizesStay
<1> QED BY <1>1 DEF AInv, NegotiationInv

LEMMA BalanceStays ==
    ASSUME MInv, AInv, mbcload' = mbcload, mbc'.i = mbc.i, mess' = mess,
           blocks'.write = blocks.write, InProcess' = InProcess, Busy' = Busy,
           Place' \in {"online", "write"} => Place \in {"online", "write"}
    PROVE  BalanceInv'
<1>1. R' = R
  BY SizesStay
<1> QED BY <1>1 DEF AInv, BalanceInv

-----------------------------------------------------------------------------
(* MBC *)

LEMMA deliverTestAccounts ==
    ASSUME MInv, MInv', AInv, deliverTest, UNCHANGED <<io, printer, writer, mbcload>>
    PROVE  AInv'
<1>1. /\ mbc.at = "deliver" /\ mbc' = [mbc EXCEPT !.at = "deliverNow"] /\ mbc \in Boards
      /\ UNCHANGED <<mess, pools, blocks, per, pr>>
  BY StageFacts DEF deliverTest, GotoMbc
<1>2. /\ mbc'.at = "deliverNow" /\ mbc'.ret = mbc.ret /\ mbc'.i = mbc.i /\ mbc'.pkt = mbc.pkt
  BY <1>1 DEF Boards
<1>3. mbc.at \in Hands /\ mbc'.at \in Hands
  BY <1>1, <1>2 DEF Hands
<1>4. \A p \in All : Board(p)' = Board(p)
  BY <1>1, <1>2, <1>3, SameCounts DEF Board
<1>5. Place' = Place
  BY <1>2, <1>3 DEF Place
<1>6. BalanceInv'
  BY <1>1, <1>2, <1>5, BalanceStays DEF InProcess, Busy
<1>7. NegotiationInv'
  BY <1>1, <1>2, NegotiationStays
<1> QED BY <1>1, <1>2, <1>4, <1>6, <1>7, BoardAccounts, AStateFacts

LEMMA deliverNowAccounts ==
    ASSUME MInv, MInv', AInv, deliverNow, UNCHANGED <<io, printer, writer, mbcload>>
    PROVE  AInv'
<1>1. /\ mbc.at = "deliverNow" /\ UNCHANGED <<mess, pools, blocks, per, idle>>
      /\ pr' = [pr EXCEPT !.vld = TRUE, !.pkt = mbc.pkt, !.what = mbc.cmd]
      /\ IF mbc.ret = "reply" THEN GotoMbc("reply") ELSE Done(mbc.ret)
  BY DEF deliverNow
<1>2. /\ mbc.ret \in {"reply", "readBack", "build", "taken", "mail", "write", "wait"}
      /\ ~ pr.vld
  BY <1>1 DEF MInv, HandInv, OrderInv
<1>3. mbc.ret \in Places
  BY <1>2 DEF Places
<1>4. Place' = mbc.ret /\ mbc'.at = mbc.ret /\ mbc'.i = mbc.i
  BY <1>1, <1>3, GotoFacts, DoneFacts
<1>5. /\ Place = mbc.ret /\ mbc.at \in Hands /\ mbc'.at \notin Hands
      /\ InProcess = 0 /\ InProcess' = 0
  BY <1>1, <1>2, <1>4 DEF Place, Hands, InProcess
<1>6. pr'.vld /\ pr'.pkt = mbc.pkt
  BY <1>1, OutsideFacts DEF ToPrinter
<1>7. ASSUME NEW p \in All PROVE Board(p)' = Board(p)
  <2>1. InMbc(p) = Is(mbc.pkt, p) /\ InMbc(p)' = 0 /\ InPr(p) = 0 /\ InPr(p)' = Is(mbc.pkt, p)
    BY <1>2, <1>5, <1>6 DEF InMbc, InPr, Is
  <2>2. /\ InRead(p)' = InRead(p) /\ InWrite(p)' = InWrite(p) /\ InIogp(p)' = InIogp(p)
        /\ InList(p)' = InList(p)
    BY <1>1, SameCounts
  <2>3. Counts(p)
    BY CountsBefore
  <2> QED BY <2>1, <2>2, <2>3 DEF Board, Counts, Is
<1>8. BalanceInv'
  BY <1>1, <1>4, <1>5, BalanceStays DEF Busy
<1>9. NegotiationInv'
  <2>1. mbc.i # 0 \/ mbc'.at \notin {"selftest", "replied", "build"}
    <3>1. CASE mbc.ret = "build"
      BY <1>5, <3>1 DEF MInv, StageInv
    <3>2. CASE mbc.ret # "build"
      BY <1>2, <1>4, <3>2
    <3> QED BY <3>1, <3>2
  <2> QED BY <1>1, <1>4, <2>1, NegotiationStays
<1>10. mbc'.at # "hung"
  BY <1>2, <1>4
<1> QED BY <1>1, <1>4, <1>7, <1>8, <1>9, <1>10, BoardAccounts, AStateFacts

(* Where SendMail finds a packet it moves from the pool to the hands of MBC. *)
LEMMA SendMailMoves ==
    ASSUME MInv, mbcload' = mbcload, UNCHANGED <<mess, pr>>, mbc.at \notin Hands,
           NEW cmd, NEW place \in Places, SendMail(cmd, place)
    PROVE  /\ \A p \in All : Board(p)' = Board(p)
           /\ mbc'.i = mbc.i /\ mbc'.at \in {"deliver", place} /\ Place' = place
<1>1. CASE pools.iogp # <<>>
  <2>1. /\ mbc' = [mbc EXCEPT !.at = "deliver", !.ret = place, !.pkt = Head(pools.iogp), !.cmd = cmd]
        /\ pools' = [pools EXCEPT !.iogp = Tail(@)] /\ mbc \in Boards /\ pools \in Pools
    BY <1>1, StageFacts DEF SendMail, Deliver
  <2>2. /\ mbc'.at = "deliver" /\ mbc'.ret = place /\ mbc'.pkt = Head(pools.iogp) /\ mbc'.i = mbc.i
        /\ pools'.iogp = Tail(pools.iogp)
        /\ pools'.read = pools.read /\ pools'.write = pools.write
    BY <2>1 DEF Boards, Pools
  <2>3. ASSUME NEW p \in All PROVE Board(p)' = Board(p)
    <3>1. InMbc(p) = 0 /\ InMbc(p)' = Is(Head(pools.iogp), p)
      BY <2>2 DEF InMbc, Hands
    <3>2. InIogp(p) = InIogp(p)' + Is(Head(pools.iogp), p) /\ InIogp(p)' \in Nat
      BY <1>1, <2>2, PoolFacts, PoolCounts, HitsFinite DEF InIogp
    <3>3. /\ InPr(p)' = InPr(p) /\ InRead(p)' = InRead(p) /\ InWrite(p)' = InWrite(p)
          /\ InList(p)' = InList(p)
      BY <2>2, SameCounts
    <3>4. Counts(p)
      BY CountsBefore
    <3> QED BY <3>1, <3>2, <3>3, <3>4 DEF Board, Counts, Is
  <2>4. Place' = place
    BY <2>2 DEF Place, Hands
  <2> QED BY <2>2, <2>3, <2>4
<1>2. CASE pools.iogp = <<>>
  <2>1. mbc' = [mbc EXCEPT !.at = place] /\ pools' = pools /\ mbc \in Boards
    BY <1>2, StageFacts DEF SendMail, GotoMbc
  <2>2. mbc'.at = place /\ mbc'.i = mbc.i /\ place \notin Hands
    BY <2>1 DEF Boards, Places, Hands
  <2>3. \A p \in All : Board(p)' = Board(p)
    BY <2>1, <2>2, SameCounts DEF Board
  <2>4. Place' = place
    BY <2>2 DEF Place
  <2> QED BY <2>2, <2>3, <2>4
<1> QED BY <1>1, <1>2

LEMMA negotiateAccounts ==
    ASSUME MInv, MInv', AInv, negotiate, UNCHANGED <<io, printer, writer, mbcload>>
    PROVE  AInv'
<1>1. UNCHANGED <<mess, blocks, per, idle, pr>> /\ "reply" \in Places
  BY DEF negotiate, Places
<1>2. ASSUME NEW cmd, mbc.at = "selftest" \/ mbc.at = "replied", SendMail(cmd, "reply")
      PROVE  AInv'
  <2>1. /\ \A p \in All : Board(p)' = Board(p)
        /\ mbc'.i = mbc.i /\ mbc'.at \in {"deliver", "reply"} /\ Place' = "reply"
    BY <1>1, <1>2, SendMailMoves DEF Hands
  <2>2. Place \in {"selftest", "replied"} /\ mbc.i = 0
    BY <1>2 DEF Place, Hands, MInv, StageInv
  <2>3. InProcess = 0 /\ InProcess' = 0 /\ Busy = 0 /\ Busy' = 0
    BY <1>2, <2>1, <2>2 DEF InProcess, Busy
  <2>4. BalanceInv'
    BY <1>1, <2>1, <2>3, BalanceStays
  <2>5. NegotiationInv'
    <3>1. mbc'.i = 0 /\ W \in Nat /\ R \in Nat
      BY <2>1, <2>2, StageFacts
    <3>2. mbc'.i \notin 1 .. (R + W)' /\ mbc'.at \notin {"selftest", "replied", "build"}
      BY <2>1, <3>1, SizesStay
    <3> QED BY <3>2 DEF NegotiationInv
  <2> QED BY <1>1, <2>1, <2>4, <2>5, BoardAccounts, AStateFacts
<1>3. CASE mbc.at = "replied" /\ mbc' = [mbc EXCEPT !.at = "build", !.i = 0] /\ UNCHANGED pools
  <2>1. mbc.i = 0 /\ mbc'.i = 0 /\ mbc'.at = "build" /\ Place = "replied" /\ Place' = "build"
    BY <1>3, StageFacts DEF Place, Hands, MInv, StageInv, Boards
  <2>2. \A p \in All : Board(p)' = Board(p)
    <3>1. mbc.at \notin Hands /\ mbc'.at \notin Hands
      BY <1>3, <2>1 DEF Hands
    <3> QED BY <1>1, <1>3, <3>1, SameCounts DEF Board
  <2>3. InProcess = 0 /\ InProcess' = 0 /\ Busy = 0 /\ Busy' = 0
    BY <1>3, <2>1 DEF InProcess, Busy
  <2>4. BalanceInv'
    BY <1>1, <2>1, <2>3, BalanceStays
  <2>5. NegotiationInv'
    BY <1>3, <2>1, NegotiationStays
  <2> QED BY <1>1, <2>1, <2>2, <2>4, <2>5, BoardAccounts, AStateFacts
<1>4. CASE mbc.at = "selftest" /\ SendMail(NextRequest(""), "reply")
  BY <1>2, <1>4, Zenon
<1>5. CASE mbc.at = "replied" /\ SendMail(NextRequest(mbc.cmd), "reply")
  BY <1>2, <1>5, Zenon
<1>6. /\ \/ mbc.at = "selftest" /\ ~ pr.clrrsp /\ SendMail(NextRequest(""), "reply")
         \/ /\ mbc.at = "replied" /\ mbc.cmd \in {"RETRIEVE_IO_CONFIG", "IDENTIFY"}
            /\ SendMail(NextRequest(mbc.cmd), "reply")
         \/ /\ mbc.at = "replied" /\ mbc.cmd = "BUFF_CONFIG"
            /\ mbc' = [mbc EXCEPT !.at = "build", !.i = 0]
            /\ UNCHANGED pools
      /\ UNCHANGED <<mess, blocks, per, idle, pr>>
  BY Zenon DEF negotiate
<1> QED BY <1>3, <1>4, <1>5, <1>6

(* A packet that is built is one more; the first IO_GP packet takes the place  *)
(* of the negotiation's.                                                     *)
LEMMA buildAccounts ==
    ASSUME MInv, MInv', AInv, build, UNCHANGED <<io, printer, writer, mbcload>>
    PROVE  AInv'
<1> DEFINE n == mbc.i + 1
<1>1. /\ mbc.at = "build" /\ n \in 1..N
      /\ mbc' = [mbc EXCEPT !.i = n, !.pkt = n, !.cmd = "NEW_PACKET",
                            !.at = IF Kind(n) = "iogp" THEN "build" ELSE "deliver",
                            !.ret = IF Kind(n) = "read" THEN "readBack" ELSE "taken"]
      /\ pools' = IF Kind(n) # "iogp" THEN pools
                  ELSE IF n = R + W + 1 THEN [pools EXCEPT !.iogp = <<n>>]
                  ELSE [pools EXCEPT !.iogp = Append(@, n)]
      /\ UNCHANGED <<mess, blocks, per, idle, pr>>
  BY LayoutFacts, StageFacts DEF build, R, W
<1>2. /\ mbc \in Boards /\ pools \in Pools /\ n \in All /\ n > 0 /\ n \in Nat /\ mbc.i \in Nat
      /\ n = mbc.i + 1 /\ R \in Nat /\ R >= 2 /\ W \in Nat /\ N = R + W + 3
  BY <1>1, StageFacts, SetFacts DEF All, N
<1> HIDE DEF n
<1>3. /\ mbc'.i = n /\ mbc'.pkt = n
      /\ mbc'.at = IF Kind(n) = "iogp" THEN "build" ELSE "deliver"
      /\ mbc'.ret = IF Kind(n) = "read" THEN "readBack" ELSE "taken"
  BY <1>1, <1>2 DEF Boards
<1>4. R' = R /\ W' = W /\ N' = N /\ All' = All
  BY SizesStay
<1>5. /\ n <= R + W => Kind(n) # "iogp"
      /\ n \in {R + W + 1, R + W + 2} <=> Kind(n) = "iogp"
      /\ n > R + W + 2 => n = N
  <2>1. /\ n \in 1..R => Kind(n) = "read"
        /\ n \in R + 1 .. R + W => Kind(n) = "write"
        /\ n \in R + W + 1 .. R + W + 2 => Kind(n) = "iogp"
        /\ n = N => Kind(n) = "prgp"
    BY LayoutFacts, StageFacts
  <2> QED BY <1>1, <1>2, <2>1
<1>6. Place = "build" /\ Place' \in {"build", "readBack", "taken"} /\ mbc'.at \in {"build", "deliver"}
  BY <1>1, <1>3 DEF Place, Hands
<1>7. pools'.read = pools.read /\ pools'.write = pools.write
  BY <1>1, <1>2 DEF Pools
<1>8. mbc.i <= R + W => pools.iogp = <<0>>
  <2>1. NegotiationInv
    BY AStateFacts
  <2> QED BY <1>1, <1>2, <2>1 DEF NegotiationInv
<1>9. ASSUME NEW p \in All
      PROVE  /\ Counts(p) /\ Counts(p)'
             /\ Sum(p) = InPrinter(p) + InIo(p) + InPer(p) + InWriter(p) + InPr(p) + InRead(p)
                           + InWrite(p) + InList(p) + InMbc(p) + InIogp(p)
             /\ Sum(p)' = InPrinter(p) + InIo(p) + InPer(p) + InWriter(p) + InPr(p) + InRead(p)
                           + InWrite(p) + InList(p) + InMbc(p)' + InIogp(p)'
             /\ InMbc(p) = 0 /\ InMbc(p)' = IF Kind(n) = "iogp" THEN 0 ELSE Is(n, p)
             /\ Sum(p) = IF Owed(p) THEN 1 ELSE 0
  <2>1. Counts(p) /\ Counts(p)'
    BY CountsBefore, CountsAfter
  <2>2. /\ InPrinter(p)' = InPrinter(p) /\ InPr(p)' = InPr(p) /\ InIo(p)' = InIo(p)
        /\ InPer(p)' = InPer(p) /\ InWriter(p)' = InWriter(p) /\ InRead(p)' = InRead(p)
        /\ InWrite(p)' = InWrite(p) /\ InList(p)' = InList(p)
    BY <1>1, <1>7, SameCounts
  <2>3. InMbc(p) = 0 /\ InMbc(p)' = IF Kind(n) = "iogp" THEN 0 ELSE Is(n, p)
    BY <1>1, <1>3 DEF InMbc, Hands
  <2>4. Sum(p) = IF Owed(p) THEN 1 ELSE 0
    BY AStateFacts DEF Accounted
  <2>5. /\ Sum(p) = InPrinter(p) + InIo(p) + InPer(p) + InWriter(p) + InPr(p) + InRead(p)
                      + InWrite(p) + InList(p) + InMbc(p) + InIogp(p)
        /\ Sum(p)' = InPrinter(p)' + InIo(p)' + InPer(p)' + InWriter(p)' + InPr(p)' + InRead(p)'
                      + InWrite(p)' + InList(p)' + InMbc(p)' + InIogp(p)'
    BY <2>1 DEF Sum, Counts
  <2> QED BY <2>1, <2>2, <2>3, <2>4, <2>5
<1>10. Accounted'
  <2> SUFFICES ASSUME NEW p \in All
               PROVE  Sum(p)' = IF p = 0 THEN (IF n <= R + W THEN 1 ELSE 0)
                                ELSE (IF p <= n THEN 1 ELSE 0)
    BY <1>3, <1>4 DEF Accounted, Owed
  <2> DEFINE rest == InPrinter(p) + InIo(p) + InPer(p) + InWriter(p) + InPr(p) + InRead(p)
                       + InWrite(p) + InList(p)
  <2>1. /\ rest \in Nat /\ InIogp(p) \in Nat /\ InIogp(p)' \in Nat
        /\ Sum(p) = rest + InIogp(p)
        /\ Sum(p)' = rest + (IF Kind(n) = "iogp" THEN 0 ELSE Is(n, p)) + InIogp(p)'
        /\ Sum(p) = IF p = 0 THEN (IF mbc.i <= R + W THEN 1 ELSE 0)
                    ELSE (IF p <= mbc.i THEN 1 ELSE 0)
        /\ p \in Nat
    BY <1>9, StageFacts, SetFacts DEF Owed, Counts
  <2> HIDE DEF rest
  <2>2. CASE Kind(n) # "iogp"
    <3>1. InIogp(p)' = InIogp(p)
      BY <1>1, <2>2, SameCounts
    <3>2. n <= R + W <=> mbc.i <= R + W
      BY <1>1, <1>2, <1>5, <2>2
    <3> QED BY <1>2, <2>1, <2>2, <3>1, <3>2 DEF Is
  <2>3. CASE n = R + W + 1
    <3>1. Kind(n) = "iogp" /\ mbc.i = R + W
      BY <1>2, <1>5, <2>3
    <3>2. InIogp(p) = Is(0, p) /\ InIogp(p)' = Is(n, p)
      <4>1. \A x \in All : Cardinality(Hits(<<x>>, {p})) = Is(x, p)
        BY OneCounts
      <4>2. pools.iogp = <<0>> /\ pools'.iogp = <<n>>
        BY <1>1, <1>2, <1>8, <2>3, <3>1 DEF Pools
      <4>3. 0 \in All
        BY SetFacts, StageFacts
      <4> QED BY <1>2, <4>1, <4>2, <4>3 DEF InIogp
    <3> QED BY <1>2, <2>1, <2>3, <3>1, <3>2 DEF Is
  <2>4. CASE n = R + W + 2
    <3>1. Kind(n) = "iogp" /\ mbc.i = R + W + 1 /\ n # R + W + 1
      BY <1>2, <1>5, <2>4
    <3>2. InIogp(p)' = InIogp(p) + Is(n, p)
      <4>1. pools'.iogp = Append(pools.iogp, n)
        BY <1>1, <1>2, <3>1 DEF Pools
      <4>2. n \in IoPackets
        BY <1>2, <3>1, SetFacts, StageFacts
      <4> QED BY <4>1, <4>2, PoolFacts, PoolCounts DEF InIogp
    <3> QED BY <1>2, <2>1, <2>4, <3>1, <3>2 DEF Is
  <2> QED BY <1>5, <2>2, <2>3, <2>4
<1>11. NegotiationInv'
  <2>1. CASE n <= R + W
    <3>1. pools'.iogp = <<0>>
      BY <1>1, <1>2, <1>5, <1>8, <2>1
    <3> QED BY <3>1 DEF NegotiationInv
  <2>2. CASE ~ (n <= R + W)
    BY <1>2, <1>3, <1>4, <2>2 DEF NegotiationInv
  <2> QED BY <2>1, <2>2
<1>12. BalanceInv'
  <2>1. InProcess = 0 /\ InProcess' = 0 /\ Busy = 0 /\ Busy' = 0
    BY <1>1, <1>6 DEF InProcess, Busy
  <2>2. mbc.i <= R => Len(mess.list) = mess.intr /\ blocks.write = 0
    BY AStateFacts DEF MInv, ListInv, BalanceInv
  <2>3. mbc.i > R => Len(mess.list) + blocks.write <= mess.intr
    BY <2>1, AStateFacts DEF BalanceInv
  <2>4. mbc'.i <= R' => blocks'.write = 0
    BY <1>1, <1>2, <1>3, <1>4, <2>2
  <2>5. Len(mess'.list) + blocks'.write + InProcess' <= mess'.intr + Busy'
    BY <1>1, <1>2, <2>1, <2>2, <2>3, AStateFacts
  <2> QED BY <1>6, <2>4, <2>5 DEF BalanceInv
<1>13. StatusInv' /\ Goes'
  BY <1>1, <1>4, <1>6, AStateFacts DEF StatusInv, Goes
<1> QED BY <1>10, <1>11, <1>12, <1>13 DEF AInv

LEMMA builtAccounts ==
    ASSUME MInv, MInv', AInv, built, UNCHANGED <<io, printer, writer, mbcload>>
    PROVE  AInv'
<1>1. UNCHANGED <<mess, pools, blocks, per, idle, pr>> /\ mbc \in Boards
  BY StageFacts DEF built
<1>2. PICK place \in {"build", "wait"} : mbc' = [mbc EXCEPT !.at = place]
  BY DEF built, GotoMbc
<1>3. mbc.at \in {"taken", "build"} /\ mbc'.at = place /\ mbc'.i = mbc.i
  BY <1>1, <1>2 DEF built, Boards
<1>4. Place = mbc.at /\ Place' = place
  BY <1>3 DEF Place, Hands
<1>5. \A p \in All : Board(p)' = Board(p)
  <2>1. mbc.at \notin Hands /\ mbc'.at \notin Hands
    BY <1>3 DEF Hands
  <2> QED BY <1>1, <2>1, SameCounts DEF Board
<1>6. InProcess = 0 /\ InProcess' = 0 /\ Busy = 0 /\ Busy' = 0
  BY <1>3, <1>4 DEF InProcess, Busy
<1>7. BalanceInv'
  BY <1>1, <1>3, <1>4, <1>6, BalanceStays
<1>8. NegotiationInv'
  <2>1. mbc.at = "taken" => mbc.i # 0
    BY <1>4, StageFacts DEF MInv, StageInv
  <2> QED BY <1>1, <1>3, <2>1, NegotiationStays
<1> QED BY <1>1, <1>3, <1>5, <1>7, <1>8, BoardAccounts, AStateFacts

LEMMA ProcessAccounts ==
    ASSUME MInv, MInv', AInv, UNCHANGED <<io, printer, writer, mbcload>>,
           NEW m, (m = waitIntr /\ mess.intr > 0 /\ mbc.i <= R) \/ (m = mess /\ ~ (mbc.i <= R)),
           Process(m, mbc.at), mess.inqueue > 0,
           mbc.at \in {"reply", "readBack", "taken", "mail"}
    PROVE  AInv'
<1>1. /\ mess' = [m EXCEPT !.list = Tail(@), !.inqueue = @ - 1, !.mail = @ /\ m.inqueue # 1]
      /\ mbc' = [mbc EXCEPT !.at = "process", !.ret = mbc.at, !.pkt = Head(m.list)[1],
                            !.cmd = Head(m.list)[2]]
      /\ UNCHANGED <<pools, blocks, per, idle, pr>>
      /\ mbc \in Boards /\ mess \in Lists /\ mess.intr \in Nat /\ mess.list # <<>>
  <2>1. mess.list # <<>>
    BY AStateFacts, EmptySeq
  <2> QED BY <2>1, StageFacts, AStateFacts DEF Process, Dequeued
<1>2. /\ mess'.list = Tail(mess.list) /\ m.list = mess.list
      /\ mess'.intr = IF mbc.i <= R THEN mess.intr - 1 ELSE mess.intr
  BY <1>1 DEF waitIntr, Lists
<1>3. /\ mbc'.at = "process" /\ mbc'.ret = mbc.at /\ mbc'.i = mbc.i
      /\ mbc'.pkt = Head(mess.list)[1]
  BY <1>1, <1>2 DEF Boards
<1>4. Len(Tail(mess.list)) = Len(mess.list) - 1
  BY <1>1, AStateFacts, HeadTailProperties
<1>5. Place' = Place /\ mbc.at \notin Hands /\ Place = mbc.at
  BY <1>3 DEF Place, Hands
<1>6. InProcess = 0 /\ InProcess' = 1 /\ Busy' = Busy
  BY <1>3, <1>5 DEF InProcess, Busy
<1>7. ASSUME NEW p \in All PROVE Board(p)' = Board(p)
  <2>1. InMbc(p) = 0 /\ InMbc(p)' = Is(Head(mess.list)[1], p)
    BY <1>3, <1>5 DEF InMbc, Hands
  <2>2. InList(p) = InList(p)' + Is(Head(mess.list)[1], p)
    BY <1>1, <1>2, ListCounts DEF InList
  <2>3. /\ InPr(p)' = InPr(p) /\ InRead(p)' = InRead(p) /\ InWrite(p)' = InWrite(p)
        /\ InIogp(p)' = InIogp(p)
    BY <1>1, SameCounts
  <2>4. Counts(p) /\ Counts(p)'
    BY CountsBefore, CountsAfter
  <2> QED BY <2>1, <2>2, <2>3, <2>4 DEF Board, Counts, Is
<1>8. BalanceInv'
  <2>1. R' = R
    BY SizesStay
  <2>2. mbc.i > R => ~ (mbc.i <= R)
    BY StageFacts
  <2> QED BY <1>1, <1>2, <1>3, <1>4, <1>5, <1>6, <2>1, <2>2, AStateFacts DEF BalanceInv
<1>9. NegotiationInv'
  BY <1>1, <1>3, NegotiationStays
<1> QED BY <1>1, <1>2, <1>3, <1>7, <1>8, <1>9, BoardAccounts, AStateFacts

LEMMA mailInStartAccounts ==
    ASSUME MInv, MInv', AInv, mailInStart, UNCHANGED <<io, printer, writer, mbcload>>
    PROVE  AInv'
<1>1. /\ mbc.i <= R => mess.intr = Len(mess.list)
      /\ mess.mail /\ ~ First /\ mbc.at # "hung" => mess.inqueue > 0
  BY DEF MInv, ListInv
<1>2. Place = mbc.at \/ mbc.at \in Hands
  BY DEF Place
<1>3. CASE mbc.at \in {"reply", "readBack"} /\ mess.intr > 0 /\ Process(waitIntr, mbc.at)
  <2>1. mbc.i <= R
    BY <1>2, <1>3, StageFacts DEF MInv, StageInv, Hands
  <2>2. mess.inqueue > 0
    BY <1>1, <1>3, <2>1, AStateFacts
  <2>3. (waitIntr = waitIntr /\ mess.intr > 0 /\ mbc.i <= R)
          \/ (waitIntr = mess /\ ~ (mbc.i <= R))
    BY <1>3, <2>1
  <2>4. Process(waitIntr, mbc.at) /\ mbc.at \in {"reply", "readBack", "taken", "mail"}
    BY <1>3
  <2> QED BY <2>2, <2>3, <2>4, ProcessAccounts
<1>4. CASE mbc.at = "taken" /\ mess.mail /\ Process(mess, "taken")
  <2>1. mbc.i > R /\ ~ First
    BY <1>2, <1>4 DEF MInv, StageInv, Hands, First
  <2>2. ~ (mbc.i <= R)
    BY <2>1, StageFacts
  <2>3. Process(mess, mbc.at)
    BY <1>4
  <2> QED BY <1>1, <1>4, <2>1, <2>2, <2>3, ProcessAccounts
<1> QED BY <1>3, <1>4 DEF mailInStart

LEMMA mbcMailAccounts ==
    ASSUME MInv, MInv', AInv, mbcMail, UNCHANGED <<io, printer, writer, mbcload>>
    PROVE  AInv'
<1>1. mbc.at = "mail" /\ Place = "mail" /\ mbc.i = N /\ ~ First /\ ~ (mbc.i <= R)
  <2>1. mbc.at = "mail"
    BY DEF mbcMail
  <2>2. Place = "mail"
    BY <2>1 DEF Place, Hands
  <2> QED BY <2>1, <2>2, StageFacts DEF MInv, StageInv, First
<1>2. CASE mess.mail /\ Process(mess, "mail")
  <2>1. mess.inqueue > 0
    BY <1>1, <1>2 DEF MInv, ListInv
  <2>2. Process(mess, mbc.at)
    BY <1>1, <1>2
  <2> QED BY <1>1, <2>1, <2>2, ProcessAccounts
<1>3. CASE /\ ~ mess.mail /\ GotoMbc(IF mbc.flagged THEN "online" ELSE "write")
           /\ UNCHANGED <<mess, pools, blocks, per, idle, pr>>
  <2>1. PICK place \in {"online", "write"} : mbc' = [mbc EXCEPT !.at = place]
    BY <1>3 DEF GotoMbc
  <2>2. mbc'.at = place /\ mbc'.i = mbc.i
    BY <2>1, StageFacts DEF Boards
  <2>3. mbc.at \notin Hands /\ mbc'.at \notin Hands /\ Place' = place
    BY <1>1, <2>2 DEF Hands, Place
  <2>4. \A p \in All : Board(p)' = Board(p)
    BY <1>3, <2>3, SameCounts DEF Board
  <2>5. Len(mess.list) = 0
    <3>1. ~ (mess.inqueue > 0)
      BY <1>3 DEF MInv, ListInv
    <3> QED BY <3>1, AStateFacts
  <2>6. InProcess = 0 /\ InProcess' = 0 /\ Busy = 1 /\ Busy' = 1
    BY <1>1, <2>2, <2>3 DEF InProcess, Busy
  <2>7. BalanceInv'
    <3>1. R' = R
      BY SizesStay
    <3> QED BY <1>1, <1>3, <2>2, <2>5, <2>6, <3>1, AStateFacts DEF BalanceInv
  <2>8. NegotiationInv'
    BY <1>3, <2>2, NegotiationStays
  <2> QED BY <1>3, <2>2, <2>4, <2>7, <2>8, BoardAccounts, AStateFacts
<1> QED BY <1>2, <1>3 DEF mbcMail

LEMMA mbcWaitAccounts ==
    ASSUME MInv, MInv', AInv, mbcWait, UNCHANGED <<io, printer, writer, mbcload>>
    PROVE  AInv'
<1>1. /\ mbc.at = "wait" /\ mess.intr > 0 /\ mess' = waitIntr
      /\ mbc' = [mbc EXCEPT !.at = "mail"] /\ mbc \in Boards /\ mess \in Lists
      /\ UNCHANGED <<pools, blocks, per, idle, pr>>
  BY StageFacts DEF mbcWait, GotoMbc
<1>2. mbc'.at = "mail" /\ mbc'.i = mbc.i /\ mess'.list = mess.list /\ mess'.intr = mess.intr - 1
  BY <1>1 DEF waitIntr, Boards, Lists
<1>3. Place = "wait" /\ Place' = "mail" /\ mbc.at \notin Hands /\ mbc'.at \notin Hands
  BY <1>1, <1>2 DEF Place, Hands
<1>4. mbc.i = N /\ ~ (mbc.i <= R) /\ mbc.i > R
  BY <1>3, StageFacts DEF MInv, StageInv
<1>5. \A p \in All : Board(p)' = Board(p)
  BY <1>1, <1>2, <1>3, SameCounts DEF Board
<1>6. InProcess = 0 /\ InProcess' = 0 /\ Busy = 0 /\ Busy' = 1
  BY <1>1, <1>2, <1>3 DEF InProcess, Busy
<1>7. BalanceInv'
  <2>1. R' = R
    BY SizesStay
  <2> QED BY <1>1, <1>2, <1>3, <1>4, <1>6, <2>1, AStateFacts DEF BalanceInv
<1>8. NegotiationInv'
  BY <1>1, <1>2, NegotiationStays
<1> QED BY <1>1, <1>2, <1>5, <1>7, <1>8, BoardAccounts, AStateFacts

LEMMA mbcOnlineAccounts ==
    ASSUME MInv, MInv', AInv, mbcOnline, UNCHANGED <<io, printer, writer, mbcload>>
    PROVE  AInv'
<1>1. /\ mbc.at = "online" /\ UNCHANGED <<mess, blocks, per, idle, pr>>
      /\ mbc \in Boards /\ pools \in Pools
  BY StageFacts DEF mbcOnline
<1>2. Place = "online" /\ mbc.at \notin Hands
  BY <1>1 DEF Place, Hands
<1>3. mbc.i = N /\ mbc.i # 0 /\ N > R + W
  BY <1>2, StageFacts DEF MInv, StageInv, N
<1>4. ASSUME mbc'.i = mbc.i, mbc'.at \in {"deliver", "write"}, Place' = "write",
             \A p \in All : Board(p)' = Board(p)
      PROVE  AInv'
  <2>1. InProcess = 0 /\ InProcess' = 0 /\ Busy = 1 /\ Busy' = 1
    BY <1>1, <1>2, <1>4 DEF InProcess, Busy
  <2>2. BalanceInv'
    BY <1>1, <1>2, <1>4, <2>1, BalanceStays
  <2>3. NegotiationInv'
    <3>1. ~ (mbc'.i \in 1 .. (R + W)') /\ mbc'.i # 0
      BY <1>3, <1>4, StageFacts, SizesStay
    <3> QED BY <3>1 DEF NegotiationInv
  <2> QED BY <1>1, <1>4, <2>2, <2>3, BoardAccounts, AStateFacts
<1>5. CASE /\ pools.iogp # <<>>
           /\ mbc' = [mbc EXCEPT !.at = "deliver", !.ret = "write", !.flagged = FALSE,
                                 !.pkt = Head(pools.iogp), !.cmd = "ASYNC_IO_STATUS"]
           /\ pools' = [pools EXCEPT !.iogp = Tail(@)]
  <2>1. /\ mbc'.at = "deliver" /\ mbc'.ret = "write" /\ mbc'.pkt = Head(pools.iogp) /\ mbc'.i = mbc.i
        /\ pools'.iogp = Tail(pools.iogp)
        /\ pools'.read = pools.read /\ pools'.write = pools.write
    BY <1>1, <1>5 DEF Boards, Pools
  <2>2. ASSUME NEW p \in All PROVE Board(p)' = Board(p)
    <3>1. InMbc(p) = 0 /\ InMbc(p)' = Is(Head(pools.iogp), p)
      BY <1>2, <2>1 DEF InMbc, Hands
    <3>2. InIogp(p) = InIogp(p)' + Is(Head(pools.iogp), p)
      <4>1. pools.iogp \in Seq(IoPackets)
        BY PoolFacts
      <4> QED BY <1>5, <2>1, <4>1, PoolCounts DEF InIogp
    <3>3. /\ InPr(p)' = InPr(p) /\ InRead(p)' = InRead(p) /\ InWrite(p)' = InWrite(p)
          /\ InList(p)' = InList(p)
      BY <1>1, <2>1, SameCounts
    <3>4. Counts(p) /\ Counts(p)'
      BY CountsBefore, CountsAfter
    <3> QED BY <3>1, <3>2, <3>3, <3>4 DEF Board, Counts, Is
  <2>3. Place' = "write"
    BY <2>1 DEF Place, Hands
  <2> QED BY <1>4, <2>1, <2>2, <2>3
<1>6. CASE mbc' = [mbc EXCEPT !.at = "write", !.flagged = FALSE] /\ UNCHANGED pools
  <2>1. mbc'.at = "write" /\ mbc'.i = mbc.i
    BY <1>1, <1>6 DEF Boards
  <2>2. Place' = "write" /\ mbc'.at \notin Hands
    BY <2>1 DEF Place, Hands
  <2>3. \A p \in All : Board(p)' = Board(p)
    BY <1>1, <1>2, <1>6, <2>2, SameCounts DEF Board
  <2> QED BY <1>4, <2>1, <2>2, <2>3
<1> QED BY <1>5, <1>6 DEF mbcOnline

LEMMA mbcWriteAccounts ==
    ASSUME MInv, MInv', AInv, mbcWrite, UNCHANGED <<io, printer, writer, mbcload>>
    PROVE  AInv'
<1>1. /\ mbc.at = "write" /\ UNCHANGED <<mess, per, idle, pr>>
      /\ mbc \in Boards /\ pools \in Pools /\ blocks \in Blocks
      /\ blocks.write = Len(pools.write) /\ pools.write \in Seq(All) /\ blocks.write \in Nat
  BY StageFacts, PoolFacts DEF mbcWrite
<1>2. Place = "write" /\ mbc.at \notin Hands
  BY <1>1 DEF Place, Hands
<1>3. mbc.i = N /\ ~ (mbc.i <= R) /\ mbc.i # 0 /\ mbc.i > R
  BY <1>2, StageFacts DEF MInv, StageInv
<1>4. ASSUME mbc'.i = mbc.i, mbc'.at \in {"deliver", "wait"}, Place' = "wait",
             pools'.iogp = pools.iogp, blocks'.write \in Nat,
             blocks'.write = (IF blocks.write > 0 THEN blocks.write - 1 ELSE blocks.write),
             \A p \in All : Board(p)' = Board(p)
      PROVE  AInv'
  <2>1. InProcess = 0 /\ InProcess' = 0 /\ Busy = 1 /\ Busy' = 0
    BY <1>1, <1>2, <1>4 DEF InProcess, Busy
  <2>2. BalanceInv'
    <3>1. R' = R
      BY SizesStay
    <3>2. Len(mess.list) <= mess.intr
      BY <1>2, AStateFacts DEF BalanceInv
    <3>3. Len(mess.list) + blocks.write <= mess.intr + 1
      BY <1>3, <2>1, AStateFacts DEF BalanceInv
    <3>4. Len(mess.list) + blocks'.write <= mess.intr
      <4>1. Len(mess.list) \in Nat /\ mess.intr \in Nat /\ blocks.write \in Nat
        BY AStateFacts
      <4> QED BY <1>4, <3>2, <3>3, <4>1
    <3>5. Place' \notin {"online", "write"} /\ mess' = mess
      BY <1>1, <1>4
    <3>6. Len(mess'.list) + blocks'.write + InProcess' <= mess'.intr + Busy'
      <4>1. Len(mess.list) \in Nat /\ mess.intr \in Nat
        BY AStateFacts
      <4> QED BY <1>4, <2>1, <3>4, <3>5, <4>1
    <3> QED BY <1>3, <1>4, <3>1, <3>5, <3>6 DEF BalanceInv
  <2>3. NegotiationInv'
    BY <1>3, <1>4, NegotiationStays
  <2> QED BY <1>1, <1>4, <2>2, <2>3, BoardAccounts, AStateFacts
<1>5. CASE blocks.write > 0 /\ pools.write # <<>>
           /\ blocks' = [blocks EXCEPT !.write = @ - 1]
           /\ Deliver(Head(pools.write), "UNDERSTOOD", "wait")
           /\ pools' = [pools EXCEPT !.write = Tail(@)]
  <2>1. /\ mbc'.at = "deliver" /\ mbc'.ret = "wait" /\ mbc'.pkt = Head(pools.write) /\ mbc'.i = mbc.i
        /\ pools'.write = Tail(pools.write)
        /\ pools'.read = pools.read /\ pools'.iogp = pools.iogp
        /\ blocks'.write = blocks.write - 1
    BY <1>1, <1>5 DEF Boards, Pools, Blocks, Deliver
  <2>2. ASSUME NEW p \in All PROVE Board(p)' = Board(p)
    <3>1. InMbc(p) = 0 /\ InMbc(p)' = Is(Head(pools.write), p)
      BY <1>2, <2>1 DEF InMbc, Hands
    <3>2. InWrite(p) = InWrite(p)' + Is(Head(pools.write), p)
      BY <1>1, <1>5, <2>1, PoolCounts DEF InWrite
    <3>3. /\ InPr(p)' = InPr(p) /\ InRead(p)' = InRead(p) /\ InIogp(p)' = InIogp(p)
          /\ InList(p)' = InList(p)
      BY <1>1, <2>1, SameCounts
    <3>4. Counts(p) /\ Counts(p)'
      BY CountsBefore, CountsAfter
    <3> QED BY <3>1, <3>2, <3>3, <3>4 DEF Board, Counts, Is
  <2>3. Place' = "wait"
    BY <2>1 DEF Place, Hands
  <2>4. blocks.write - 1 \in Nat
    BY <1>1, <1>5
  <2> QED BY <1>4, <1>5, <2>1, <2>2, <2>3, <2>4
<1>6. CASE ~ (blocks.write > 0) /\ GotoMbc("wait") /\ UNCHANGED <<pools, blocks>>
  <2>1. mbc'.at = "wait" /\ mbc'.i = mbc.i
    BY <1>1, <1>6 DEF Boards, GotoMbc
  <2>2. Place' = "wait" /\ mbc'.at \notin Hands
    BY <2>1 DEF Place, Hands
  <2>3. \A p \in All : Board(p)' = Board(p)
    BY <1>1, <1>2, <1>6, <2>2, SameCounts DEF Board
  <2> QED BY <1>1, <1>4, <1>6, <2>1, <2>2, <2>3
<1>7. ~ (blocks.write > 0 /\ pools.write = <<>>)
  BY <1>1, EmptySeq
<1> QED BY <1>5, <1>6, <1>7 DEF mbcWrite

(* While packets are built, and in the negotiation, only a packet that has    *)
(* been built comes back, and none comes twice.                              *)
LEMMA ProcessMailAccounts ==
    ASSUME MInv, MInv', AInv, ProcessMail, UNCHANGED <<io, printer, writer, mbcload>>
    PROVE  AInv'
<1>1. mbc.at = "process" /\ UNCHANGED <<mess, per, idle, pr>> /\ mbc.at \in Hands
  BY DEF ProcessMail, Hands
<1>2. /\ mbc.pkt \in All /\ mbc \in Boards /\ pools \in Pools /\ blocks \in Blocks
      /\ R \in Nat /\ R >= 2 /\ W \in Nat /\ N = R + W + 3 /\ mbc.i \in Nat
  BY StageFacts DEF N
<1>3. /\ pools.read \in Seq(1 .. R) /\ pools.write \in Seq(All) /\ pools.iogp \in Seq(IoPackets)
      /\ blocks.write \in Nat
  BY PoolFacts
<1>4. /\ Place = mbc.ret /\ mbc.ret \in {"reply", "readBack", "taken", "mail"}
      /\ AfterMail \in {"reply", "replied", "build", "taken", "mail"}
      /\ AfterMail = "mail" <=> mbc.ret = "mail"
      /\ AfterMail = "build" => mbc.i \in 1 .. R
  BY <1>1, AfterMailFacts DEF AfterMail
<1>5. /\ InProcess = 1 /\ Busy = IF mbc.ret = "mail" THEN 1 ELSE 0
      /\ \A p \in All : InMbc(p) = Is(mbc.pkt, p)
  BY <1>1, <1>4 DEF InProcess, Busy, InMbc
(* The packet in MBC's hands has been built, and is nowhere else.            *)
<1>6. /\ mbc.pkt = 0 \/ mbc.pkt <= mbc.i
      /\ mbc.pkt = 0 => mbc.i <= R + W
      /\ InIogp(mbc.pkt) = 0
  <2>1. InMbc(mbc.pkt) = 1
    BY <1>2, <1>5 DEF Is
  <2>2. /\ Counts(mbc.pkt) /\ Sum(mbc.pkt) = (IF Owed(mbc.pkt) THEN 1 ELSE 0)
        /\ Sum(mbc.pkt) = InPrinter(mbc.pkt) + InPr(mbc.pkt) + InIo(mbc.pkt) + InPer(mbc.pkt)
                            + InWriter(mbc.pkt) + InMbc(mbc.pkt) + InRead(mbc.pkt)
                            + InWrite(mbc.pkt) + InIogp(mbc.pkt) + InList(mbc.pkt)
    BY <1>2, OnePlace, AStateFacts
  <2>3. Owed(mbc.pkt) /\ InIogp(mbc.pkt) = 0
    BY <2>1, <2>2 DEF Counts
  <2> QED BY <2>3 DEF Owed
(* What has been done with it, in any case but the answer.                   *)
<1>7. ASSUME mbc'.i = mbc.i, mbc'.at \in {AfterMail, "deliver"}, Place' = AfterMail,
             blocks'.write \in Nat,
             blocks'.write = blocks.write \/ (blocks'.write = blocks.write + 1 /\ mbc.i > R),
             \A p \in All : Board(p)' = Board(p), NegotiationInv'
      PROVE  AInv'
  <2>1. InProcess' = 0 /\ Busy' = Busy /\ Place' \notin {"online", "write"}
        /\ mbc'.at # "hung"
    BY <1>4, <1>5, <1>7 DEF InProcess, Busy
  <2>2. BalanceInv'
    <3>1. R' = R
      BY SizesStay
    <3>2. mbc.i <= R => blocks.write = 0
      BY AStateFacts DEF BalanceInv
    <3>3. mbc.i > R => Len(mess.list) + blocks.write + 1 <= mess.intr + Busy
      BY <1>5, AStateFacts DEF BalanceInv
    <3>4. /\ Len(mess.list) \in Nat /\ mess.intr \in Nat /\ Busy \in 0 .. 1
          /\ ~ (mbc.i <= R /\ mbc.i > R)
      BY <1>2, AStateFacts
    <3>5. mbc'.i <= R' => blocks'.write = 0
      BY <1>7, <3>1, <3>2, <3>4
    <3>6. mbc'.i > R' => Len(mess'.list) + blocks'.write + InProcess' <= mess'.intr + Busy'
      <4> SUFFICES ASSUME mbc.i > R
                   PROVE  Len(mess.list) + blocks'.write <= mess.intr + Busy
        BY <1>1, <1>7, <2>1, <3>1, <3>4
      <4>1. blocks'.write <= blocks.write + 1
        BY <1>3, <1>7
      <4> QED BY <1>3, <1>7, <3>3, <3>4, <4>1
    <3> QED BY <2>1, <3>5, <3>6 DEF BalanceInv
  <2> QED BY <1>1, <1>7, <2>1, <2>2, BoardAccounts
<1>8. Processed => mbc'.i = mbc.i /\ mbc'.at = AfterMail /\ Place' = AfterMail /\ mbc'.at \notin Hands
  <2>1. AfterMail \notin Hands
    BY <1>4 DEF Hands
  <2> QED BY <1>1, <2>1, ProcessedFacts
<1>9. ASSUME mbc'.i = mbc.i, mbc'.at \in {AfterMail, "deliver"}, mbc.cmd \notin IoRequests,
             pools'.iogp = pools.iogp
      PROVE  NegotiationInv'
  <2>1. AfterMail # "replied"
    BY <1>1, <1>9, AfterMailFacts
  <2>2. mbc.i # 0 \/ mbc'.at \notin {"selftest", "replied", "build"}
    BY <1>2, <1>4, <1>9, <2>1
  <2> QED BY <1>9, <2>2, NegotiationStays
<1>10. mbc.cmd \in {"READBLOCK", "WRITEBLOCK", "ASCII_STATUS"} => mbc.cmd \notin IoRequests
  BY DEF IoRequests
<1>11. CASE /\ mbc.cmd = "READBLOCK" /\ Processed
            /\ blocks' = [blocks EXCEPT !.read = @ + 1]
            /\ pools' = [pools EXCEPT !.read = Append(@, mbc.pkt)]
  <2>1. mbc.pkt \in 1 .. R
    BY <1>1, <1>11, AfterMailFacts
  <2>2. /\ pools'.read = Append(pools.read, mbc.pkt) /\ pools'.write = pools.write
        /\ pools'.iogp = pools.iogp /\ blocks'.write = blocks.write
    BY <1>2, <1>11 DEF Pools, Blocks
  <2>3. ASSUME NEW p \in All PROVE Board(p)' = Board(p)
    <3>1. InMbc(p) = Is(mbc.pkt, p) /\ InMbc(p)' = 0
      BY <1>5, <1>8, <1>11 DEF InMbc
    <3>2. InRead(p)' = InRead(p) + Is(mbc.pkt, p)
      <4> DEFINE S == 1 .. R
      <4>1. pools.read \in Seq(S) /\ mbc.pkt \in S
        BY <1>3, <2>1
      <4> HIDE DEF S
      <4> QED BY <2>2, <4>1, PoolCounts DEF InRead
    <3>3. /\ InPr(p)' = InPr(p) /\ InWrite(p)' = InWrite(p) /\ InIogp(p)' = InIogp(p)
          /\ InList(p)' = InList(p)
      BY <1>1, <2>2, SameCounts
    <3>4. Counts(p) /\ Counts(p)'
      BY CountsBefore, CountsAfter
    <3> QED BY <3>1, <3>2, <3>3, <3>4 DEF Board, Counts, Is
  <2>4. NegotiationInv'
    BY <1>8, <1>9, <1>10, <1>11, <2>2
  <2> QED BY <1>3, <1>7, <1>8, <1>11, <2>2, <2>3, <2>4
<1>12. CASE /\ mbc.cmd \in {"WRITEBLOCK", "ASCII_STATUS"} /\ Processed
            /\ blocks' = [blocks EXCEPT !.write = @ + 1]
            /\ pools' = [pools EXCEPT !.write = Append(@, mbc.pkt)]
  <2>1. mbc.i > R
    <3>1. mbc.pkt \in R + 1 .. R + W \/ mbc.pkt = N
      <4>1. <<mbc.pkt, mbc.cmd>> \in Mails
        BY <1>1, AfterMailFacts
      <4>2. mbc.cmd \notin IoRequests /\ mbc.cmd # "READBLOCK"
        BY <1>10, <1>12
      <4> QED BY <4>1, <4>2 DEF Mails
    <3> QED BY <1>2, <1>6, <3>1
  <2>2. /\ pools'.write = Append(pools.write, mbc.pkt) /\ pools'.read = pools.read
        /\ pools'.iogp = pools.iogp /\ blocks'.write = blocks.write + 1
    BY <1>2, <1>12 DEF Pools, Blocks
  <2>3. ASSUME NEW p \in All PROVE Board(p)' = Board(p)
    <3>1. InMbc(p) = Is(mbc.pkt, p) /\ InMbc(p)' = 0
      BY <1>5, <1>8, <1>12 DEF InMbc
    <3>2. InWrite(p)' = InWrite(p) + Is(mbc.pkt, p)
      BY <1>2, <1>3, <2>2, PoolCounts DEF InWrite
    <3>3. /\ InPr(p)' = InPr(p) /\ InRead(p)' = InRead(p) /\ InIogp(p)' = InIogp(p)
          /\ InList(p)' = InList(p)
      BY <1>1, <2>2, SameCounts
    <3>4. Counts(p) /\ Counts(p)'
      BY CountsBefore, CountsAfter
    <3> QED BY <3>1, <3>2, <3>3, <3>4 DEF Board, Counts, Is
  <2>4. NegotiationInv'
    BY <1>8, <1>9, <1>10, <1>12, <2>2
  <2>5. blocks'.write \in Nat
    BY <1>3, <2>2
  <2> QED BY <1>7, <1>8, <1>12, <2>1, <2>2, <2>3, <2>4, <2>5
<1>13. CASE mbc.cmd \in IoRequests /\ IoReply
  <2>1. /\ mbc.pkt \in IoPackets /\ Processed /\ blocks' = blocks
        /\ pools' = [pools EXCEPT !.iogp = Append(@, mbc.pkt)]
    BY <1>1, <1>13, AfterMailFacts DEF IoReply
  <2>2. /\ pools'.iogp = Append(pools.iogp, mbc.pkt)
        /\ pools'.read = pools.read /\ pools'.write = pools.write
    BY <1>2, <2>1 DEF Pools
  <2>3. ASSUME NEW p \in All PROVE Board(p)' = Board(p)
    <3>1. InMbc(p) = Is(mbc.pkt, p) /\ InMbc(p)' = 0
      BY <1>5, <1>8, <2>1 DEF InMbc
    <3>2. InIogp(p)' = InIogp(p) + Is(mbc.pkt, p)
      BY <1>3, <2>1, <2>2, PoolCounts DEF InIogp
    <3>3. /\ InPr(p)' = InPr(p) /\ InRead(p)' = InRead(p) /\ InWrite(p)' = InWrite(p)
          /\ InList(p)' = InList(p)
      BY <1>1, <2>2, SameCounts
    <3>4. Counts(p) /\ Counts(p)'
      BY CountsBefore, CountsAfter
    <3> QED BY <3>1, <3>2, <3>3, <3>4 DEF Board, Counts, Is
  <2>4. NegotiationInv'
    <3>1. CASE mbc.i = 0
      <4>1. mbc.pkt = 0
        BY <1>2, <1>6, <3>1, StageFacts, SetFacts
      <4>2. pools.iogp = <<>>
        <5> SUFFICES ASSUME pools.iogp # <<>> PROVE FALSE
          OBVIOUS
        <5> DEFINE h == Head(pools.iogp)
        <5>1. h \in All /\ h \in Nat
          BY PoolFacts, SetFacts, StageFacts
        <5>2. InIogp(h) = Cardinality(Hits(Tail(pools.iogp), {h})) + Is(h, h)
          BY <1>3, PoolCounts DEF InIogp
        <5>3. Cardinality(Hits(Tail(pools.iogp), {h})) \in Nat
          BY PoolFacts, HitsFinite
        <5> HIDE DEF h
        <5>4. InIogp(h) >= 1
          BY <5>2, <5>3 DEF Is
        <5>5. Sum(h) = (IF Owed(h) THEN 1 ELSE 0)
          BY <5>1, OnePlace, AStateFacts
        <5>6. Owed(h)
          <6>1. Sum(h) >= InIogp(h) /\ Sum(h) \in Nat /\ InIogp(h) \in Nat
            BY <5>1, SumCovers
          <6>2. Sum(h) # 0
            BY <5>4, <6>1
          <6> QED BY <5>5, <6>2
        <5>7. h = 0
          BY <3>1, <5>1, <5>6 DEF Owed
        <5> QED BY <1>6, <4>1, <5>4, <5>7
      <4>3. pools'.iogp = <<0>>
        BY <2>2, <4>1, <4>2
      <4> QED BY <4>3 DEF NegotiationInv
    <3>2. CASE mbc.i # 0
      <4>1. ~ (mbc.i <= R + W)
        <5> SUFFICES ASSUME mbc.i <= R + W PROVE FALSE
          OBVIOUS
        <5>1. pools.iogp = <<0>>
          <6>1. NegotiationInv
            BY AStateFacts
          <6> QED BY <1>2, <3>2, <6>1 DEF NegotiationInv
        <5>2. mbc.pkt = 0
          <6>1. mbc.pkt = 0 \/ mbc.pkt \in R + W + 1 .. R + W + 2
            BY <2>1 DEF IoPackets
          <6> QED BY <1>2, <1>6, <6>1
        <5>3. InIogp(0) = Cardinality(Hits(Tail(pools.iogp), {0})) + Is(0, 0)
          <6>1. pools.iogp # <<>> /\ Head(pools.iogp) = 0
            BY <5>1
          <6> QED BY <1>3, <6>1, PoolCounts DEF InIogp
        <5>4. Cardinality(Hits(Tail(pools.iogp), {0})) \in Nat
          <6>1. pools.iogp # <<>>
            BY <5>1
          <6>2. Tail(pools.iogp) \in Seq(IoPackets)
            BY <6>1, PoolFacts
          <6> QED BY <6>2, HitsFinite
        <5> QED BY <1>6, <5>2, <5>3, <5>4 DEF Is
      <4>2. mbc'.i \notin 1 .. (R + W)' /\ mbc'.i # 0
        BY <1>2, <1>8, <2>1, <3>2, <4>1, SizesStay
      <4> QED BY <4>2 DEF NegotiationInv
    <3> QED BY <3>1, <3>2
  <2> QED BY <1>3, <1>7, <1>8, <2>1, <2>3, <2>4
<1>14. CASE mbc.cmd \notin IoRequests /\ Answered
  <2>1. /\ mbc' = [mbc EXCEPT !.at = "deliver", !.ret = AfterMail, !.pkt = mbc.pkt, !.cmd = "ANSWER"]
        /\ UNCHANGED <<pools, blocks>>
    BY <1>14 DEF Answered, Deliver
  <2>2. /\ mbc'.at = "deliver" /\ mbc'.ret = AfterMail /\ mbc'.pkt = mbc.pkt /\ mbc'.i = mbc.i
    BY <1>2, <2>1 DEF Boards
  <2>3. mbc'.at \in Hands /\ Place' = AfterMail
    BY <2>2 DEF Place, Hands
  <2>4. \A p \in All : Board(p)' = Board(p)
    BY <1>1, <2>1, <2>2, <2>3, SameCounts DEF Board
  <2>5. NegotiationInv'
    BY <1>9, <1>14, <2>1, <2>2
  <2> QED BY <1>3, <1>7, <2>1, <2>2, <2>3, <2>4, <2>5
<1> QED BY <1>11, <1>12, <1>13, <1>14 DEF ProcessMail

LEMMA MbcProcessAccounts ==
    ASSUME MInv, MInv', AInv, MbcProcess
    PROVE  AInv'
<1>1. UNCHANGED <<io, printer, writer, mbcload>>
  BY DEF MbcProcess
<1>2. \/ deliverTest \/ deliverNow \/ negotiate \/ build \/ built \/ mailInStart
      \/ ProcessMail \/ mbcWait \/ mbcMail \/ mbcOnline \/ mbcWrite
  BY DEF MbcProcess
<1> QED
  BY <1>1, <1>2, deliverTestAccounts, deliverNowAccounts, negotiateAccounts, buildAccounts,
     builtAccounts, mailInStartAccounts, ProcessMailAccounts, mbcWaitAccounts, mbcMailAccounts,
     mbcOnlineAccounts, mbcWriteAccounts

-----------------------------------------------------------------------------
(* The interrupt handler, backend_write and the printer *)

LEMMA BoardRests ==
    ASSUME AInv, UNCHANGED <<mbc, mess, mbcload>>,
           pools'.iogp = pools.iogp, blocks'.write = blocks.write
    PROVE  NegotiationInv' /\ BalanceInv'
<1>1. R' = R /\ W' = W /\ Place' = Place
  BY SizesStay DEF Place
<1>2. Busy' = Busy /\ InProcess' = InProcess
  BY <1>1 DEF Busy, InProcess
<1> QED BY <1>1, <1>2 DEF AInv, NegotiationInv, BalanceInv

(* Steps that change only what is counted elsewhere. *)
LEMMA OutsideAccounts ==
    ASSUME MInv, MInv', AInv, UNCHANGED <<mbc, mess, mbcload>>,
           pools'.iogp = pools.iogp, blocks'.write = blocks.write,
           per'.due => (per' = per \/ per'.pkt = N),
           \A p \in All : InPrinter(p)' + InPr(p)' + InIo(p)' + InPer(p)' + InWriter(p)' + InRead(p)'
                            + InWrite(p)'
                            = InPrinter(p) + InPr(p) + InIo(p) + InPer(p) + InWriter(p) + InRead(p)
                                + InWrite(p)
    PROVE  AInv'
<1>1. ASSUME NEW p \in All PROVE Sum(p)' = Sum(p)
  <2> DEFINE a == InPrinter(p) + InPr(p) + InIo(p) + InPer(p) + InWriter(p) + InRead(p)
                    + InWrite(p)
             b == InPrinter(p)' + InPr(p)' + InIo(p)' + InPer(p)' + InWriter(p)' + InRead(p)'
                    + InWrite(p)'
  <2>1. Counts(p) /\ Counts(p)'
    BY CountsBefore, CountsAfter
  <2>2. Sum(p) = a + InMbc(p) + InIogp(p) + InList(p)
    BY <2>1 DEF Counts, Sum
  <2>3. Sum(p)' = b + InMbc(p)' + InIogp(p)' + InList(p)'
    BY <2>1 DEF Counts, Sum
  <2>4. InMbc(p)' = InMbc(p) /\ InIogp(p)' = InIogp(p) /\ InList(p)' = InList(p)
    BY SameCounts
  <2>5. a = b
    OBVIOUS
  <2> HIDE DEF a, b
  <2> QED BY <2>2, <2>3, <2>4, <2>5
<1>2. Accounted'
  BY <1>1, SumStays, AStateFacts
<1>3. NegotiationInv' /\ BalanceInv'
  BY BoardRests
<1>4. StatusInv' /\ Goes'
  BY SizesStay, AStateFacts DEF StatusInv, Goes
<1> QED BY <1>2, <1>3, <1>4 DEF AInv

LEMMA ReadMailAccounts ==
    ASSUME MInv, MInv', AInv, ReadMail, mbc'.at # "hung"
    PROVE  AInv'
<1>1. /\ io.vld /\ io' = Restarted.io
      /\ UNCHANGED <<pools, blocks, pr, printer, writer, printed, mbcload>>
  BY DEF ReadMail
<1>2. <<io.pkt, io.cmd>> \in Mails /\ io.pkt \in All /\ ~ io'.vld
  BY <1>1 DEF MInv, BoxInv, Typed, ToBoard, Restarted
<1>3. \A p : InIo(p) = Is(io.pkt, p) /\ InIo(p)' = 0
  BY <1>1, <1>2 DEF InIo
<1>4. \A p : /\ InPrinter(p)' = InPrinter(p) /\ InPr(p)' = InPr(p) /\ InWriter(p)' = InWriter(p)
             /\ InRead(p)' = InRead(p) /\ InWrite(p)' = InWrite(p) /\ InIogp(p)' = InIogp(p)
  BY <1>1, SameCounts
<1>5. CASE /\ io.cmd \in {"ASYNC_PER_STATUS", "INQUIRE_IO_STATUS"}
           /\ per' = [due |-> TRUE, pkt |-> io.pkt]
           /\ UNCHANGED <<mbc, mess>>
  <2>1. io.pkt = N
    <3>1. io.cmd \in Requests /\ io.cmd \notin IoRequests \union {"READBLOCK", "WRITEBLOCK"}
      BY <1>5 DEF Requests, IoRequests
    <3>2. <<io.pkt, io.cmd>> \in {N} \X Requests
      BY <1>2, <3>1 DEF Mails
    <3> QED BY <3>2
  <2>2. ~ per.due
    <3> SUFFICES ASSUME per.due PROVE FALSE
      OBVIOUS
    <3>1. per.pkt = N
      BY AStateFacts DEF StatusInv
    <3>2. InPer(N) = 1 /\ InIo(N) = 1 /\ N \in All
      BY <1>2, <1>3, <2>1, <3>1 DEF InPer, Is
    <3>3. /\ Counts(N) /\ Sum(N) \in 0 .. 1
          /\ Sum(N) = InPrinter(N) + InPr(N) + InIo(N) + InPer(N) + InWriter(N)
                        + InMbc(N) + InRead(N) + InWrite(N) + InIogp(N) + InList(N)
      BY <3>2, OnePlace, AStateFacts
    <3> QED BY <3>2, <3>3 DEF Counts
  <2>3. ASSUME NEW p \in All
        PROVE  InPrinter(p)' + InPr(p)' + InIo(p)' + InPer(p)' + InWriter(p)' + InRead(p)'
                 + InWrite(p)'
                 = InPrinter(p) + InPr(p) + InIo(p) + InPer(p) + InWriter(p) + InRead(p)
                     + InWrite(p)
    <3>1. InPer(p) = 0 /\ InPer(p)' = Is(io.pkt, p)
      BY <1>5, <2>2 DEF InPer
    <3>2. Counts(p)
      BY CountsBefore
    <3> QED BY <1>3, <1>4, <3>1, <3>2 DEF Counts, Is
  <2> QED BY <1>1, <1>2, <1>5, <2>1, <2>3, OutsideAccounts
<1>6. ~ GotoMbc("hung")
  <2>1. mbc \in Boards
    BY StageFacts
  <2> QED BY <2>1 DEF GotoMbc, Boards
<1>7. CASE mess' = Listed(io.pkt, io.cmd) /\ UNCHANGED <<mbc, per, idle>>
  <2>1. /\ mess'.list = Append(mess.list, <<io.pkt, io.cmd>>) /\ mess'.intr = mess.intr + 1
        /\ Len(mess'.list) = Len(mess.list) + 1
    <3>1. mess \in Lists
      BY StageFacts
    <3>2. mess'.list = Append(mess.list, <<io.pkt, io.cmd>>) /\ mess'.intr = mess.intr + 1
      BY <1>7, <3>1 DEF Listed, Lists
    <3> QED BY <1>2, <3>2, AStateFacts, AppendProperties
  <2>2. ASSUME NEW p \in All PROVE Sum(p)' = Sum(p)
    <3>1. InList(p)' = InList(p) + Is(io.pkt, p)
      <4> DEFINE mail == <<io.pkt, io.cmd>>
      <4>1. mail \in Mails /\ mail[1] = io.pkt
        BY <1>2
      <4> HIDE DEF mail
      <4>2. Cardinality(Hits(Append(mess.list, mail), Of(p))) = InList(p) + Is(mail[1], p)
        BY <4>1, ListCounts
      <4> QED BY <2>1, <4>1, <4>2 DEF InList, mail
    <3>2. InPer(p)' = InPer(p) /\ InMbc(p)' = InMbc(p)
      BY <1>7, SameCounts
    <3>3. Counts(p) /\ Counts(p)'
      BY CountsBefore, CountsAfter
    <3> QED BY <1>3, <1>4, <3>1, <3>2, <3>3 DEF Counts, Sum, Is
  <2>3. Accounted'
    BY <1>1, <1>7, <2>2, SumStays, AStateFacts
  <2>4. R' = R /\ W' = W /\ N' = N /\ Place' = Place
    BY <1>1, <1>7, SizesStay DEF Place
  <2>5. Busy' = Busy /\ InProcess' = InProcess
    BY <1>7, <2>4 DEF Busy, InProcess
  <2>6. BalanceInv'
    BY <1>1, <1>7, <2>1, <2>4, <2>5, AStateFacts DEF BalanceInv
  <2>7. NegotiationInv'
    BY <1>1, <1>7, <2>4, AStateFacts DEF NegotiationInv
  <2>8. StatusInv' /\ Goes'
    BY <1>2, <1>7, <2>4, AStateFacts DEF StatusInv, Goes
  <2> QED BY <2>3, <2>6, <2>7, <2>8 DEF AInv
<1> QED BY <1>5, <1>6, <1>7 DEF ReadMail

LEMMA deliverDueAccounts ==
    ASSUME MInv, MInv', AInv, deliverDue
    PROVE  AInv'
<1>1. /\ per.due /\ ~ pr.vld /\ per' = Restarted.per
      /\ pr' = [pr EXCEPT !.vld = TRUE, !.pkt = per.pkt, !.what = "UNDERSTOOD"]
      /\ UNCHANGED <<mbc, mess, pools, blocks, idle, io, printer, writer, printed, mbcload>>
  BY DEF deliverDue, Due
<1>2. ~ per'.due /\ pr'.vld /\ pr'.pkt = per.pkt
  BY <1>1, OutsideFacts DEF ToPrinter, Restarted
<1>3. ASSUME NEW p \in All
      PROVE  InPrinter(p)' + InPr(p)' + InIo(p)' + InPer(p)' + InWriter(p)' + InRead(p)'
               + InWrite(p)'
               = InPrinter(p) + InPr(p) + InIo(p) + InPer(p) + InWriter(p) + InRead(p)
                   + InWrite(p)
  <2>1. InPer(p) = Is(per.pkt, p) /\ InPer(p)' = 0 /\ InPr(p) = 0 /\ InPr(p)' = Is(per.pkt, p)
    BY <1>1, <1>2 DEF InPer, InPr
  <2>2. /\ InPrinter(p)' = InPrinter(p) /\ InIo(p)' = InIo(p) /\ InWriter(p)' = InWriter(p)
        /\ InRead(p)' = InRead(p) /\ InWrite(p)' = InWrite(p)
    BY <1>1, SameCounts
  <2>3. Counts(p)
    BY CountsBefore
  <2> QED BY <2>1, <2>2, <2>3 DEF Counts, Is
<1> QED BY <1>1, <1>2, <1>3, OutsideAccounts

LEMMA WritePrnAccounts ==
    ASSUME MInv, MInv', AInv, WritePrn
    PROVE  AInv'
<1>1. /\ InterruptsOn /\ blocks.read >= 2
      /\ pools' = [pools EXCEPT !.read = Tail(@)]
      /\ blocks' = [blocks EXCEPT !.read = @ - 1]
      /\ writer' = [writer EXCEPT !.pkt = Head(pools.read)]
      /\ UNCHANGED <<mbc, mess, per, idle, pr, io, printer, printed, mbcload>>
  BY DEF WritePrn, MaySend
<1>2. /\ pools \in Pools /\ blocks \in Blocks /\ writer \in Writers
      /\ blocks.read = Len(pools.read) /\ pools.read \in Seq(1 .. R) /\ R \in Nat
  BY StageFacts, PoolFacts, OutsideFacts
<1>3. pools.read # <<>> /\ Head(pools.read) \in 1 .. R
  <2>1. pools.read # <<>>
    BY <1>1, <1>2, EmptySeq
  <2> QED BY <1>2, <2>1, HeadTailProperties
<1>4. /\ pools'.read = Tail(pools.read) /\ pools'.write = pools.write
      /\ pools'.iogp = pools.iogp /\ blocks'.write = blocks.write
      /\ writer'.pkt = Head(pools.read)
  BY <1>1, <1>2 DEF Pools, Blocks, Writers
<1>5. ~ InterruptsOn'
  BY <1>3, <1>4 DEF InterruptsOn, NoPacket
<1>6. ASSUME NEW p \in All
      PROVE  InPrinter(p)' + InPr(p)' + InIo(p)' + InPer(p)' + InWriter(p)' + InRead(p)'
               + InWrite(p)'
               = InPrinter(p) + InPr(p) + InIo(p) + InPer(p) + InWriter(p) + InRead(p)
                   + InWrite(p)
  <2>1. InWriter(p) = 0 /\ InWriter(p)' = Is(Head(pools.read), p)
    BY <1>1, <1>4, <1>5 DEF InWriter
  <2>2. InRead(p) = InRead(p)' + Is(Head(pools.read), p)
    <3> DEFINE S == 1 .. R
    <3>1. pools.read \in Seq(S) /\ pools.read # <<>>
      BY <1>2, <1>3
    <3> HIDE DEF S
    <3> QED BY <1>4, <3>1, PoolCounts DEF InRead
  <2>3. /\ InPrinter(p)' = InPrinter(p) /\ InPr(p)' = InPr(p) /\ InIo(p)' = InIo(p)
        /\ InPer(p)' = InPer(p) /\ InWrite(p)' = InWrite(p)
    BY <1>1, <1>4, SameCounts
  <2>4. Counts(p) /\ Counts(p)'
    BY CountsBefore, CountsAfter
  <2> QED BY <2>1, <2>2, <2>3, <2>4 DEF Counts, Is
<1> QED BY <1>1, <1>4, <1>6, OutsideAccounts

LEMMA DeliverPacketAccounts ==
    ASSUME MInv, MInv', AInv, DeliverPacket
    PROVE  AInv'
<1>1. /\ ~ InterruptsOn /\ ~ pr.vld
      /\ pr' = [pr EXCEPT !.vld = TRUE, !.pkt = writer.pkt,
                          !.what = IF LastBuffer THEN "LOGICAL_BREAK" ELSE "DATA"]
      /\ writer' = [writer EXCEPT !.done = @ + 1, !.pkt = NoPacket]
      /\ UNCHANGED <<mbc, mess, pools, blocks, per, idle, io, printer, printed, mbcload>>
  BY DEF DeliverPacket
<1>2. pr'.vld /\ pr'.pkt = writer.pkt /\ writer'.pkt = NoPacket /\ InterruptsOn'
  BY <1>1, OutsideFacts DEF ToPrinter, Writers, InterruptsOn
<1>3. ASSUME NEW p \in All
      PROVE  InPrinter(p)' + InPr(p)' + InIo(p)' + InPer(p)' + InWriter(p)' + InRead(p)'
               + InWrite(p)'
               = InPrinter(p) + InPr(p) + InIo(p) + InPer(p) + InWriter(p) + InRead(p)
                   + InWrite(p)
  <2>1. /\ InWriter(p) = Is(writer.pkt, p) /\ InWriter(p)' = 0
        /\ InPr(p) = 0 /\ InPr(p)' = Is(writer.pkt, p)
    BY <1>1, <1>2 DEF InWriter, InPr
  <2>2. /\ InPrinter(p)' = InPrinter(p) /\ InIo(p)' = InIo(p) /\ InPer(p)' = InPer(p)
        /\ InRead(p)' = InRead(p) /\ InWrite(p)' = InWrite(p)
    BY <1>1, SameCounts
  <2>3. Counts(p)
    BY CountsBefore
  <2> QED BY <2>1, <2>2, <2>3 DEF Counts, Is
<1> QED BY <1>1, <1>3, OutsideAccounts

LEMMA HeldCounts ==
    ASSUME MInv, NEW mail, NEW p
    PROVE  /\ mail \notin printer =>
                Cardinality({m \in printer \union {mail} : m[1] = p}) = InPrinter(p) + Is(mail[1], p)
           /\ mail \in printer =>
                InPrinter(p) = Cardinality({m \in printer \ {mail} : m[1] = p}) + Is(mail[1], p)
<1> DEFINE T == {m \in printer : m[1] = p}
<1>1. IsFiniteSet(T) /\ Cardinality(T) \in Nat
  <2>1. T \subseteq printer /\ IsFiniteSet(printer)
    BY OutsideFacts
  <2> QED BY <2>1, FS_Subset, FS_CardinalityType
<1>2. CASE mail[1] = p
  <2>1. {m \in printer \union {mail} : m[1] = p} = T \union {mail}
    BY <1>2
  <2>2. {m \in printer \ {mail} : m[1] = p} = T \ {mail}
    OBVIOUS
  <2>3. mail \in T <=> mail \in printer
    BY <1>2
  <2>4. mail \notin T => Cardinality(T \union {mail}) = Cardinality(T) + 1
    BY <1>1, FS_AddElement
  <2>5. mail \in T => Cardinality(T \ {mail}) = Cardinality(T) - 1
    BY <1>1, FS_RemoveElement
  <2>6. Is(mail[1], p) = 1
    BY <1>2 DEF Is
  <2>7. InPrinter(p) = Cardinality(T)
    BY DEF InPrinter
  <2> HIDE DEF T
  <2>8. mail \notin printer =>
           Cardinality({m \in printer \union {mail} : m[1] = p}) = InPrinter(p) + Is(mail[1], p)
    BY <2>1, <2>3, <2>4, <2>6, <2>7
  <2>9. mail \in printer =>
           InPrinter(p) = Cardinality({m \in printer \ {mail} : m[1] = p}) + Is(mail[1], p)
    BY <1>1, <2>2, <2>3, <2>5, <2>6, <2>7
  <2> QED BY <2>8, <2>9
<1>3. CASE mail[1] # p
  <2>1. {m \in printer \union {mail} : m[1] = p} = T
    BY <1>3
  <2>2. {m \in printer \ {mail} : m[1] = p} = T
    BY <1>3
  <2>3. Is(mail[1], p) = 0
    BY <1>3 DEF Is
  <2>4. InPrinter(p) = Cardinality(T)
    BY DEF InPrinter
  <2> HIDE DEF T
  <2>5. Cardinality(T) = Cardinality(T) + 0
    BY <1>1
  <2> QED BY <2>1, <2>2, <2>3, <2>4, <2>5
<1> QED BY <1>2, <1>3

LEMMA takeAccounts ==
    ASSUME MInv, MInv', AInv, take
    PROVE  AInv'
<1> DEFINE mail == <<pr.pkt, IF pr.what \in IoRequests THEN pr.what ELSE "">>
<1>1. /\ pr.vld /\ pr' = [pr EXCEPT !.vld = FALSE, !.pkt = NoPacket, !.what = ""]
      /\ printer' = printer \union {mail}
      /\ UNCHANGED <<mbc, mess, pools, blocks, per, idle, io, writer, mbcload>>
  BY DEF take, boardVars
<1>2. ~ pr'.vld /\ pr.pkt \in All /\ mail[1] = pr.pkt
  BY <1>1, OutsideFacts DEF ToPrinter
<1> HIDE DEF mail
<1>3. mail \notin printer
  <2> SUFFICES ASSUME mail \in printer PROVE FALSE
    OBVIOUS
  <2> DEFINE p == pr.pkt
  <2>1. InPr(p) = 1
    BY <1>1 DEF InPr, Is
  <2>2. InPrinter(p) = Cardinality({m \in printer \ {mail} : m[1] = p}) + Is(mail[1], p)
    BY HeldCounts
  <2>3. Cardinality({m \in printer \ {mail} : m[1] = p}) \in Nat
    <3>1. {m \in printer \ {mail} : m[1] = p} \subseteq printer /\ IsFiniteSet(printer)
      BY OutsideFacts
    <3> QED BY <3>1, FS_Subset, FS_CardinalityType
  <2>4. /\ Counts(p) /\ Sum(p) \in 0 .. 1
        /\ Sum(p) = InPrinter(p) + InPr(p) + InIo(p) + InPer(p) + InWriter(p)
                      + InMbc(p) + InRead(p) + InWrite(p) + InIogp(p) + InList(p)
    BY <1>2, OnePlace, AStateFacts
  <2>5. InPrinter(p) >= 1
    BY <1>2, <2>2, <2>3 DEF Is
  <2> HIDE DEF p
  <2> QED BY <2>1, <2>4, <2>5 DEF Counts
<1>4. ASSUME NEW p \in All
      PROVE  InPrinter(p)' + InPr(p)' + InIo(p)' + InPer(p)' + InWriter(p)' + InRead(p)'
               + InWrite(p)'
               = InPrinter(p) + InPr(p) + InIo(p) + InPer(p) + InWriter(p) + InRead(p)
                   + InWrite(p)
  <2>1. InPr(p) = Is(pr.pkt, p) /\ InPr(p)' = 0
    BY <1>1, <1>2 DEF InPr
  <2>2. InPrinter(p)' = InPrinter(p) + Is(pr.pkt, p)
    <3>1. Cardinality({m \in printer \union {mail} : m[1] = p}) = InPrinter(p) + Is(mail[1], p)
      BY <1>3, HeldCounts
    <3> QED BY <1>1, <1>2, <3>1 DEF InPrinter
  <2>3. /\ InIo(p)' = InIo(p) /\ InPer(p)' = InPer(p) /\ InWriter(p)' = InWriter(p)
        /\ InRead(p)' = InRead(p) /\ InWrite(p)' = InWrite(p)
    BY <1>1, SameCounts
  <2>4. Counts(p)
    BY CountsBefore
  <2> QED BY <2>1, <2>2, <2>3, <2>4 DEF Counts, Is
<1> QED BY <1>1, <1>4, OutsideAccounts

LEMMA postAccounts ==
    ASSUME MInv, MInv', AInv, NEW mail \in printer, post(mail[1], mail[2])
    PROVE  AInv'
<1>1. /\ printer' = printer \ {<<mail[1], mail[2]>>} /\ ~ io.vld
      /\ UNCHANGED <<mbc, mess, pools, blocks, per, idle, pr, writer, printed, mbcload>>
  BY DEF post, boardVars
<1>2. io'.vld /\ io'.pkt = mail[1]
  <2>1. PICK cmd \in Mail(mail[1], mail[2]), state \in BOOLEAN :
           io' = [io EXCEPT !.vld = TRUE, !.pkt = mail[1], !.cmd = cmd, !.idle = state]
    BY DEF post
  <2> QED BY <2>1, OutsideFacts DEF ToBoard
<1>3. mail = <<mail[1], mail[2]>>
  <2>1. mail \in All \X (IoRequests \union {""})
    BY OutsideFacts DEF Held
  <2> QED BY <2>1, PairIs
<1>4. ASSUME NEW p \in All
      PROVE  InPrinter(p)' + InPr(p)' + InIo(p)' + InPer(p)' + InWriter(p)' + InRead(p)'
               + InWrite(p)'
               = InPrinter(p) + InPr(p) + InIo(p) + InPer(p) + InWriter(p) + InRead(p)
                   + InWrite(p)
  <2>1. InIo(p) = 0 /\ InIo(p)' = Is(mail[1], p)
    BY <1>1, <1>2 DEF InIo
  <2>2. InPrinter(p) = InPrinter(p)' + Is(mail[1], p)
    <3>1. printer' = printer \ {mail}
      BY <1>1, <1>3
    <3>2. InPrinter(p) = Cardinality({m \in printer \ {mail} : m[1] = p}) + Is(mail[1], p)
      BY HeldCounts
    <3> QED BY <3>1, <3>2 DEF InPrinter
  <2>3. /\ InPr(p)' = InPr(p) /\ InPer(p)' = InPer(p) /\ InWriter(p)' = InWriter(p)
        /\ InRead(p)' = InRead(p) /\ InWrite(p)' = InWrite(p)
    BY <1>1, SameCounts
  <2>4. Counts(p) /\ Counts(p)'
    BY CountsBefore, CountsAfter
  <2> QED BY <2>1, <2>2, <2>3, <2>4 DEF Counts, Is
<1> QED BY <1>1, <1>4, OutsideAccounts

LEMMA RestAccounts ==
    ASSUME MInv, MInv', AInv,
           acknowledge \/ reset \/ backend_write \/ UNCHANGED mbcVars
    PROVE  AInv'
<1>1. /\ UNCHANGED <<mbc, mess, pools, blocks, per, printer, mbcload>>
      /\ pr'.vld = pr.vld /\ pr'.pkt = pr.pkt /\ io'.vld = io.vld /\ io'.pkt = io.pkt
      /\ writer'.pkt = writer.pkt
  <2>1. pr \in ToPrinter /\ io \in ToBoard /\ writer \in Writers
    BY OutsideFacts
  <2>2. CASE acknowledge
    BY <2>1, <2>2 DEF acknowledge, boardVars, ToPrinter
  <2>3. CASE reset
    BY <2>1, <2>3 DEF reset, boardVars, ToBoard
  <2>4. CASE backend_write
    BY <2>1, <2>4 DEF backend_write, boardVars, Writers
  <2>5. CASE UNCHANGED mbcVars
    BY <2>5 DEF mbcVars, boardVars
  <2> QED BY <2>2, <2>3, <2>4, <2>5
<1>2. ASSUME NEW p \in All
      PROVE  InPrinter(p)' + InPr(p)' + InIo(p)' + InPer(p)' + InWriter(p)' + InRead(p)'
               + InWrite(p)'
               = InPrinter(p) + InPr(p) + InIo(p) + InPer(p) + InWriter(p) + InRead(p)
                   + InWrite(p)
  <2>1. /\ InPrinter(p)' = InPrinter(p) /\ InPr(p)' = InPr(p) /\ InIo(p)' = InIo(p)
        /\ InPer(p)' = InPer(p) /\ InWriter(p)' = InWriter(p) /\ InRead(p)' = InRead(p)
        /\ InWrite(p)' = InWrite(p)
    BY <1>1, SameCounts
  <2> QED BY <2>1
<1> QED BY <1>1, <1>2, OutsideAccounts

LEMMA AnewAccounts ==
    Anew => AInv
<1> SUFFICES ASSUME Anew PROVE AInv
  OBVIOUS
<1>1. /\ mbcload \in MbcLoads
      /\ mbc = [at |-> "selftest", ret |-> "", pkt |-> 0, cmd |-> "", i |-> 0, flagged |-> TRUE]
      /\ mess = [list |-> <<>>, inqueue |-> 0, mail |-> TRUE, intr |-> 0]
      /\ pools = [read |-> <<>>, write |-> <<>>, iogp |-> <<0>>]
      /\ blocks = [read |-> 0, write |-> 0]
      /\ per = [due |-> FALSE, pkt |-> 0]
      /\ pr = [vld |-> FALSE, clrrsp |-> TRUE, pkt |-> 0, what |-> ""]
      /\ io = [vld |-> FALSE, clrreq |-> FALSE, pkt |-> 0, cmd |-> "", idle |-> TRUE]
      /\ printer = {} /\ writer = [given |-> 0, done |-> 0, pkt |-> 0]
  BY DEF Anew, Restarted, NoPacket, Temporary
<1>2. R \in Nat /\ R >= 2 /\ W \in Nat /\ All \subseteq Nat /\ 0 \in All /\ Len(<<>>) = 0
  BY <1>1, SetFacts, LayoutFacts
<1>3. ASSUME NEW p \in All PROVE Sum(p) = IF Owed(p) THEN 1 ELSE 0
  <2>1. /\ InPr(p) = 0 /\ InIo(p) = 0 /\ InPer(p) = 0 /\ InWriter(p) = 0 /\ InMbc(p) = 0
    BY <1>1 DEF InPr, InIo, InPer, InWriter, InterruptsOn, NoPacket, InMbc, Hands
  <2>2. InRead(p) = 0 /\ InWrite(p) = 0 /\ InList(p) = 0
    BY <1>1, HitsEmpty DEF InRead, InWrite, InList
  <2>3. InPrinter(p) = 0
    <3>1. {m \in printer : m[1] = p} = {}
      BY <1>1
    <3> QED BY <3>1, FS_EmptySet DEF InPrinter
  <2>4. InIogp(p) = Is(0, p)
    <3>1. Cardinality(Hits(<<0>>, {p})) = Is(0, p)
      BY <1>2, OneCounts
    <3> QED BY <1>1, <3>1 DEF InIogp
  <2>5. Sum(p) = Is(0, p)
    BY <2>1, <2>2, <2>3, <2>4 DEF Sum, Is
  <2>6. Owed(p) <=> p = 0
    <3>1. mbc.i = 0 /\ p \in Nat /\ 0 <= R + W
      <4>1. mbc.i = 0
        BY <1>1
      <4>2. p \in Nat
        BY <1>2
      <4>3. 0 <= R + W
        BY <1>2
      <4> QED BY <4>1, <4>2, <4>3
    <3>2. CASE p = 0
      BY <3>1, <3>2 DEF Owed
    <3>3. CASE p # 0
      <4>1. ~ (p <= 0)
        BY <3>1, <3>3
      <4> QED BY <3>1, <3>3, <4>1 DEF Owed
    <3> QED BY <3>2, <3>3
  <2> QED BY <2>5, <2>6 DEF Is
<1>4. Place = "selftest" /\ mbc.i = 0 /\ mbc.at = "selftest"
  BY <1>1 DEF Place, Hands
<1>5. NegotiationInv
  BY <1>1, <1>4 DEF NegotiationInv
<1>6. BalanceInv
  <2>1. blocks.write = 0 /\ mbc.i = 0
    BY <1>1
  <2>2. ~ (mbc.i > R)
    BY <1>2, <2>1
  <2>3. Place \notin {"online", "write"}
    BY <1>4
  <2> QED BY <2>1, <2>2, <2>3 DEF BalanceInv
<1>7. StatusInv /\ Goes
  BY <1>1 DEF StatusInv, Goes
<1> QED BY <1>3, <1>5, <1>6, <1>7 DEF AInv, Accounted

LEMMA rebootAccounts ==
    MInv /\ reboot => AInv'
<1>1. MInv /\ reboot => Anew'
  BY DEF reboot, Anew, MInv, Typed
<1>2. Anew' => AInv'
  BY AnewAccounts, PTL
<1> QED BY <1>1, <1>2

LEMMA MbcAccounts ==
    ASSUME MInv, MInv', AInv, [MbcNext]_mbcVars, mbc'.at # "hung"
    PROVE  AInv'
<1>1. CASE MbcNext
  BY <1>1, MbcProcessAccounts, ReadMailAccounts, deliverDueAccounts, rebootAccounts,
     WritePrnAccounts, DeliverPacketAccounts, takeAccounts, postAccounts, RestAccounts
     DEF MbcNext
<1>2. CASE UNCHANGED mbcVars
  BY <1>2, RestAccounts
<1> QED BY <1>1, <1>2

(* With its list full the board hangs until the printer resets it. *)
LEMMA HungStays ==
    ASSUME MInv, MInv', [MbcNext]_mbcVars, mbc.at = "hung"
    PROVE  mbc'.at = "hung" \/ AInv'
<1>1. mbc \in Boards
  BY StageFacts
<1>2. ~ MbcProcess
  BY DEF MbcProcess, deliverTest, deliverNow, negotiate, build, built, mailInStart, ProcessMail,
         mbcWait, mbcMail, mbcOnline, mbcWrite
<1>3. CASE ReadMail
  BY <1>1, <1>3 DEF ReadMail, GotoMbc, Boards
<1>4. CASE reboot
  BY <1>4, rebootAccounts
<1>5. CASE \/ deliverDue \/ backend_write \/ WritePrn \/ DeliverPacket \/ acknowledge \/ take
           \/ reset \/ UNCHANGED mbcVars
  BY <1>5 DEF deliverDue, backend_write, WritePrn, DeliverPacket, acknowledge, take, reset,
              mbcVars, boardVars
<1>6. ASSUME NEW mail \in printer, post(mail[1], mail[2]) PROVE mbc' = mbc
  BY <1>6 DEF post, boardVars
<1> QED BY <1>2, <1>3, <1>4, <1>5, <1>6 DEF MbcNext

LEMMA AccountsHold ==
    MInv /\ AInv => MailAccounted
<1> SUFFICES ASSUME MInv, AInv PROVE MailAccounted
  OBVIOUS
<1>1. ASSUME NEW p \in (IF mbc.i = 0 THEN {Temporary} ELSE 1 .. mbc.i) PROVE Copies(p) = 1
  <2>1. mbc.i \in Nat /\ mbc.i <= N /\ R \in Nat /\ W \in Nat /\ N \in Nat
    <3>1. mbc.i \in All /\ mbc.i \in Nat
      BY StageFacts
    <3> QED BY <3>1, StageFacts DEF All
  <2>2. p \in All /\ Owed(p)
    <3>1. CASE mbc.i = 0
      <4>1. p = 0
        BY <3>1 DEF Temporary
      <4> QED BY <2>1, <3>1, <4>1 DEF All, Owed
    <3>2. CASE mbc.i # 0
      <4>1. p \in 1 .. mbc.i
        BY <3>2
      <4> QED BY <2>1, <4>1 DEF All, Owed
    <3> QED BY <3>1, <3>2
  <2>3. Sum(p) = 1
    BY <2>2, AStateFacts DEF Accounted
  <2> QED BY <2>2, <2>3, SumIsCopies
<1>2. blocks.read = Len(pools.read) /\ blocks.write = Len(pools.write)
      /\ mess.inqueue = Len(mess.list)
  BY PoolFacts, AStateFacts
<1>3. mbc.i > 0 => mess.mail = (mess.inqueue > 0)
  <2>1. mbc.i > 0 => ~ First
    <3>1. mbc.i \in Nat
      BY StageFacts
    <3>2. mbc.i > 0 => mbc.i # 0
      BY <3>1
    <3> QED BY <3>2 DEF First
  <2>2. mbc.at # "hung" /\ mess.mail \in BOOLEAN
    BY AStateFacts, StageFacts DEF Goes, Lists
  <2>3. (mess.inqueue > 0 => mess.mail) /\ (mess.mail /\ ~ First /\ mbc.at # "hung" => mess.inqueue > 0)
    BY DEF MInv, ListInv
  <2> DEFINE some == mess.inqueue > 0
             later == mbc.i > 0
  <2> HIDE DEF some, later
  <2>4. later => (mess.mail <=> some)
    BY <2>1, <2>2, <2>3, Zenon DEF some, later
  <2>5. later => mess.mail = some
    <3>1. some \in BOOLEAN
      <4>1. mess.inqueue \in Int /\ 0 \in Int
        BY AStateFacts
      <4> QED BY <4>1 DEF some
    <3> QED BY <2>2, <2>4, <3>1, Zenon
  <2> QED BY <2>5, Zenon DEF some, later
<1>4. mbc.at = "wait" /\ mess.intr = 0 => mess.list = <<>> /\ blocks.write = 0
  <2> SUFFICES ASSUME mbc.at = "wait", mess.intr = 0 PROVE mess.list = <<>> /\ blocks.write = 0
    OBVIOUS
  <2>1. Place = "wait" /\ Busy = 0 /\ InProcess = 0
    BY DEF Place, Hands, Busy, InProcess
  <2>2. mbc.i > R
    BY <2>1, StageFacts DEF MInv, StageInv
  <2>3. Len(mess.list) + blocks.write + 0 <= 0 + 0
    BY <2>1, <2>2, AStateFacts DEF BalanceInv
  <2>4. Len(mess.list) = 0 /\ blocks.write = 0
    <3>1. Len(mess.list) \in Nat /\ blocks.write \in Nat
      BY AStateFacts
    <3> QED BY <2>3, <3>1
  <2> QED BY <2>4, AStateFacts, EmptySeq
<1>5. mbc.at # "hung"
  BY AStateFacts DEF Goes
<1>6. \A p \in Packets : Layout.data_end[p] <= MAX_SHARE_MEM
  BY LayoutFacts, StageFacts
<1> QED BY <1>1, <1>2, <1>3, <1>4, <1>5, <1>6 DEF MailAccounted

-----------------------------------------------------------------------------

(* Where no interrupt comes between the two halves of DeliverPacket: as long    *)
(* as the list is not full, every packet negotiated is in one place, the counts *)
(* agree with the lists, nothing is left to be done when MBC waits, and the     *)
(* packets lie in shared memory, for every size of the memory and of the list   *)
(* and every negotiation; and again after a reset (mbc_misc.c:94-115,           *)
(* mbc_rmail.c:70-226, mbc_pmail.c:94-163, mbc_main.c:107-162,                  *)
(* mbc_start.c:228-384).                                                        *)
THEOREM MailIsAccounted ==
    ASSUME Quiet
    PROVE  MbcSpec => [](mbc.at # "hung" => MailAccounted)
<1> DEFINE HInv == mbc.at # "hung" => AInv
<1>1. MbcInit => MInv /\ HInv
  <2>1. MbcInit => Anew
    BY DEF MbcInit, Anew
  <2> QED BY <2>1, AnewKeeps, AnewAccounts
<1>2. MInv /\ HInv /\ [MbcNext]_mbcVars => (MInv /\ HInv)'
  <2> SUFFICES ASSUME MInv, HInv, [MbcNext]_mbcVars PROVE (MInv /\ HInv)'
    OBVIOUS
  <2>1. MInv'
    BY MbcKeeps
  <2>2. CASE mbc.at # "hung"
    BY <2>1, <2>2, MbcAccounts
  <2>3. CASE mbc.at = "hung"
    BY <2>1, <2>3, HungStays
  <2> QED BY <2>1, <2>2, <2>3
<1>3. MInv /\ HInv => (mbc.at # "hung" => MailAccounted)
  BY AccountsHold
<1> QED BY <1>1, <1>2, <1>3, PTL DEF MbcSpec
===============================================================================
