---------------------------- MODULE KernelProofs ----------------------------
(* The inductive invariant of Kernel and the theorems that follow from it, for *)
(* every number of processes and semaphores and every workload; first, lemmas  *)
(* about the lists of processes and the scheduler: what each operator on the   *)
(* Sched record keeps.                                                         *)
EXTENDS Kernel, TLAPS, SequenceTheorems, FiniteSetTheorems, WellFoundedInduction


-----------------------------------------------------------------------------
(* A nonempty set of natural numbers has a least element. *)
LEMMA LeastElement ==
    ASSUME NEW T \in SUBSET Nat, T # {}
    PROVE  \E m \in T : \A k \in T : m <= k
<1> DEFINE R == OpToRel(<, Nat)
<1>1. IsWellFoundedOn(R, Nat)
  BY NatLessThanWellFounded
<1>2. \A x, y \in Nat : y < x => <<y, x>> \in R
  BY DEF OpToRel
<1> HIDE DEF R
<1>3. PICK m \in T : \A k \in T : ~ (<<k, m>> \in R)
  BY <1>1, WFMin
<1>4. ASSUME NEW k \in T PROVE m <= k
  <2>1. ~ (k < m)
    BY <1>2, <1>3
  <2> QED BY <2>1
<1> QED BY <1>4

-----------------------------------------------------------------------------
(* Lists of processes *)

SortedBy(l, key) == \A i, j \in 1 .. Len(l) : i < j => key[l[i]] <= key[l[j]]

(* m is l with e put in at place i. *)
Inserted(m, l, i, e) ==
    /\ m \in Seq(Pid)
    /\ Len(m) = Len(l) + 1
    /\ \A j \in 1 .. Len(l) + 1 :
          m[j] = IF j < i THEN l[j] ELSE IF j = i THEN e ELSE l[j - 1]

(* InsertAt and RemoveAt of the community modules, element by element. *)
LEMMA InsertAtElements ==
    ASSUME NEW l \in Seq(Pid), NEW i \in 1 .. Len(l) + 1, NEW e \in Pid
    PROVE  Inserted(InsertAt(l, i, e), l, i, e)
<1> DEFINE a == SubSeq(l, 1, i - 1)
           b == SubSeq(l, i, Len(l))
<1>1. /\ a \in Seq(Pid)
      /\ Len(a) = i - 1
      /\ \A j \in 1 .. i - 1 : a[j] = l[j]
  BY SubSeqProperties
<1>2. /\ b \in Seq(Pid)
      /\ Len(b) = Len(l) - i + 1
      /\ \A j \in 1 .. Len(l) - i + 1 : b[j] = l[i + j - 1]
  BY SubSeqProperties
<1>3. /\ <<e>> \in Seq(Pid)
      /\ Len(<<e>>) = 1
      /\ <<e>>[1] = e
  OBVIOUS
<1> HIDE DEF a, b
<1>4. /\ a \o <<e>> \in Seq(Pid)
      /\ Len(a \o <<e>>) = i
      /\ \A j \in 1 .. i : (a \o <<e>>)[j] = IF j < i THEN l[j] ELSE e
  BY <1>1, <1>3, ConcatProperties
<1> DEFINE c == a \o <<e>>
<1> HIDE DEF c
<1>5. /\ c \o b \in Seq(Pid)
      /\ Len(c \o b) = Len(c) + Len(b)
      /\ \A j \in 1 .. Len(c) + Len(b) :
            (c \o b)[j] = IF j <= Len(c) THEN c[j] ELSE b[j - Len(c)]
  <2>1. c \in Seq(Pid) /\ b \in Seq(Pid)
    BY <1>2, <1>4 DEF c
  <2> QED BY <2>1, ConcatProperties
<1>6. InsertAt(l, i, e) = c \o b
  BY DEF InsertAt, a, b, c
<1>7. Len(c) = i /\ Len(c) + Len(b) = Len(l) + 1
  <2>1. Len(c) = i
    BY <1>4 DEF c
  <2> QED BY <2>1, <1>2
<1>8. ASSUME NEW j \in 1 .. Len(l) + 1
      PROVE  (c \o b)[j] = IF j < i THEN l[j] ELSE IF j = i THEN e ELSE l[j - 1]
  <2>1. CASE j <= i
    BY <2>1, <1>4, <1>5, <1>7 DEF c
  <2>2. CASE j > i
    <3>1. j - i \in 1 .. Len(l) - i + 1 /\ i + (j - i) - 1 = j - 1
      BY <2>2
    <3>2. ~ (j < i) /\ j # i
      BY <2>2
    <3>3. b[j - i] = l[j - 1]
      BY <3>1, <1>2
    <3>4. (c \o b)[j] = b[j - i]
      BY <2>2, <1>5, <1>7
    <3> QED BY <3>2, <3>3, <3>4
  <2>3. j <= i \/ j > i
    OBVIOUS
  <2> QED BY <2>1, <2>2, <2>3
<1> QED BY <1>5, <1>6, <1>7, <1>8 DEF Inserted

LEMMA RemoveAtElements ==
    ASSUME NEW l \in Seq(Pid), NEW i \in 1 .. Len(l)
    PROVE  /\ RemoveAt(l, i) \in Seq(Pid)
           /\ Len(RemoveAt(l, i)) = Len(l) - 1
           /\ \A j \in 1 .. Len(l) - 1 :
                 RemoveAt(l, i)[j] = IF j < i THEN l[j] ELSE l[j + 1]
<1> DEFINE a == SubSeq(l, 1, i - 1)
           b == SubSeq(l, i + 1, Len(l))
<1>1. /\ a \in Seq(Pid)
      /\ Len(a) = i - 1
      /\ \A j \in 1 .. i - 1 : a[j] = l[j]
  BY SubSeqProperties
<1>2. /\ b \in Seq(Pid)
      /\ Len(b) = Len(l) - i
      /\ \A j \in 1 .. Len(l) - i : b[j] = l[i + j]
  BY SubSeqProperties
<1> HIDE DEF a, b
<1>3. /\ a \o b \in Seq(Pid)
      /\ Len(a \o b) = Len(a) + Len(b)
      /\ \A j \in 1 .. Len(a) + Len(b) :
            (a \o b)[j] = IF j <= Len(a) THEN a[j] ELSE b[j - Len(a)]
  <2>1. a \in Seq(Pid) /\ b \in Seq(Pid)
    BY <1>1, <1>2
  <2> QED BY <2>1, ConcatProperties
<1>4. RemoveAt(l, i) = a \o b
  BY DEF RemoveAt, a, b
<1>5. Len(a) + Len(b) = Len(l) - 1
  BY <1>1, <1>2
<1>6. ASSUME NEW j \in 1 .. Len(l) - 1
      PROVE  (a \o b)[j] = IF j < i THEN l[j] ELSE l[j + 1]
  <2>1. CASE j < i
    BY <2>1, <1>1, <1>3, <1>5
  <2>2. CASE j >= i
    <3>1. j - (i - 1) \in 1 .. Len(l) - i /\ i + (j - (i - 1)) = j + 1
      BY <2>2
    <3>2. ~ (j < i)
      BY <2>2
    <3>3. b[j - (i - 1)] = l[j + 1]
      BY <3>1, <1>2
    <3>4. (a \o b)[j] = b[j - (i - 1)]
      BY <2>2, <1>1, <1>3, <1>5
    <3> QED BY <3>2, <3>3, <3>4
  <2>3. j < i \/ j >= i
    OBVIOUS
  <2> QED BY <2>1, <2>2, <2>3
<1> QED BY <1>3, <1>4, <1>5, <1>6

(* dequeue takes exactly p off the list and keeps the order of the others. *)
LEMMA DequeueFacts ==
    ASSUME NEW l \in Seq(Pid), NoDup(l), NEW p \in Pid
    PROVE  /\ dequeue(l, p) \in Seq(Pid)
           /\ NoDup(dequeue(l, p))
           /\ \A q \in Pid : OnList(dequeue(l, p), q) <=> OnList(l, q) /\ q # p
           /\ \A key \in [Pid -> Int] : SortedBy(l, key) => SortedBy(dequeue(l, p), key)
           /\ OnList(l, p) => Len(dequeue(l, p)) = Len(l) - 1
<1>1. CASE ~ OnList(l, p)
  BY <1>1 DEF dequeue, OnList
<1>2. CASE OnList(l, p)
  <2> DEFINE i == IndexOf(l, p)
             m == RemoveAt(l, i)
  <2>1. i \in 1 .. Len(l) /\ l[i] = p
    BY <1>2 DEF OnList, IndexOf
  <2>2. dequeue(l, p) = m
    BY <1>2 DEF dequeue
  <2>3. /\ m \in Seq(Pid)
        /\ Len(m) = Len(l) - 1
        /\ \A j \in 1 .. Len(l) - 1 : m[j] = IF j < i THEN l[j] ELSE l[j + 1]
    BY <2>1, RemoveAtElements
  <2> HIDE DEF i, m
  <2>4. NoDup(m)
    BY <2>1, <2>3 DEF NoDup
  <2>5. ASSUME NEW q \in Pid PROVE OnList(m, q) <=> OnList(l, q) /\ q # p
    <3>1. ASSUME OnList(m, q) PROVE OnList(l, q) /\ q # p
      <4>1. PICK j \in 1 .. Len(m) : m[j] = q
        BY <3>1 DEF OnList
      <4>2. CASE j < i
        BY <4>1, <4>2, <2>1, <2>3 DEF OnList, NoDup
      <4>3. CASE ~ (j < i)
        BY <4>1, <4>3, <2>1, <2>3 DEF OnList, NoDup
      <4> QED BY <4>2, <4>3
    <3>2. ASSUME OnList(l, q), q # p PROVE OnList(m, q)
      <4>1. PICK j \in 1 .. Len(l) : l[j] = q
        BY <3>2 DEF OnList
      <4>2. j # i
        BY <4>1, <3>2, <2>1
      <4>3. CASE j < i
        <5>1. j \in 1 .. Len(m) /\ m[j] = q
          BY <4>1, <4>3, <2>1, <2>3
        <5> QED BY <5>1 DEF OnList
      <4>4. CASE j > i
        <5>1. j - 1 \in 1 .. Len(m) /\ m[j - 1] = q
          BY <4>1, <4>4, <2>1, <2>3
        <5> QED BY <5>1 DEF OnList
      <4> QED BY <4>2, <4>3, <4>4, <2>1
    <3> QED BY <3>1, <3>2
  <2>6. ASSUME NEW key \in [Pid -> Int], SortedBy(l, key) PROVE SortedBy(m, key)
    <3>1. SUFFICES ASSUME NEW j \in 1 .. Len(m), NEW k \in 1 .. Len(m), j < k
                   PROVE  key[m[j]] <= key[m[k]]
      BY DEF SortedBy
    <3> DEFINE jj == IF j < i THEN j ELSE j + 1
               kk == IF k < i THEN k ELSE k + 1
    <3>2. jj \in 1 .. Len(l) /\ kk \in 1 .. Len(l) /\ jj < kk
      BY SMTT(30), <3>1, <2>1, <2>3
    <3>3. m[j] = l[jj] /\ m[k] = l[kk]
      BY <2>1, <2>3
    <3> QED BY <3>2, <3>3, <2>6 DEF SortedBy
  <2> QED BY <1>2, <2>2, <2>3, <2>4, <2>5, <2>6
<1> QED BY <1>1, <1>2

(* Linking p, which is not listed, at any position adds exactly p. *)
LEMMA LinkFacts ==
    ASSUME NEW l \in Seq(Pid), NoDup(l), NEW p \in Pid, ~ OnList(l, p),
           NEW i \in 1 .. Len(l) + 1
    PROVE  /\ InsertAt(l, i, p) \in Seq(Pid)
           /\ Len(InsertAt(l, i, p)) = Len(l) + 1
           /\ NoDup(InsertAt(l, i, p))
           /\ InsertAt(l, i, p)[1] = IF i = 1 THEN p ELSE l[1]
           /\ \A q \in Pid : OnList(InsertAt(l, i, p), q) <=> OnList(l, q) \/ q = p
<1>1. Inserted(InsertAt(l, i, p), l, i, p)
  BY InsertAtElements
<1> DEFINE m == InsertAt(l, i, p)
<1>2. /\ m \in Seq(Pid)
      /\ Len(m) = Len(l) + 1
      /\ \A j \in 1 .. Len(l) + 1 :
            m[j] = IF j < i THEN l[j] ELSE IF j = i THEN p ELSE l[j - 1]
  BY <1>1 DEF Inserted
<1> HIDE DEF m
<1>3. NoDup(m)
  <2>1. SUFFICES ASSUME NEW j \in 1 .. Len(m), NEW k \in 1 .. Len(m), j < k
                 PROVE  m[j] # m[k]
    BY <1>2 DEF NoDup
  <2>2. \A x \in 1 .. Len(l) : l[x] # p
    BY DEF OnList
  <2>3. \A x, y \in 1 .. Len(l) : x # y => l[x] # l[y]
    BY DEF NoDup
  <2>4. CASE j = i
    <3>1. m[j] = p /\ m[k] = l[k - 1] /\ k - 1 \in 1 .. Len(l)
      BY <2>4, <2>1, <1>2
    <3> QED BY <3>1, <2>2
  <2>5. CASE k = i
    <3>1. m[k] = p /\ m[j] = l[j] /\ j \in 1 .. Len(l)
      BY <2>5, <2>1, <1>2
    <3> QED BY <3>1, <2>2
  <2>6. CASE j # i /\ k # i
    <3> DEFINE jj == IF j < i THEN j ELSE j - 1
               kk == IF k < i THEN k ELSE k - 1
    <3>1. jj \in 1 .. Len(l) /\ kk \in 1 .. Len(l) /\ jj # kk
      BY <2>6, <2>1, <1>2
    <3>2. m[j] = l[jj] /\ m[k] = l[kk]
      BY <2>6, <1>2
    <3> QED BY <3>1, <3>2, <2>3
  <2> QED BY <2>4, <2>5, <2>6
<1>4. ASSUME NEW q \in Pid PROVE OnList(m, q) <=> OnList(l, q) \/ q = p
  <2>1. ASSUME OnList(m, q), q # p PROVE OnList(l, q)
    <3>1. PICK j \in 1 .. Len(m) : m[j] = q
      BY <2>1 DEF OnList
    <3> DEFINE jj == IF j < i THEN j ELSE j - 1
    <3>2. j # i
      BY <3>1, <2>1, <1>2
    <3>3. jj \in 1 .. Len(l) /\ l[jj] = q
      BY <3>1, <3>2, <1>2
    <3> QED BY <3>3 DEF OnList
  <2>2. ASSUME OnList(l, q) PROVE OnList(m, q)
    <3>1. PICK j \in 1 .. Len(l) : l[j] = q
      BY <2>2 DEF OnList
    <3>2. CASE j < i
      <4>1. j \in 1 .. Len(m) /\ m[j] = q
        BY <3>1, <3>2, <1>2
      <4> QED BY <4>1 DEF OnList
    <3>3. CASE j >= i
      <4>1. j + 1 \in 1 .. Len(m) /\ m[j + 1] = q
        BY <3>1, <3>3, <1>2
      <4> QED BY <4>1 DEF OnList
    <3> QED BY <3>2, <3>3
  <2>3. OnList(m, p)
    BY <1>2 DEF OnList
  <2> QED BY <2>1, <2>2, <2>3
<1>5. m[1] = IF i = 1 THEN p ELSE l[1]
  <2>1. 1 \in 1 .. Len(l) + 1 /\ (i = 1 \/ 1 < i)
    OBVIOUS
  <2> QED BY <1>2, <2>1
<1> QED BY <1>2, <1>3, <1>4, <1>5 DEF m

(* The place insert.c finds: behind all smaller keys, before the others. *)
LEMMA InsertPosFacts ==
    ASSUME NEW l \in Seq(Pid), NEW key \in [Pid -> Int], NEW k \in Int
    PROVE  /\ InsertPos(l, key, k) \in 1 .. Len(l) + 1
           /\ \A j \in 1 .. InsertPos(l, key, k) - 1 : key[l[j]] < k
           /\ InsertPos(l, key, k) <= Len(l) => key[l[InsertPos(l, key, k)]] >= k
<1> DEFINE T == {i \in 1 .. Len(l) + 1 : i <= Len(l) => key[l[i]] >= k}
<1>1. T \in SUBSET Nat /\ Len(l) + 1 \in T
  OBVIOUS
<1>2. PICK m \in T : \A i \in T : m <= i
  <2>1. T # {}
    BY <1>1
  <2> HIDE DEF T
  <2> QED BY <1>1, <2>1, LeastElement
<1>3. ASSUME NEW j \in 1 .. m - 1 PROVE key[l[j]] < k
  <2>1. j \in 1 .. Len(l) /\ m \in 1 .. Len(l) + 1 /\ j < m
    BY <1>2
  <2>2. j \notin T
    BY <1>2, <2>1
  <2>3. l[j] \in Pid
    BY <2>1
  <2> QED BY <2>1, <2>2, <2>3
<1>4. /\ m \in 1 .. Len(l) + 1
      /\ \A j \in 1 .. m - 1 : key[l[j]] < k
      /\ m <= Len(l) => key[l[m]] >= k
  BY <1>2, <1>3
<1> QED BY <1>4 DEF InsertPos

(* Linking p there under the key k keeps the list sorted. *)
LEMMA InsertSorted ==
    ASSUME NEW l \in Seq(Pid), NEW key \in [Pid -> Int], NEW k \in Int,
           NEW p \in Pid, ~ OnList(l, p), SortedBy(l, key)
    PROVE  SortedBy(InsertAt(l, InsertPos(l, key, k), p), [key EXCEPT ![p] = k])
<1> DEFINE i == InsertPos(l, key, k)
           m == InsertAt(l, i, p)
           key2 == [key EXCEPT ![p] = k]
<1>1. /\ i \in 1 .. Len(l) + 1
      /\ \A j \in 1 .. i - 1 : key[l[j]] < k
      /\ i <= Len(l) => key[l[i]] >= k
  BY InsertPosFacts
<1> HIDE DEF i
<1>2. /\ m \in Seq(Pid)
      /\ Len(m) = Len(l) + 1
      /\ \A j \in 1 .. Len(l) + 1 :
            m[j] = IF j < i THEN l[j] ELSE IF j = i THEN p ELSE l[j - 1]
  BY <1>1, InsertAtElements DEF Inserted
<1>3. \A j \in 1 .. Len(l) : l[j] \in Pid /\ l[j] # p /\ key2[l[j]] = key[l[j]]
  BY DEF OnList
<1>4. key2[p] = k
  OBVIOUS
<1>5. \A j \in 1 .. Len(l) : j < i => key[l[j]] < k
  BY <1>1
<1>6. \A j \in 1 .. Len(l) : j >= i => key[l[j]] >= k
  <2>1. SUFFICES ASSUME NEW j \in 1 .. Len(l), j >= i PROVE key[l[j]] >= k
    OBVIOUS
  <2>2. i \in 1 .. Len(l) /\ key[l[i]] >= k
    BY <2>1, <1>1
  <2>3. key[l[i]] <= key[l[j]]
    <3>1. CASE i = j
      BY <3>1, <1>3
    <3>2. CASE i < j
      BY <3>2, <2>2 DEF SortedBy
    <3> QED BY <3>1, <3>2, <2>1, <2>2
  <2> QED BY <2>2, <2>3, <1>3
<1> HIDE DEF m, key2
<1>7. SUFFICES ASSUME NEW x \in 1 .. Len(m), NEW y \in 1 .. Len(m), x < y
               PROVE  key2[m[x]] <= key2[m[y]]
  BY DEF SortedBy, m, i, key2
<1>8. CASE x < i /\ y < i
  <2>1. x \in 1 .. Len(l) + 1 /\ y \in 1 .. Len(l) + 1
    BY <1>2
  <2>2. /\ x \in 1 .. Len(l) /\ y \in 1 .. Len(l)
        /\ m[x] = l[x] /\ m[y] = l[y]
    BY SMTT(30), <1>1, <1>2, <1>8, <2>1
  <2>3. key[l[x]] <= key[l[y]]
    BY <2>2, <1>7 DEF SortedBy
  <2> QED BY <2>2, <2>3, <1>3
<1>9. CASE x < i /\ y = i
  <2>1. x \in 1 .. Len(l) /\ m[x] = l[x] /\ m[y] = p
    BY <1>1, <1>2, <1>7, <1>9
  <2> QED BY <2>1, <1>3, <1>4, <1>5, <1>9
<1>10. CASE x < i /\ y > i
  <2>1. /\ x \in 1 .. Len(l) /\ y - 1 \in 1 .. Len(l) /\ x < y - 1
        /\ m[x] = l[x] /\ m[y] = l[y - 1]
    BY <1>1, <1>2, <1>7, <1>10
  <2>2. key[l[x]] <= key[l[y - 1]]
    BY <2>1 DEF SortedBy
  <2> QED BY <2>1, <2>2, <1>3
<1>11. CASE x = i
  <2>1. y - 1 \in 1 .. Len(l) /\ y - 1 >= i /\ m[x] = p /\ m[y] = l[y - 1]
    BY <1>1, <1>2, <1>7, <1>11
  <2> QED BY <2>1, <1>3, <1>4, <1>6
<1>12. CASE x > i
  <2>1. /\ x - 1 \in 1 .. Len(l) /\ y - 1 \in 1 .. Len(l) /\ x - 1 < y - 1
        /\ m[x] = l[x - 1] /\ m[y] = l[y - 1]
    BY <1>1, <1>2, <1>7, <1>12
  <2>2. key[l[x - 1]] <= key[l[y - 1]]
    BY <2>1 DEF SortedBy
  <2> QED BY <2>1, <2>2, <1>3
<1>13. (x < i \/ x = i \/ x > i) /\ (y < i \/ y = i \/ y > i)
  BY <1>1, <1>2
<1> QED BY <1>8, <1>9, <1>10, <1>11, <1>12, <1>13

-----------------------------------------------------------------------------
(* The scheduler *)

Eligible == {"PRREADY", "PRCURR"}

SchedType == [pstate : [Pid -> States], pprio : [Pid -> Int], rdy : Seq(Pid),
              qkey : [Pid -> Int], currpid : Pid, preempt : Int,
              clockq : Seq(Pid), slnempty : BOOLEAN, sltop : Pid \cup {EMPTY}]

(* The ready list is sorted by priority and holds the ready processes, x left *)
(* out; x is BADPID when the list is complete.                                *)
ReadyListBut(s, x) ==
    /\ NoDup(s.rdy)
    /\ SortedBy(s.rdy, s.qkey)
    /\ \A q \in Pid : OnList(s.rdy, q) <=> q # x /\ s.pstate[q] = "PRREADY"
    /\ \A q \in Pid : q # x /\ s.pstate[q] = "PRREADY" => s.qkey[q] = s.pprio[q]

OneCurrent(s) == \A p \in Pid : s.pstate[p] = "PRCURR" => p = s.currpid
NullEligible(s) == s.pstate[NULLPROC] \in Eligible

SchedGood(s) == /\ s \in SchedType
                /\ ReadyListBut(s, BADPID)
                /\ OneCurrent(s)
                /\ NullEligible(s)

Highest(s) == \A p \in Pid : s.pstate[p] = "PRREADY" => s.pprio[p] <= s.pprio[s.currpid]

(* What s and t have in common when only the ready list may differ *)
SameClock(s, t) == /\ t.pprio = s.pprio
                   /\ t.clockq = s.clockq
                   /\ t.slnempty = s.slnempty
                   /\ t.sltop = s.sltop

LEMMA NullIsPid == NULLPROC \in Pid /\ BADPID \notin Pid
  BY KernelAssumption DEF Pid, NULLPROC, BADPID

(* insert() completes a list that lacks one ready process. *)
LEMMA InsertGood ==
    ASSUME NEW s \in SchedType, NEW p \in Pid, ReadyListBut(s, p),
           s.pstate[p] = "PRREADY"
    PROVE  /\ insert(s, p) \in SchedType
           /\ ReadyListBut(insert(s, p), BADPID)
           /\ insert(s, p).rdy # <<>>
           /\ insert(s, p).pstate = s.pstate
           /\ insert(s, p).currpid = s.currpid
           /\ insert(s, p).preempt = s.preempt
           /\ SameClock(s, insert(s, p))
<1> DEFINE i == InsertPos(s.rdy, s.qkey, s.pprio[p])
           m == InsertAt(s.rdy, i, p)
           key2 == [s.qkey EXCEPT ![p] = s.pprio[p]]
           t == insert(s, p)
<1>1. /\ s.rdy \in Seq(Pid) /\ s.qkey \in [Pid -> Int] /\ s.pprio \in [Pid -> Int]
      /\ s.pprio[p] \in Int
  BY DEF SchedType
<1>2. NoDup(s.rdy) /\ ~ OnList(s.rdy, p) /\ SortedBy(s.rdy, s.qkey)
  BY DEF ReadyListBut
<1>3. i \in 1 .. Len(s.rdy) + 1
  BY <1>1, InsertPosFacts
<1>4. SortedBy(m, key2)
  BY <1>1, <1>2, InsertSorted
<1> HIDE DEF i
<1>5. /\ m \in Seq(Pid)
      /\ Len(m) = Len(s.rdy) + 1
      /\ NoDup(m)
      /\ \A q \in Pid : OnList(m, q) <=> OnList(s.rdy, q) \/ q = p
  BY <1>1, <1>2, <1>3, LinkFacts
<1>6. /\ t.rdy = m /\ t.qkey = key2 /\ t.pstate = s.pstate
      /\ t.currpid = s.currpid /\ t.preempt = s.preempt
      /\ SameClock(s, t)
  BY DEF insert, SchedType, SameClock, i
<1>7. t = [s EXCEPT !.rdy = m, !.qkey = key2]
  BY DEF insert, i
<1>8. key2 \in [Pid -> Int]
  BY <1>1
<1> HIDE DEF m, key2, t
<1>9. t \in SchedType
  BY <1>5, <1>7, <1>8 DEF SchedType
<1>10. m # <<>>
  BY <1>5, <1>1
<1>11. \A q \in Pid : OnList(m, q) <=> q # BADPID /\ s.pstate[q] = "PRREADY"
  BY <1>5, NullIsPid DEF ReadyListBut
<1>12. \A q \in Pid : s.pstate[q] = "PRREADY" => key2[q] = s.pprio[q]
  BY <1>1 DEF ReadyListBut, key2
<1>13. ReadyListBut(t, BADPID)
  BY <1>4, <1>5, <1>6, <1>11, <1>12 DEF ReadyListBut, SameClock
<1> QED BY <1>6, <1>9, <1>10, <1>13 DEF t

(* Marking a process that is on no list, or taking one off the ready list. *)
LEMMA MarkedBut ==
    ASSUME NEW s \in SchedType, ReadyListBut(s, BADPID), NEW p \in Pid, NEW st \in States,
           s.pstate[p] # "PRREADY"
    PROVE  LET t == [s EXCEPT !.pstate = [@ EXCEPT ![p] = st]]
           IN  t \in SchedType /\ ReadyListBut(t, p)
<1> DEFINE f == [s.pstate EXCEPT ![p] = st]
           t == [s EXCEPT !.pstate = f]
<1>1. f \in [Pid -> States] /\ f[p] = st /\ \A q \in Pid : q # p => f[q] = s.pstate[q]
  BY DEF SchedType
<1> HIDE DEF f
<1>2. t \in SchedType
  BY <1>1 DEF SchedType
<1>3. t.pstate = f /\ t.rdy = s.rdy /\ t.qkey = s.qkey /\ t.pprio = s.pprio
  BY DEF SchedType
<1>4. ReadyListBut(t, p)
  BY <1>1, <1>3, NullIsPid DEF ReadyListBut
<1> QED BY <1>2, <1>4 DEF f

LEMMA ButNotReady ==
    ASSUME NEW s, NEW p \in Pid, ReadyListBut(s, p), s.pstate[p] # "PRREADY"
    PROVE  ReadyListBut(s, BADPID)
  BY NullIsPid DEF ReadyListBut

(* ready() makes a process that is not eligible the ready one it names. *)
LEMMA ReadyGood ==
    ASSUME NEW s, SchedGood(s), NEW p \in Pid, p # NULLPROC,
           s.pstate[p] \notin Eligible
    PROVE  /\ SchedGood(ready(s, p))
           /\ ready(s, p).pstate = [s.pstate EXCEPT ![p] = "PRREADY"]
           /\ ready(s, p).currpid = s.currpid
           /\ ready(s, p).preempt = s.preempt
           /\ SameClock(s, ready(s, p))
<1> DEFINE m == [s EXCEPT !.pstate = [@ EXCEPT ![p] = "PRREADY"]]
<1>1. s \in SchedType /\ ReadyListBut(s, BADPID)
  BY DEF SchedGood
<1>2. m \in SchedType /\ ReadyListBut(m, p)
  <2>1. "PRREADY" \in States /\ s.pstate[p] # "PRREADY"
    BY DEF States, Eligible
  <2> QED BY <1>1, <2>1, MarkedBut
<1>3. /\ m.pstate = [s.pstate EXCEPT ![p] = "PRREADY"]
      /\ m.currpid = s.currpid /\ m.preempt = s.preempt /\ SameClock(s, m)
  BY <1>1 DEF SchedType, SameClock
<1>4. m.pstate[p] = "PRREADY" /\ \A q \in Pid : q # p => m.pstate[q] = s.pstate[q]
  BY <1>1, <1>3 DEF SchedType
<1>5. ready(s, p) = insert(m, p)
  BY DEF ready, Pid, NULLPROC
<1> HIDE DEF m
<1>6. /\ insert(m, p) \in SchedType /\ ReadyListBut(insert(m, p), BADPID)
      /\ insert(m, p).pstate = m.pstate
      /\ insert(m, p).currpid = m.currpid /\ insert(m, p).preempt = m.preempt
      /\ SameClock(m, insert(m, p))
  BY <1>2, <1>4, InsertGood
<1>7. OneCurrent(insert(m, p)) /\ NullEligible(insert(m, p))
  BY <1>3, <1>4, <1>6, NullIsPid DEF OneCurrent, NullEligible, SchedGood, Eligible
<1> QED BY <1>3, <1>5, <1>6, <1>7 DEF SchedGood, SameClock

(* A list without its last entry. *)
LEMMA FrontFacts ==
    ASSUME NEW l \in Seq(Pid), NoDup(l), l # <<>>
    PROVE  /\ Len(l) \in 1 .. Len(l) /\ l[Len(l)] \in Pid
           /\ SubSeq(l, 1, Len(l) - 1) \in Seq(Pid)
           /\ NoDup(SubSeq(l, 1, Len(l) - 1))
           /\ \A q \in Pid : OnList(SubSeq(l, 1, Len(l) - 1), q)
                                <=> OnList(l, q) /\ q # l[Len(l)]
           /\ \A key : SortedBy(l, key) => SortedBy(SubSeq(l, 1, Len(l) - 1), key)
<1> DEFINE n == Len(l)
           m == SubSeq(l, 1, n - 1)
<1>1. n \in Nat /\ n >= 1 /\ n \in 1 .. n /\ l[n] \in Pid
  OBVIOUS
<1>2. /\ m \in Seq(Pid)
      /\ Len(m) = n - 1
      /\ \A j \in 1 .. n - 1 : m[j] = l[j]
  <2>1. 1 \in Int /\ n - 1 \in Int /\ \A j \in 1 .. n - 1 : l[j] \in Pid
    BY <1>1
  <2>2. /\ m \in Seq(Pid)
        /\ Len(m) = IF 1 <= n - 1 THEN n - 1 - 1 + 1 ELSE 0
        /\ \A j \in 1 .. n - 1 - 1 + 1 : m[j] = l[1 + j - 1]
    BY <2>1, SubSeqProperties
  <2> HIDE DEF m, n
  <2>3. Len(m) = n - 1
    BY <1>1, <2>2
  <2>4. ASSUME NEW j \in 1 .. n - 1 PROVE m[j] = l[j]
    <3>1. j \in 1 .. n - 1 - 1 + 1 /\ 1 + j - 1 = j
      BY <1>1
    <3> QED BY <2>2, <3>1
  <2> QED BY <2>2, <2>3, <2>4
<1> HIDE DEF m
<1>3. NoDup(m)
  <2>1. \A i, j \in 1 .. n - 1 : i \in 1 .. n /\ j \in 1 .. n
    BY <1>1
  <2> QED BY <1>2, <2>1 DEF NoDup
<1>4. ASSUME NEW q \in Pid PROVE OnList(m, q) <=> OnList(l, q) /\ q # l[n]
  <2>1. ASSUME OnList(m, q) PROVE OnList(l, q) /\ q # l[n]
    <3>1. PICK j \in 1 .. n - 1 : m[j] = q
      BY <2>1, <1>2 DEF OnList
    <3>2. j \in 1 .. n /\ j # n /\ l[j] = q
      BY <1>1, <1>2, <3>1
    <3> QED BY <1>1, <3>2 DEF OnList, NoDup
  <2>2. ASSUME OnList(l, q), q # l[n] PROVE OnList(m, q)
    <3>1. PICK j \in 1 .. n : l[j] = q
      BY <2>2 DEF OnList
    <3>2. j \in 1 .. Len(m) /\ m[j] = q
      BY <1>1, <1>2, <2>2, <3>1
    <3> QED BY <3>2 DEF OnList
  <2> QED BY <2>1, <2>2
<1>5. ASSUME NEW key, SortedBy(l, key) PROVE SortedBy(m, key)
  <2>1. \A i, j \in 1 .. n - 1 : i \in 1 .. n /\ j \in 1 .. n
    BY <1>1
  <2> QED BY <1>2, <1>5, <2>1 DEF SortedBy
<1> QED BY <1>1, <1>2, <1>3, <1>4, <1>5 DEF m

(* The states of the processes that do not compete for the processor *)
SameBlocked(s, t) ==
    /\ \A p \in Pid : s.pstate[p] \in Eligible <=> t.pstate[p] \in Eligible
    /\ \A p \in Pid : s.pstate[p] \notin Eligible => t.pstate[p] = s.pstate[p]

Running(t) == t.pstate[t.currpid] = "PRCURR"

(* resched() dispatches a ready process of the highest priority. *)
LEMMA GetlastGood ==
    ASSUME NEW s \in SchedType, ReadyListBut(s, BADPID), NullEligible(s),
           s.rdy # <<>>, \A p \in Pid : s.pstate[p] # "PRCURR"
    PROVE  /\ SchedGood(getlast(s)) /\ Running(getlast(s)) /\ Highest(getlast(s))
           /\ SameClock(s, getlast(s)) /\ SameBlocked(s, getlast(s))
<1> DEFINE n == Len(s.rdy)
           p == s.rdy[n]
           front == SubSeq(s.rdy, 1, n - 1)
           key2 == [s.qkey EXCEPT ![p] = 0]
           st2 == [s.pstate EXCEPT ![p] = "PRCURR"]
           t == getlast(s)
<1>1. /\ s.rdy \in Seq(Pid) /\ NoDup(s.rdy) /\ SortedBy(s.rdy, s.qkey)
      /\ s.qkey \in [Pid -> Int] /\ s.pprio \in [Pid -> Int]
      /\ s.pstate \in [Pid -> States]
  BY DEF SchedType, ReadyListBut
<1>2. /\ n \in 1 .. n /\ p \in Pid /\ front \in Seq(Pid) /\ NoDup(front)
      /\ \A q \in Pid : OnList(front, q) <=> OnList(s.rdy, q) /\ q # p
      /\ SortedBy(front, s.qkey)
  BY <1>1, FrontFacts
<1>3. t = [s EXCEPT !.currpid = p, !.rdy = front, !.qkey = key2, !.pstate = st2,
                    !.preempt = QUANTUM]
  BY DEF getlast
<1>4. /\ t.currpid = p /\ t.rdy = front /\ t.qkey = key2 /\ t.pstate = st2
      /\ SameClock(s, t)
  BY DEF getlast, SchedType, SameClock
<1>5. /\ key2 \in [Pid -> Int] /\ \A q \in Pid : q # p => key2[q] = s.qkey[q]
      /\ st2 \in [Pid -> States] /\ st2[p] = "PRCURR"
      /\ \A q \in Pid : q # p => st2[q] = s.pstate[q]
  BY <1>1, <1>2 DEF States
<1>6. OnList(s.rdy, p)
  BY <1>1, <1>2 DEF OnList
<1>7. \A q \in Pid : s.pstate[q] = "PRREADY" => s.pprio[q] <= s.pprio[p]
  <2>1. ASSUME NEW q \in Pid, s.pstate[q] = "PRREADY" PROVE s.pprio[q] <= s.pprio[p]
    <3>1. PICK j \in 1 .. n : s.rdy[j] = q
      BY <2>1, NullIsPid DEF ReadyListBut, OnList
    <3>2. s.qkey[q] = s.pprio[q] /\ s.qkey[p] = s.pprio[p]
      BY <2>1, <1>2, <1>6, NullIsPid DEF ReadyListBut
    <3>3. s.qkey[s.rdy[j]] <= s.qkey[s.rdy[n]]
      <4>1. CASE j = n
        BY <4>1, <1>1, <3>1
      <4>2. CASE j < n
        BY <4>2, <1>1, <1>2 DEF SortedBy
      <4>3. j = n \/ j < n
        BY <1>2
      <4> QED BY <4>1, <4>2, <4>3
    <3> QED BY <3>1, <3>2, <3>3
  <2> QED BY <2>1
<1> HIDE DEF p, front, key2, st2, t
<1>8. t \in SchedType
  <2>1. QUANTUM \in Int
    BY KernelAssumption
  <2> QED BY <1>2, <1>3, <1>5, <2>1 DEF SchedType
<1>9. SortedBy(front, key2)
  <2>1. \A j \in 1 .. Len(front) : front[j] \in Pid /\ front[j] # p
    BY <1>2 DEF OnList
  <2> QED BY <1>2, <1>5, <2>1 DEF SortedBy
<1>10. ReadyListBut(t, BADPID)
  <2>1. \A q \in Pid : OnList(front, q) <=> q # BADPID /\ st2[q] = "PRREADY"
    BY <1>2, <1>5, NullIsPid DEF ReadyListBut
  <2>2. \A q \in Pid : st2[q] = "PRREADY" => key2[q] = s.pprio[q]
    BY <1>5, NullIsPid DEF ReadyListBut
  <2> QED BY <1>2, <1>4, <1>9, <2>1, <2>2 DEF ReadyListBut, SameClock
<1>11. OneCurrent(t) /\ Running(t)
  BY <1>4, <1>5 DEF OneCurrent, Running
<1>12. SameBlocked(s, t)
  <2>1. s.pstate[p] = "PRREADY"
    BY <1>2, <1>6 DEF ReadyListBut
  <2> QED BY <1>4, <1>5, <2>1 DEF SameBlocked, Eligible
<1>13. NullEligible(t)
  BY <1>12, NullIsPid DEF NullEligible, SameBlocked
<1>14. Highest(t)
  BY <1>4, <1>5, <1>7 DEF Highest, SameClock
<1> QED BY <1>4, <1>8, <1>10, <1>11, <1>12, <1>13, <1>14 DEF SchedGood, t

LEMMA ReschedGood ==
    ASSUME NEW s, SchedGood(s)
    PROVE  /\ SchedGood(resched(s)) /\ Running(resched(s)) /\ Highest(resched(s))
           /\ SameClock(s, resched(s)) /\ SameBlocked(s, resched(s))
<1> DEFINE c == s.currpid
<1>1. s \in SchedType /\ ReadyListBut(s, BADPID) /\ c \in Pid
  BY DEF SchedGood, SchedType
<1>2. CASE s.pstate[c] # "PRCURR"
  <2>1. \A p \in Pid : s.pstate[p] # "PRCURR"
    BY <1>2 DEF SchedGood, OneCurrent
  <2>2. s.rdy # <<>>
    <3>1. OnList(s.rdy, NULLPROC)
      BY <2>1, <1>1, NullIsPid DEF SchedGood, NullEligible, Eligible, ReadyListBut
    <3> QED BY <3>1 DEF OnList
  <2>3. resched(s) = getlast(s)
    BY <1>2 DEF resched
  <2> QED BY <1>1, <2>1, <2>2, <2>3, GetlastGood DEF SchedGood
<1>3. CASE s.pstate[c] = "PRCURR" /\ lastkey(s) < s.pprio[c]
  <2>1. resched(s) = s
    BY <1>3 DEF resched
  <2>2. ASSUME NEW q \in Pid, s.pstate[q] = "PRREADY" PROVE s.pprio[q] <= s.pprio[c]
    <3> DEFINE n == Len(s.rdy)
    <3>1. /\ s.rdy \in Seq(Pid) /\ SortedBy(s.rdy, s.qkey)
          /\ s.qkey \in [Pid -> Int] /\ s.pprio \in [Pid -> Int]
      BY <1>1 DEF SchedType, ReadyListBut
    <3>2. PICK j \in 1 .. n : s.rdy[j] = q
      BY <2>2, <1>1, NullIsPid DEF ReadyListBut, OnList
    <3>3. s.qkey[q] = s.pprio[q]
      BY <2>2, <1>1, NullIsPid DEF ReadyListBut
    <3>4. s.rdy # <<>> /\ n \in 1 .. n
      BY <3>1, <3>2
    <3>5. s.qkey[s.rdy[n]] < s.pprio[c] /\ s.rdy[n] \in Pid
      BY <1>3, <3>1, <3>4 DEF lastkey
    <3>6. s.qkey[s.rdy[j]] <= s.qkey[s.rdy[n]]
      <4>1. CASE j = n
        BY <4>1, <3>1, <3>5
      <4>2. CASE j < n
        BY <4>2, <3>1, <3>4 DEF SortedBy
      <4>3. j = n \/ j < n
        BY <3>4
      <4> QED BY <4>1, <4>2, <4>3
    <3> QED BY SMTT(30), <3>1, <3>2, <3>3, <3>5, <3>6, <1>1
  <2>3. Highest(s)
    BY <2>2 DEF Highest
  <2>4. SameClock(s, s) /\ SameBlocked(s, s) /\ Running(s)
    BY <1>3 DEF SameClock, SameBlocked, Running
  <2> QED BY <2>1, <2>3, <2>4
<1>4. CASE s.pstate[c] = "PRCURR" /\ ~ (lastkey(s) < s.pprio[c])
  <2> DEFINE m == [s EXCEPT !.pstate = [@ EXCEPT ![s.currpid] = "PRREADY"]]
             u == insert(m, c)
  <2>1. resched(s) = getlast(u)
    BY <1>4 DEF resched
  <2>2. m \in SchedType /\ ReadyListBut(m, c)
    <3>1. "PRREADY" \in States
      BY DEF States
    <3> QED BY <1>1, <1>4, <3>1, MarkedBut
  <2>3. /\ m.pstate[c] = "PRREADY"
        /\ \A q \in Pid : q # c => m.pstate[q] = s.pstate[q]
        /\ SameClock(s, m)
    BY <1>1 DEF SchedType, SameClock
  <2> HIDE DEF m
  <2>4. /\ u \in SchedType /\ ReadyListBut(u, BADPID) /\ u.rdy # <<>>
        /\ u.pstate = m.pstate /\ SameClock(m, u)
    BY <1>1, <2>2, <2>3, InsertGood
  <2> HIDE DEF u
  <2>5. \A q \in Pid : u.pstate[q] # "PRCURR"
    BY <1>1, <2>3, <2>4 DEF SchedGood, OneCurrent
  <2>6. SameBlocked(s, u) /\ SameClock(s, u)
    BY <1>4, <2>3, <2>4 DEF SameBlocked, SameClock, Eligible
  <2>7. NullEligible(u)
    BY <2>6, NullIsPid DEF NullEligible, SameBlocked, SchedGood
  <2>8. /\ SchedGood(getlast(u)) /\ Running(getlast(u)) /\ Highest(getlast(u))
        /\ SameClock(u, getlast(u)) /\ SameBlocked(u, getlast(u))
    BY <2>4, <2>5, <2>7, GetlastGood
  <2>9. SameClock(s, getlast(u)) /\ SameBlocked(s, getlast(u))
    BY <2>6, <2>8 DEF SameClock, SameBlocked
  <2> QED BY <2>1, <2>8, <2>9
<1> QED BY <1>2, <1>3, <1>4

-----------------------------------------------------------------------------
(* The delta list *)

ClockListBut(s, x) ==
    /\ NoDup(s.clockq)
    /\ \A q \in Pid : OnList(s.clockq, q) <=> q # x /\ s.pstate[q] \in Timed

(* The two variables the clock handler uses describe the list. *)
ClockView(s) == /\ s.slnempty <=> s.clockq # <<>>
                /\ s.clockq # <<>> => s.sltop = s.clockq[1]

Good(s) == SchedGood(s) /\ ClockListBut(s, BADPID)

LEMMA TimedNotEligible == \A st \in Timed : st \in States /\ st \notin Eligible
  BY DEF Timed, Eligible, States

LEMMA ViewKept ==
    ASSUME NEW s, NEW t, SameClock(s, t), ClockView(s)
    PROVE  ClockView(t)
  BY DEF SameClock, ClockView

LEMMA ReschedKeeps ==
    ASSUME NEW s, Good(s)
    PROVE  /\ Good(resched(s)) /\ Running(resched(s)) /\ Highest(resched(s))
           /\ SameClock(s, resched(s)) /\ SameBlocked(s, resched(s))
           /\ ClockView(s) => ClockView(resched(s))
<1> DEFINE t == resched(s)
<1>1. /\ SchedGood(t) /\ Running(t) /\ Highest(t)
      /\ SameClock(s, t) /\ SameBlocked(s, t)
  BY ReschedGood DEF Good
<1> HIDE DEF t
<1>2. ClockListBut(t, BADPID)
  BY <1>1, TimedNotEligible DEF Good, ClockListBut, SameClock, SameBlocked
<1> QED BY <1>1, <1>2, ViewKept DEF Good, t

LEMMA ReadyKeeps ==
    ASSUME NEW s, SchedGood(s), NEW p \in Pid, p # NULLPROC,
           s.pstate[p] \notin Eligible, ClockListBut(s, p)
    PROVE  /\ Good(ready(s, p))
           /\ ready(s, p).pstate = [s.pstate EXCEPT ![p] = "PRREADY"]
           /\ ready(s, p).currpid = s.currpid
           /\ SameClock(s, ready(s, p))
           /\ ClockView(s) => ClockView(ready(s, p))
<1> DEFINE t == ready(s, p)
<1>1. /\ SchedGood(t) /\ t.pstate = [s.pstate EXCEPT ![p] = "PRREADY"]
      /\ t.currpid = s.currpid /\ SameClock(s, t)
  BY ReadyGood
<1> HIDE DEF t
<1>2. s.pstate \in [Pid -> States]
  BY DEF SchedGood, SchedType
<1>3. ClockListBut(t, BADPID)
  BY <1>1, <1>2, NullIsPid DEF ClockListBut, SameClock, Timed
<1> QED BY <1>1, <1>3, ViewKept DEF Good, t

(* A process leaves the competition: it blocks, is suspended or killed. *)
LEMMA MarkKeeps ==
    ASSUME NEW s, Good(s), NEW p \in Pid, p # NULLPROC, NEW st \in States,
           s.pstate[p] # "PRREADY", st \notin Eligible
    PROVE  LET t == [s EXCEPT !.pstate = [@ EXCEPT ![p] = st]]
           IN  /\ SchedGood(t) /\ SameClock(s, t)
               /\ t.pstate = [s.pstate EXCEPT ![p] = st] /\ t.currpid = s.currpid
               /\ ~ OnList(s.clockq, p) => ClockListBut(t, p)
               /\ ~ OnList(s.clockq, p) /\ st \notin Timed => ClockListBut(t, BADPID)
<1> DEFINE t == [s EXCEPT !.pstate = [@ EXCEPT ![p] = st]]
<1>1. s \in SchedType /\ ReadyListBut(s, BADPID) /\ s.pstate \in [Pid -> States]
  BY DEF Good, SchedGood, SchedType
<1>2. t \in SchedType /\ ReadyListBut(t, p)
  BY <1>1, MarkedBut
<1>3. /\ t.pstate = [s.pstate EXCEPT ![p] = st] /\ t.currpid = s.currpid
      /\ SameClock(s, t)
  BY <1>1 DEF SchedType, SameClock
<1> HIDE DEF t
<1>4. t.pstate[p] = st /\ \A q \in Pid : q # p => t.pstate[q] = s.pstate[q]
  BY <1>1, <1>3
<1>5. ReadyListBut(t, BADPID)
  BY <1>2, <1>4, ButNotReady DEF Eligible
<1>6. OneCurrent(t) /\ NullEligible(t)
  BY <1>3, <1>4, NullIsPid DEF Good, SchedGood, OneCurrent, NullEligible, Eligible
<1>7. ~ OnList(s.clockq, p) => ClockListBut(t, p)
  BY <1>3, <1>4, NullIsPid DEF Good, ClockListBut, SameClock
<1>8. ~ OnList(s.clockq, p) /\ st \notin Timed => ClockListBut(t, BADPID)
  BY <1>3, <1>4, NullIsPid DEF Good, ClockListBut, SameClock
<1> QED BY <1>2, <1>3, <1>5, <1>6, <1>7, <1>8 DEF SchedGood, t

(* unsleep() takes a timed waiter off the delta list. *)
LEMMA UnsleepKeeps ==
    ASSUME NEW s, SchedGood(s), NoDup(s.clockq), NEW p \in Pid, OnList(s.clockq, p),
           \A q \in Pid : OnList(s.clockq, q) => s.pstate[q] # "PRREADY"
    PROVE  /\ SchedGood(unsleep(s, p))
           /\ unsleep(s, p).pstate = s.pstate /\ unsleep(s, p).pprio = s.pprio
           /\ unsleep(s, p).currpid = s.currpid
           /\ NoDup(unsleep(s, p).clockq)
           /\ \A q \in Pid : OnList(unsleep(s, p).clockq, q) <=> OnList(s.clockq, q) /\ q # p
           /\ ClockView(s) => ClockView(unsleep(s, p))
<1> DEFINE i == IndexOf(s.clockq, p)
           l == dequeue(s.clockq, p)
           keys == IF i < Len(s.clockq)
                     THEN [s.qkey EXCEPT ![s.clockq[i + 1]] = @ + s.qkey[p]]
                     ELSE s.qkey
           key2 == [keys EXCEPT ![p] = 0]
           top2 == IF l # <<>> THEN l[1] ELSE s.sltop
           t == unsleep(s, p)
<1>1. /\ s \in SchedType /\ s.clockq \in Seq(Pid) /\ s.qkey \in [Pid -> Int]
      /\ s.slnempty \in BOOLEAN /\ s.sltop \in Pid \cup {EMPTY} /\ s.rdy \in Seq(Pid)
  BY DEF SchedGood, SchedType
<1>2. /\ l \in Seq(Pid) /\ NoDup(l)
      /\ \A q \in Pid : OnList(l, q) <=> OnList(s.clockq, q) /\ q # p
  BY <1>1, DequeueFacts
<1>3. i \in 1 .. Len(s.clockq) /\ s.clockq[i] = p
  BY <1>1 DEF OnList, IndexOf
<1>4. t = [s EXCEPT !.clockq = l, !.qkey = key2, !.slnempty = @ /\ l # <<>>,
                    !.sltop = top2]
  BY DEF unsleep
<1>5. /\ t.clockq = l /\ t.qkey = key2 /\ t.slnempty = (s.slnempty /\ l # <<>>)
      /\ t.sltop = top2 /\ t.pstate = s.pstate /\ t.pprio = s.pprio
      /\ t.rdy = s.rdy /\ t.currpid = s.currpid
  BY <1>1 DEF unsleep, SchedType
<1> HIDE DEF i, l, t
<1>6. /\ key2 \in [Pid -> Int]
      /\ \A q \in Pid : ~ OnList(s.clockq, q) => key2[q] = s.qkey[q]
  <2>1. CASE i < Len(s.clockq)
    <3>1. i + 1 \in 1 .. Len(s.clockq) /\ s.clockq[i + 1] \in Pid
      BY <1>1, <1>3, <2>1
    <3>2. OnList(s.clockq, s.clockq[i + 1]) /\ OnList(s.clockq, p)
      BY <3>1 DEF OnList
    <3>3. keys = [s.qkey EXCEPT ![s.clockq[i + 1]] = @ + s.qkey[p]]
      BY <2>1
    <3>4. s.qkey[s.clockq[i + 1]] + s.qkey[p] \in Int
      BY <1>1, <3>1
    <3> HIDE DEF keys
    <3>5. keys \in [Pid -> Int] /\ \A q \in Pid : q # s.clockq[i + 1] => keys[q] = s.qkey[q]
      BY <1>1, <3>1, <3>3, <3>4
    <3> QED BY <3>2, <3>5
  <2>2. CASE ~ (i < Len(s.clockq))
    <3>1. keys = s.qkey /\ OnList(s.clockq, p)
      BY <2>2
    <3> HIDE DEF keys
    <3> QED BY <1>1, <3>1
  <2> QED BY <2>1, <2>2
<1>7. top2 \in Pid \cup {EMPTY}
  <2>1. CASE l # <<>>
    BY <1>2, <2>1
  <2>2. CASE l = <<>>
    BY <1>1, <2>2
  <2> QED BY <2>1, <2>2
<1> HIDE DEF key2, top2
<1>8. t \in SchedType
  BY <1>1, <1>2, <1>4, <1>6, <1>7 DEF SchedType
<1>9. ReadyListBut(t, BADPID)
  <2>1. \A j \in 1 .. Len(s.rdy) : s.rdy[j] \in Pid /\ key2[s.rdy[j]] = s.qkey[s.rdy[j]]
    <3>1. SUFFICES ASSUME NEW j \in 1 .. Len(s.rdy)
                   PROVE  s.rdy[j] \in Pid /\ key2[s.rdy[j]] = s.qkey[s.rdy[j]]
      OBVIOUS
    <3>2. s.rdy[j] \in Pid /\ OnList(s.rdy, s.rdy[j])
      BY <1>1 DEF OnList
    <3> QED BY <1>6, <3>2 DEF SchedGood, ReadyListBut
  <2>2. SortedBy(s.rdy, key2)
    BY <2>1 DEF SchedGood, ReadyListBut, SortedBy
  <2>3. \A q \in Pid : s.pstate[q] = "PRREADY" => key2[q] = s.pprio[q]
    BY <1>6, NullIsPid DEF SchedGood, ReadyListBut
  <2> QED BY <1>5, <2>2, <2>3 DEF SchedGood, ReadyListBut
<1>10. OneCurrent(t) /\ NullEligible(t)
  BY <1>5 DEF SchedGood, OneCurrent, NullEligible
<1>11. ClockView(s) => ClockView(t)
  <2>1. s.clockq # <<>>
    BY DEF OnList
  <2> QED BY <1>5, <2>1 DEF ClockView, top2
<1> QED BY <1>2, <1>5, <1>8, <1>9, <1>10, <1>11 DEF SchedGood, t

(* A process leaves the ready list: suspended, killed, or about to be linked *)
(* again under another priority.                                             *)
LEMMA UnlinkReady ==
    ASSUME NEW s \in SchedType, ReadyListBut(s, BADPID), NEW p \in Pid,
           NEW f \in [Pid -> States], NEW key \in [Pid -> Int], NEW pr \in [Pid -> Int],
           \A q \in Pid : q # p => f[q] = s.pstate[q] /\ key[q] = s.qkey[q] /\ pr[q] = s.pprio[q]
    PROVE  LET t == [s EXCEPT !.rdy = dequeue(@, p), !.pstate = f, !.qkey = key, !.pprio = pr]
           IN  t \in SchedType /\ ReadyListBut(t, p)
<1> DEFINE l == dequeue(s.rdy, p)
           t == [s EXCEPT !.rdy = l, !.pstate = f, !.qkey = key, !.pprio = pr]
<1>1. s.rdy \in Seq(Pid) /\ NoDup(s.rdy) /\ SortedBy(s.rdy, s.qkey) /\ s.qkey \in [Pid -> Int]
  BY DEF SchedType, ReadyListBut
<1>2. /\ l \in Seq(Pid) /\ NoDup(l) /\ SortedBy(l, s.qkey)
      /\ \A q \in Pid : OnList(l, q) <=> OnList(s.rdy, q) /\ q # p
  BY <1>1, DequeueFacts
<1> HIDE DEF l
<1>3. t \in SchedType
  BY <1>2 DEF SchedType
<1>4. t.rdy = l /\ t.pstate = f /\ t.qkey = key /\ t.pprio = pr
  BY DEF SchedType
<1>5. SortedBy(l, key)
  <2>1. \A j \in 1 .. Len(l) : l[j] \in Pid /\ l[j] # p
    BY <1>2 DEF OnList
  <2>2. \A j \in 1 .. Len(l) : key[l[j]] = s.qkey[l[j]]
    BY <2>1
  <2> QED BY <1>2, <2>2 DEF SortedBy
<1>6. \A q \in Pid : OnList(l, q) <=> q # p /\ f[q] = "PRREADY"
  BY <1>2, NullIsPid DEF ReadyListBut
<1>7. \A q \in Pid : q # p /\ f[q] = "PRREADY" => key[q] = pr[q]
  BY NullIsPid DEF ReadyListBut
<1>8. ReadyListBut(t, p)
  BY <1>2, <1>4, <1>5, <1>6, <1>7 DEF ReadyListBut
<1> QED BY <1>3, <1>8 DEF l

(* suspend() and kill() of a ready process. *)
LEMMA RemoveReadyKeeps ==
    ASSUME NEW s, Good(s), NEW p \in Pid, p # NULLPROC, s.pstate[p] = "PRREADY",
           NEW st \in States, st \notin Eligible, st \notin Timed
    PROVE  LET t == RemoveReady([s EXCEPT !.pstate = [@ EXCEPT ![p] = st]], p)
           IN  /\ Good(t) /\ SameClock(s, t) /\ t.currpid = s.currpid
               /\ t.pstate = [s.pstate EXCEPT ![p] = st]
<1> DEFINE f == [s.pstate EXCEPT ![p] = st]
           key == [s.qkey EXCEPT ![p] = 0]
           t == RemoveReady([s EXCEPT !.pstate = [@ EXCEPT ![p] = st]], p)
<1>1. /\ s \in SchedType /\ ReadyListBut(s, BADPID) /\ s.pprio \in [Pid -> Int]
      /\ s.pstate \in [Pid -> States] /\ s.qkey \in [Pid -> Int]
  BY DEF Good, SchedGood, SchedType
<1>2. t = [s EXCEPT !.rdy = dequeue(@, p), !.pstate = f, !.qkey = key, !.pprio = s.pprio]
  BY <1>1 DEF SchedType, RemoveReady
<1>3. /\ t.pstate = f /\ t.currpid = s.currpid /\ SameClock(s, t)
  BY <1>1 DEF SchedType, SameClock, RemoveReady
<1>4. /\ f \in [Pid -> States] /\ key \in [Pid -> Int]
      /\ f[p] = st
      /\ \A q \in Pid : q # p => f[q] = s.pstate[q] /\ key[q] = s.qkey[q]
  BY <1>1
<1> HIDE DEF t, f, key
<1>5. t \in SchedType /\ ReadyListBut(t, p)
  BY <1>1, <1>2, <1>4, UnlinkReady
<1>6. ReadyListBut(t, BADPID)
  BY <1>3, <1>4, <1>5, ButNotReady DEF Eligible
<1>7. OneCurrent(t) /\ NullEligible(t)
  BY <1>3, <1>4, NullIsPid DEF Good, SchedGood, OneCurrent, NullEligible, Eligible
<1>8. ClockListBut(t, BADPID)
  BY <1>3, <1>4 DEF Good, ClockListBut, SameClock, Timed
<1> QED BY <1>3, <1>5, <1>6, <1>7, <1>8 DEF Good, SchedGood, f, t

(* The first entry of a list leaves it: getfirst(). *)
LEMMA TailFacts ==
    ASSUME NEW l \in Seq(Pid), NoDup(l), l # <<>>
    PROVE  /\ Head(l) = l[1] /\ Head(l) \in Pid /\ OnList(l, Head(l))
           /\ Tail(l) \in Seq(Pid) /\ Len(Tail(l)) = Len(l) - 1 /\ NoDup(Tail(l))
           /\ \A q \in Pid : OnList(Tail(l), q) <=> OnList(l, q) /\ q # Head(l)
<1> DEFINE n == Len(l)
           m == Tail(l)
<1>1. n \in Nat /\ n >= 1 /\ Head(l) = l[1] /\ l[1] \in Pid
  BY HeadTailProperties
<1>2. m \in Seq(Pid) /\ Len(m) = n - 1 /\ \A j \in 1 .. n - 1 : m[j] = l[j + 1]
  <2>1. m \in Seq(Pid) /\ Len(m) = n - 1 /\ \A j \in 1 .. Len(m) : m[j] = l[j + 1]
    BY HeadTailProperties
  <2> QED BY <2>1
<1>3. OnList(l, l[1])
  BY DEF OnList
<1> HIDE DEF m, n
<1>4. NoDup(m)
  <2>1. SUFFICES ASSUME NEW i \in 1 .. n - 1, NEW j \in 1 .. n - 1, i # j
                 PROVE  m[i] # m[j]
    BY <1>2 DEF NoDup
  <2>2. i + 1 \in 1 .. n /\ j + 1 \in 1 .. n /\ i + 1 # j + 1
    BY <1>1, <2>1
  <2>3. l[i + 1] # l[j + 1]
    BY <2>2 DEF NoDup, n
  <2> QED BY <1>2, <2>3
<1>5. ASSUME NEW q \in Pid PROVE OnList(m, q) <=> OnList(l, q) /\ q # l[1]
  <2>1. ASSUME OnList(m, q) PROVE OnList(l, q) /\ q # l[1]
    <3>1. PICK j \in 1 .. n - 1 : m[j] = q
      BY <2>1, <1>2 DEF OnList
    <3>2. j + 1 \in 1 .. n /\ 1 \in 1 .. n /\ j + 1 # 1
      BY <1>1
    <3>3. l[j + 1] = q
      BY <1>2, <3>1
    <3> QED BY <3>2, <3>3 DEF OnList, NoDup, n
  <2>2. ASSUME OnList(l, q), q # l[1] PROVE OnList(m, q)
    <3>1. PICK j \in 1 .. n : l[j] = q
      BY <2>2 DEF OnList, n
    <3>2. j - 1 \in 1 .. n - 1 /\ (j - 1) + 1 = j
      BY <1>1, <2>2, <3>1
    <3>3. m[j - 1] = q
      BY <1>2, <3>1, <3>2
    <3> QED BY <1>2, <3>2, <3>3 DEF OnList
  <2> QED BY <2>1, <2>2
<1> QED BY <1>1, <1>2, <1>3, <1>4, <1>5 DEF m, n

(* A process joins the end of a queue. *)
LEMMA AppendFacts ==
    ASSUME NEW l \in Seq(Pid), NoDup(l), NEW p \in Pid, ~ OnList(l, p)
    PROVE  /\ Append(l, p) \in Seq(Pid) /\ Len(Append(l, p)) = Len(l) + 1
           /\ NoDup(Append(l, p))
           /\ \A q \in Pid : OnList(Append(l, p), q) <=> OnList(l, q) \/ q = p
<1> DEFINE n == Len(l)
           m == Append(l, p)
<1>1. n \in Nat
  OBVIOUS
<1>2. /\ m \in Seq(Pid) /\ Len(m) = n + 1
      /\ m[n + 1] = p /\ \A j \in 1 .. n : m[j] = l[j]
  BY AppendProperties
<1> HIDE DEF m, n
<1>3. NoDup(m)
  <2>1. SUFFICES ASSUME NEW i \in 1 .. n + 1, NEW j \in 1 .. n + 1, i < j
                 PROVE  m[i] # m[j]
    BY <1>1, <1>2 DEF NoDup
  <2>2. i \in 1 .. n
    BY <1>1, <2>1
  <2>3. CASE j = n + 1
    BY <1>2, <2>2, <2>3 DEF OnList, n
  <2>4. CASE j \in 1 .. n
    <3>1. l[i] # l[j]
      BY <1>1, <2>1, <2>2, <2>4 DEF NoDup, n
    <3> QED BY <1>2, <2>2, <2>4, <3>1
  <2>5. j = n + 1 \/ j \in 1 .. n
    BY <1>1
  <2> QED BY <2>3, <2>4, <2>5
<1>4. ASSUME NEW q \in Pid PROVE OnList(m, q) <=> OnList(l, q) \/ q = p
  <2>1. ASSUME OnList(m, q), q # p PROVE OnList(l, q)
    <3>1. PICK j \in 1 .. n + 1 : m[j] = q
      BY <2>1, <1>2 DEF OnList
    <3>2. j \in 1 .. n
      BY <1>1, <1>2, <2>1, <3>1
    <3> QED BY <1>2, <3>1, <3>2 DEF OnList, n
  <2>2. ASSUME OnList(l, q) PROVE OnList(m, q)
    <3>1. PICK j \in 1 .. n : l[j] = q
      BY <2>2 DEF OnList, n
    <3>2. j \in 1 .. n + 1 /\ m[j] = q
      BY <1>1, <1>2, <3>1
    <3> QED BY <1>2, <3>2 DEF OnList
  <2>3. OnList(m, p)
    <3>1. n + 1 \in 1 .. n + 1
      BY <1>1
    <3> QED BY <1>2, <3>1 DEF OnList
  <2> QED BY <2>1, <2>2, <2>3
<1> QED BY <1>2, <1>3, <1>4 DEF m, n

-----------------------------------------------------------------------------
(* What the scheduler leaves alone: the delta list and the blocked processes *)

(* The processes that are in another state than f gives them are eligible *)
(* before and after.                                                      *)
Near(f, g) == \A p \in Pid : g[p] = f[p] \/ (f[p] \in Eligible /\ g[p] \in Eligible)

(* The delta list and its keys are as they were. *)
SameDelta(s, t) == /\ t.clockq = s.clockq
                   /\ \A q \in Pid : OnList(s.clockq, q) => t.qkey[q] = s.qkey[q]

(* Some ready process has the priority of the running one. *)
Contended(s) == \E p \in Pid : s.pstate[p] = "PRREADY" /\ s.pprio[p] = s.pprio[s.currpid]

(* The running process has a whole quantum, or nobody to share it with. *)
Fresh(t) == Contended(t) => t.preempt = QUANTUM

(* t is fresh, or has what s has left and no new contender. *)
Rearms(s, t) == \/ Fresh(t)
                \/ t.preempt = s.preempt /\ (Contended(t) => Contended(s))

LEMMA NearFacts ==
    ASSUME NEW s, NEW t, SameBlocked(s, t)
    PROVE  Near(s.pstate, t.pstate)
  BY DEF SameBlocked, Near

LEMMA GetlastFacts ==
    ASSUME NEW s \in SchedType, ReadyListBut(s, BADPID), s.rdy # <<>>
    PROVE  /\ getlast(s).preempt = QUANTUM /\ getlast(s).clockq = s.clockq
           /\ \A q \in Pid : s.pstate[q] # "PRREADY" => getlast(s).qkey[q] = s.qkey[q]
<1> DEFINE n == Len(s.rdy)
           p == s.rdy[n]
           t == getlast(s)
<1>1. s.rdy \in Seq(Pid) /\ s.qkey \in [Pid -> Int] /\ NoDup(s.rdy)
  BY DEF SchedType, ReadyListBut
<1>2. n \in 1 .. n /\ p \in Pid
  BY <1>1, FrontFacts
<1>3. t.preempt = QUANTUM /\ t.clockq = s.clockq /\ t.qkey = [s.qkey EXCEPT ![p] = 0]
  BY DEF getlast, SchedType
<1>4. OnList(s.rdy, p)
  BY <1>1, <1>2 DEF OnList
<1>5. s.pstate[p] = "PRREADY"
  BY <1>2, <1>4 DEF ReadyListBut
<1> HIDE DEF p, t
<1> QED BY <1>1, <1>2, <1>3, <1>5 DEF t

LEMMA InsertFacts ==
    ASSUME NEW s \in SchedType, NEW p \in Pid
    PROVE  \A q \in Pid : q # p => insert(s, p).qkey[q] = s.qkey[q]
<1>1. insert(s, p).qkey = [s.qkey EXCEPT ![p] = s.pprio[p]]
  BY DEF insert, SchedType
<1>2. s.qkey \in [Pid -> Int]
  BY DEF SchedType
<1> QED BY <1>1, <1>2

(* A ready process that is not below the running one would have been noticed. *)
LEMMA LastIsHighest ==
    ASSUME NEW s \in SchedType, ReadyListBut(s, BADPID), s.currpid \in Pid,
           lastkey(s) < s.pprio[s.currpid], NEW q \in Pid, s.pstate[q] = "PRREADY"
    PROVE  s.pprio[q] < s.pprio[s.currpid]
<1> DEFINE n == Len(s.rdy)
<1>1. /\ s.rdy \in Seq(Pid) /\ SortedBy(s.rdy, s.qkey)
      /\ s.qkey \in [Pid -> Int] /\ s.pprio \in [Pid -> Int]
  BY DEF SchedType, ReadyListBut
<1>2. PICK j \in 1 .. n : s.rdy[j] = q
  BY NullIsPid DEF ReadyListBut, OnList
<1>3. s.qkey[q] = s.pprio[q]
  BY NullIsPid DEF ReadyListBut
<1>4. s.rdy # <<>> /\ n \in 1 .. n
  BY <1>1, <1>2
<1>5. s.qkey[s.rdy[n]] < s.pprio[s.currpid] /\ s.rdy[n] \in Pid
  BY <1>1, <1>4 DEF lastkey
<1>6. s.qkey[s.rdy[j]] <= s.qkey[s.rdy[n]]
  <2>1. CASE j = n
    BY <2>1, <1>1, <1>5
  <2>2. CASE j < n
    BY <2>2, <1>1, <1>4 DEF SortedBy
  <2>3. j = n \/ j < n
    BY <1>4
  <2> QED BY <2>1, <2>2, <2>3
<1>7. s.qkey[q] \in Int /\ s.qkey[s.rdy[n]] \in Int /\ s.pprio[s.currpid] \in Int
  BY <1>1, <1>5
<1> QED BY <1>2, <1>3, <1>5, <1>6, <1>7

(* resched() leaves the delta list alone, and whom it lets run has a fresh    *)
(* quantum if anyone could contend for it.                                    *)
LEMMA ReschedFacts ==
    ASSUME NEW s, Good(s)
    PROVE  SameDelta(s, resched(s)) /\ Fresh(resched(s)) /\ Near(s.pstate, resched(s).pstate)
<1> DEFINE c == s.currpid
<1>1. /\ s \in SchedType /\ ReadyListBut(s, BADPID) /\ c \in Pid /\ SchedGood(s)
      /\ \A q \in Pid : OnList(s.clockq, q) => s.pstate[q] \notin Eligible
  BY NullIsPid DEF Good, SchedGood, SchedType, ClockListBut, Timed, Eligible
<1>2. Near(s.pstate, resched(s).pstate)
  BY <1>1, ReschedGood, NearFacts
<1>3. CASE s.pstate[c] # "PRCURR"
  <2>1. s.rdy # <<>>
    <3>1. OnList(s.rdy, NULLPROC)
      BY <1>1, <1>3, NullIsPid DEF SchedGood, OneCurrent, NullEligible, Eligible, ReadyListBut
    <3> QED BY <3>1 DEF OnList
  <2>2. resched(s) = getlast(s)
    BY <1>3 DEF resched
  <2>3. /\ getlast(s).preempt = QUANTUM /\ getlast(s).clockq = s.clockq
        /\ \A q \in Pid : s.pstate[q] # "PRREADY" => getlast(s).qkey[q] = s.qkey[q]
    BY <1>1, <2>1, GetlastFacts
  <2> QED BY <1>1, <1>2, <2>2, <2>3 DEF SameDelta, Fresh, Eligible
<1>4. CASE s.pstate[c] = "PRCURR" /\ lastkey(s) < s.pprio[c]
  <2>1. resched(s) = s
    BY <1>4 DEF resched
  <2>2. s.pprio \in [Pid -> Int]
    BY <1>1 DEF SchedType
  <2>3. ~ Contended(s)
    <3>1. SUFFICES ASSUME NEW q \in Pid, s.pstate[q] = "PRREADY" PROVE s.pprio[q] # s.pprio[c]
      BY DEF Contended
    <3>2. lastkey(s) < s.pprio[s.currpid] /\ s.currpid \in Pid
      BY <1>1, <1>4
    <3> HIDE DEF c
    <3>3. s.pprio[q] < s.pprio[s.currpid]
      BY <1>1, <3>1, <3>2, LastIsHighest
    <3> QED BY <2>2, <3>1, <3>2, <3>3 DEF c
  <2> QED BY <1>2, <2>1, <2>3 DEF SameDelta, Fresh
<1>5. CASE s.pstate[c] = "PRCURR" /\ ~ (lastkey(s) < s.pprio[c])
  <2> DEFINE m == [s EXCEPT !.pstate = [@ EXCEPT ![s.currpid] = "PRREADY"]]
             u == insert(m, c)
  <2>1. resched(s) = getlast(u)
    BY <1>5 DEF resched
  <2>2. m \in SchedType /\ ReadyListBut(m, c)
    <3>1. "PRREADY" \in States
      BY DEF States
    <3> QED BY <1>1, <1>5, <3>1, MarkedBut
  <2>3. /\ m.pstate[c] = "PRREADY"
        /\ \A q \in Pid : q # c => m.pstate[q] = s.pstate[q]
        /\ m.clockq = s.clockq /\ m.qkey = s.qkey
    BY <1>1 DEF SchedType
  <2> HIDE DEF m
  <2>4. /\ u \in SchedType /\ ReadyListBut(u, BADPID) /\ u.rdy # <<>>
        /\ u.pstate = m.pstate /\ SameClock(m, u)
    BY <1>1, <2>2, <2>3, InsertGood
  <2>5. \A q \in Pid : q # c => u.qkey[q] = m.qkey[q]
    BY <1>1, <2>2, InsertFacts
  <2> HIDE DEF u
  <2>6. /\ getlast(u).preempt = QUANTUM /\ getlast(u).clockq = u.clockq
        /\ \A q \in Pid : u.pstate[q] # "PRREADY" => getlast(u).qkey[q] = u.qkey[q]
    BY <2>4, GetlastFacts
  <2>7. \A q \in Pid : OnList(s.clockq, q) => q # c /\ u.pstate[q] # "PRREADY"
    BY <1>1, <1>5, <2>3, <2>4 DEF Eligible
  <2> QED BY <1>2, <2>1, <2>3, <2>4, <2>5, <2>6, <2>7 DEF SameDelta, Fresh, SameClock
<1> QED BY <1>3, <1>4, <1>5

(* ready() leaves the delta list alone when the process is not on it. *)
LEMMA ReadyFacts ==
    ASSUME NEW s, SchedGood(s), NEW p \in Pid, p # NULLPROC, ~ OnList(s.clockq, p)
    PROVE  SameDelta(s, ready(s, p)) /\ ready(s, p).preempt = s.preempt
<1> DEFINE m == [s EXCEPT !.pstate = [@ EXCEPT ![p] = "PRREADY"]]
<1>1. s \in SchedType /\ s.pstate \in [Pid -> States] /\ "PRREADY" \in States
  BY DEF SchedGood, SchedType, States
<1>2. m \in SchedType /\ m.clockq = s.clockq /\ m.qkey = s.qkey /\ m.preempt = s.preempt
  BY <1>1 DEF SchedType
<1>3. ready(s, p) = insert(m, p)
  BY KernelAssumption DEF ready, Pid, NULLPROC
<1> HIDE DEF m
<1>4. \A q \in Pid : q # p => insert(m, p).qkey[q] = m.qkey[q]
  BY <1>2, InsertFacts
<1>5. insert(m, p).clockq = m.clockq /\ insert(m, p).preempt = m.preempt
  BY <1>2 DEF insert, SchedType
<1> QED BY <1>2, <1>3, <1>4, <1>5 DEF SameDelta

-----------------------------------------------------------------------------
(* chprio(), and insertd() *)

(* chprio() moves a ready process to its new place and lets the processor go *)
(* to whoever deserves it now.                                               *)
LEMMA ReprioritiseKeeps ==
    ASSUME NEW s, Good(s), Running(s), Highest(s), NEW p \in Pid, NEW prio \in Int
    PROVE  LET m == [s EXCEPT !.pprio = [@ EXCEPT ![p] = prio]]
               t == Reprioritise(m, p)
           IN  /\ Good(t) /\ Running(t) /\ Highest(t)
               /\ t.pprio = [s.pprio EXCEPT ![p] = prio]
               /\ SameBlocked(s, t) /\ SameDelta(s, t) /\ Rearms(s, t)
               /\ ClockView(s) => ClockView(t)
<1> DEFINE pr == [s.pprio EXCEPT ![p] = prio]
           m == [s EXCEPT !.pprio = [@ EXCEPT ![p] = prio]]
           t == Reprioritise(m, p)
<1>1. SUFFICES /\ Good(t) /\ Running(t) /\ Highest(t) /\ t.pprio = pr
               /\ SameBlocked(s, t) /\ (ClockView(s) => ClockView(t))
               /\ SameDelta(s, t) /\ Rearms(s, t)
  OBVIOUS
<1>2. /\ s \in SchedType /\ ReadyListBut(s, BADPID) /\ s.pprio \in [Pid -> Int]
      /\ s.pstate \in [Pid -> States] /\ s.qkey \in [Pid -> Int] /\ s.currpid \in Pid
  BY DEF Good, SchedGood, SchedType
<1>3. pr \in [Pid -> Int] /\ pr[p] = prio /\ \A q \in Pid : q # p => pr[q] = s.pprio[q]
  BY <1>2
<1>4. m = [s EXCEPT !.pprio = pr]
  OBVIOUS
<1>5. /\ m.pstate = s.pstate /\ m.currpid = s.currpid /\ m.rdy = s.rdy
      /\ m.qkey = s.qkey /\ m.clockq = s.clockq /\ m.slnempty = s.slnempty
      /\ m.sltop = s.sltop /\ m.pprio = pr
  BY <1>2 DEF SchedType
<1> HIDE DEF pr
<1>6. m \in SchedType
  BY <1>2, <1>3, <1>4 DEF SchedType
<1> HIDE DEF m
<1>7. OneCurrent(m) /\ NullEligible(m) /\ ClockListBut(m, BADPID)
      /\ (ClockView(s) => ClockView(m))
  BY <1>5 DEF Good, SchedGood, OneCurrent, NullEligible, ClockListBut, ClockView
<1>8. CASE s.pstate[p] # "PRREADY"
  <2>1. ReadyListBut(m, BADPID)
    BY <1>2, <1>3, <1>5, <1>8, NullIsPid DEF ReadyListBut
  <2>2. Good(m)
    BY <1>6, <1>7, <2>1 DEF Good, SchedGood
  <2>3. CASE s.pstate[p] = "PRCURR"
    <3>1. t = resched(m)
      BY <1>5, <2>3 DEF Reprioritise
    <3>2. /\ Good(t) /\ Running(t) /\ Highest(t) /\ SameClock(m, t)
          /\ SameBlocked(m, t) /\ (ClockView(m) => ClockView(t))
      BY <2>2, <3>1, ReschedKeeps
    <3> HIDE DEF t
    <3>3. t.pprio = pr /\ SameBlocked(s, t)
      BY <1>5, <3>2 DEF SameClock, SameBlocked
    <3>4. SameDelta(m, t) /\ Fresh(t)
      BY <2>2, <3>1, ReschedFacts DEF t
    <3>5. SameDelta(s, t) /\ Rearms(s, t)
      BY <1>5, <3>4 DEF SameDelta, Rearms
    <3> QED BY <1>7, <3>2, <3>3, <3>5
  <2>4. CASE s.pstate[p] # "PRCURR"
    <3>1. t = m
      BY <1>5, <1>8, <2>4 DEF Reprioritise
    <3>2. Running(m) /\ SameBlocked(s, m) /\ p # s.currpid
      BY <1>5, <2>4 DEF Running, SameBlocked
    <3>3. Highest(m)
      BY <1>2, <1>3, <1>5, <1>8, <3>2 DEF Highest
    <3>4. SameDelta(s, m)
      BY <1>5 DEF SameDelta
    <3>5. Rearms(s, m)
      <4>1. \A q \in Pid : q # p => m.pprio[q] = s.pprio[q]
        BY <1>3, <1>5
      <4>2. Contended(m) => Contended(s)
        BY <1>2, <1>5, <1>8, <3>2, <4>1 DEF Contended
      <4>3. m.preempt = s.preempt
        BY <1>2 DEF SchedType, m
      <4> QED BY <4>2, <4>3 DEF Rearms
    <3> HIDE DEF t
    <3> QED BY <1>5, <1>7, <2>2, <3>1, <3>2, <3>3, <3>4, <3>5
  <2> QED BY <2>3, <2>4
<1>9. CASE s.pstate[p] = "PRREADY"
  <2> DEFINE u == [m EXCEPT !.rdy = dequeue(@, p)]
             v == insert(u, p)
  <2>1. t = resched(v)
    BY <1>5, <1>9 DEF Reprioritise
  <2>2. u \in SchedType /\ ReadyListBut(u, p)
    <3>1. u = [s EXCEPT !.rdy = dequeue(@, p), !.pstate = s.pstate, !.qkey = s.qkey,
                        !.pprio = pr]
      BY <1>2, <1>4 DEF SchedType
    <3>2. /\ s.pstate \in [Pid -> States] /\ s.qkey \in [Pid -> Int]
          /\ \A q \in Pid : q # p => /\ s.pstate[q] = s.pstate[q]
                                     /\ s.qkey[q] = s.qkey[q] /\ pr[q] = s.pprio[q]
      BY <1>2, <1>3
    <3> HIDE DEF u
    <3> QED BY <1>2, <1>3, <3>1, <3>2, UnlinkReady
  <2>3. /\ u.pstate = s.pstate /\ u.currpid = s.currpid /\ u.clockq = s.clockq
        /\ u.slnempty = s.slnempty /\ u.sltop = s.sltop /\ u.pprio = pr
        /\ u.qkey = s.qkey
    BY <1>5, <1>6 DEF SchedType
  <2> HIDE DEF u
  <2>4. \A q \in Pid : q # p => v.qkey[q] = s.qkey[q]
    BY <2>2, <2>3, InsertFacts
  <2>5. /\ v \in SchedType /\ ReadyListBut(v, BADPID) /\ v.pstate = u.pstate
        /\ v.currpid = u.currpid /\ SameClock(u, v)
    BY <1>9, <2>2, <2>3, InsertGood
  <2> HIDE DEF v
  <2>6. /\ OneCurrent(v) /\ NullEligible(v) /\ ClockListBut(v, BADPID)
        /\ (ClockView(s) => ClockView(v)) /\ v.pprio = pr /\ v.pstate = s.pstate
    BY <2>3, <2>5 DEF Good, SchedGood, OneCurrent, NullEligible, ClockListBut,
                      ClockView, SameClock
  <2>7. Good(v)
    BY <2>5, <2>6 DEF Good, SchedGood
  <2>8. /\ Good(t) /\ Running(t) /\ Highest(t) /\ SameClock(v, t)
        /\ SameBlocked(v, t) /\ (ClockView(v) => ClockView(t))
    BY <2>1, <2>7, ReschedKeeps
  <2> HIDE DEF t
  <2>9. t.pprio = pr /\ SameBlocked(s, t)
    BY <2>6, <2>8 DEF SameClock, SameBlocked
  <2>10. SameDelta(v, t) /\ Fresh(t)
    BY <2>1, <2>7, ReschedFacts DEF t
  <2>11. SameDelta(s, t) /\ Rearms(s, t)
    <3>1. v.clockq = s.clockq /\ ~ OnList(s.clockq, p)
      BY <1>9, <2>3, <2>5 DEF SameClock, Good, ClockListBut, Timed
    <3> QED BY <2>4, <2>10, <3>1 DEF SameDelta, Rearms
  <2> QED BY <2>6, <2>8, <2>9, <2>11
<1> QED BY <1>8, <1>9

(* insertd() links the running process, which then goes to sleep. *)
LEMMA LinkDeltaKeeps ==
    ASSUME NEW s, Good(s), Running(s), s.currpid # NULLPROC,
           NEW i \in 1 .. Len(s.clockq) + 1, NEW k \in Int, NEW st \in Timed
    PROVE  LET t == [LinkDelta(s, i, k) EXCEPT !.pstate = [@ EXCEPT ![s.currpid] = st]]
           IN  /\ Good(t) /\ t.pstate = [s.pstate EXCEPT ![s.currpid] = st]
               /\ t.pprio = s.pprio /\ ClockView(t)
<1> DEFINE c == s.currpid
           l == InsertAt(s.clockq, i, c)
           key == IF i <= Len(s.clockq)
                    THEN [s.qkey EXCEPT ![c] = k, ![s.clockq[i]] = @ - k]
                    ELSE [s.qkey EXCEPT ![c] = k]
           top == IF i = 1 THEN c ELSE s.clockq[1]
           f == [s.pstate EXCEPT ![c] = st]
           t == [LinkDelta(s, i, k) EXCEPT !.pstate = [@ EXCEPT ![s.currpid] = st]]
<1>1. /\ s \in SchedType /\ ReadyListBut(s, BADPID) /\ s.qkey \in [Pid -> Int]
      /\ s.pstate \in [Pid -> States] /\ c \in Pid /\ s.clockq \in Seq(Pid)
      /\ s.rdy \in Seq(Pid) /\ NoDup(s.clockq)
  BY DEF Good, SchedGood, SchedType, ClockListBut
<1>2. s.pstate[c] = "PRCURR" /\ ~ OnList(s.clockq, c)
  BY <1>1 DEF Running, Good, ClockListBut, Timed
<1>3. /\ l \in Seq(Pid) /\ NoDup(l) /\ Len(l) = Len(s.clockq) + 1
      /\ \A q \in Pid : OnList(l, q) <=> OnList(s.clockq, q) \/ q = c
  BY <1>1, <1>2, LinkFacts
<1>4. l[1] = top
  BY <1>1, <1>2, LinkFacts
<1>5. key \in [Pid -> Int] /\ \A q \in Pid : s.pstate[q] = "PRREADY" => key[q] = s.qkey[q]
  <2>1. CASE i <= Len(s.clockq)
    <3>1. i \in 1 .. Len(s.clockq) /\ s.clockq[i] \in Pid /\ s.clockq[i] # c
      BY <1>1, <1>2, <2>1 DEF OnList
    <3>2. s.pstate[s.clockq[i]] \in Timed
      BY <3>1 DEF OnList, Good, ClockListBut
    <3>3. key = [s.qkey EXCEPT ![c] = k, ![s.clockq[i]] = @ - k]
      BY <2>1
    <3> HIDE DEF key
    <3>4. s.qkey[s.clockq[i]] - k \in Int
      BY <1>1, <3>1
    <3>5. /\ key \in [Pid -> Int]
          /\ \A q \in Pid : q # c /\ q # s.clockq[i] => key[q] = s.qkey[q]
      BY <1>1, <3>1, <3>3, <3>4
    <3> QED BY <1>2, <3>2, <3>5 DEF Timed
  <2>2. CASE ~ (i <= Len(s.clockq))
    <3>1. key = [s.qkey EXCEPT ![c] = k]
      BY <2>2
    <3> HIDE DEF key
    <3> QED BY <1>1, <1>2, <3>1
  <2> QED BY <2>1, <2>2
<1>6. top \in Pid
  <2>1. l # <<>> /\ l[1] \in Pid
    BY <1>3
  <2> HIDE DEF top
  <2> QED BY <1>4, <2>1
<1>7. f \in [Pid -> States] /\ f[c] = st /\ \A q \in Pid : q # c => f[q] = s.pstate[q]
  BY <1>1, TimedNotEligible
<1>8. t = [s EXCEPT !.clockq = l, !.qkey = key, !.slnempty = TRUE, !.sltop = top,
                    !.pstate = f]
  <2>1. LinkDelta(s, i, k) = [s EXCEPT !.clockq = l, !.qkey = key, !.slnempty = TRUE,
                                       !.sltop = top]
    BY DEF LinkDelta
  <2>2. t = [LinkDelta(s, i, k) EXCEPT !.pstate = [@ EXCEPT ![c] = st]]
    OBVIOUS
  <2>3. LinkDelta(s, i, k).pstate = s.pstate
    BY <1>1 DEF LinkDelta, SchedType
  <2>4. t = [LinkDelta(s, i, k) EXCEPT !.pstate = f]
    BY <2>2, <2>3
  <2> HIDE DEF l, key, top, t, f
  <2> QED BY <2>1, <2>4
<1>9. /\ t.clockq = l /\ t.qkey = key /\ t.slnempty = TRUE /\ t.sltop = top
      /\ t.pstate = f /\ t.rdy = s.rdy /\ t.currpid = c /\ t.pprio = s.pprio
  BY <1>1, <1>8 DEF SchedType
<1>10. l # <<>>
  BY <1>1, <1>3
<1> HIDE DEF t, l, key, top, f
<1>11. t \in SchedType
  BY <1>3, <1>5, <1>6, <1>7, <1>8, <1>1 DEF SchedType
<1>12. ReadyListBut(t, BADPID)
  <2>1. \A j \in 1 .. Len(s.rdy) : s.rdy[j] \in Pid /\ key[s.rdy[j]] = s.qkey[s.rdy[j]]
    <3>1. SUFFICES ASSUME NEW j \in 1 .. Len(s.rdy)
                   PROVE  s.rdy[j] \in Pid /\ key[s.rdy[j]] = s.qkey[s.rdy[j]]
      OBVIOUS
    <3>2. s.rdy[j] \in Pid /\ OnList(s.rdy, s.rdy[j])
      BY <1>1 DEF OnList
    <3> QED BY <1>1, <1>5, <3>2 DEF ReadyListBut
  <2>2. SortedBy(s.rdy, key)
    BY <1>1, <2>1 DEF ReadyListBut, SortedBy
  <2>3. \A q \in Pid : f[q] = "PRREADY" <=> s.pstate[q] = "PRREADY"
    BY <1>2, <1>7 DEF Timed
  <2> QED BY <1>1, <1>5, <1>9, <2>2, <2>3 DEF ReadyListBut
<1>13. OneCurrent(t) /\ NullEligible(t)
  BY <1>7, <1>9, <1>2, TimedNotEligible, NullIsPid
     DEF Good, SchedGood, OneCurrent, NullEligible, Eligible
<1>14. ClockListBut(t, BADPID)
  BY <1>3, <1>7, <1>9, NullIsPid DEF Good, ClockListBut
<1>15. ClockView(t)
  BY <1>4, <1>9, <1>10 DEF ClockView
<1> QED BY <1>9, <1>11, <1>12, <1>13, <1>14, <1>15 DEF Good, SchedGood, t, f

-----------------------------------------------------------------------------
(* The inductive invariant *)

(* Types of what the scheduler's record does not hold *)
TableTypes ==
    /\ psem \in [Pid -> Sem]
    /\ pmsg \in [Pid -> Int] /\ phasmsg \in [Pid -> Int]
    /\ pnxtkin \in [Pid -> Int]
    /\ nextproc \in Pid /\ numproc \in Int /\ stkfree \in Nat
    /\ defclk \in Nat /\ clkdiff \in Nat
    /\ sstate \in [Sem -> {"SFREE", "SUSED"}]
    /\ semcnt \in [Sem -> Int] /\ squeue \in [Sem -> Seq(Pid)]
    /\ nextsem \in Sem
    /\ cont \in [Pid -> KopType] /\ due \in [Pid -> Int]
    /\ load \in Workloads

(* The queue of a semaphore holds the processes that wait for it, each once. *)
QueuesMatch ==
    \A s \in Sem : /\ NoDup(squeue[s])
                   /\ \A p \in Pid : OnList(squeue[s], p)
                                     <=> pstate[p] = "PRWAIT" /\ psem[p] = s

(* What a process inside the kernel still has to do makes sense. *)
Parked == \A p \in Pid : p # currpid => cont[p].op \in ParkedOps
KillTargets == \A p \in Pid : cont[p].op = "kill" => cont[p].a \in 1 .. NPROC - 1
LoopState ==
    LET c == cont[currpid]
    IN /\ c.op \in {"insertdS", "insertdR"} =>
            currpid # NULLPROC /\ c.a \in 1 .. Len(clockq) + 1
       /\ c.op \in {"signaln", "sreset"} => c.a \in Sem /\ sstate[c.a] = "SUSED" /\ c.n \in Nat
       /\ c.op = "sdelete" => c.a \in Sem /\ sstate[c.a] = "SFREE"
       /\ c.op = "makeup" => c.a \in Nat /\ c.a >= 1

(* Where the clock handler's view and the priority rule may be out of date *)
ViewStale == {"wakeupC", "wakeupS"}
RankStale == ViewStale \cup {"signaln", "sdelete", "sreset"}

IInv ==
    /\ TableTypes
    /\ Good(Sched) /\ Running(Sched)
    /\ QueuesMatch /\ SemCountMatchesQueue
    /\ Parked /\ KillTargets /\ LoopState
    /\ cont[currpid].op \notin ViewStale => ClockView(Sched)
    /\ cont[currpid].op \notin RankStale => Highest(Sched)

-----------------------------------------------------------------------------
(* What the steps of the proof have in common *)

AllCountsMatch ==
    \A s \in Sem : IF sstate[s] = "SFREE" \/ semcnt[s] >= 0
                     THEN squeue[s] = <<>> ELSE Len(squeue[s]) = - semcnt[s]

AllParked == \A p \in Pid : cont[p].op \in ParkedOps

LEMMA OpsApart == ParkedOps \cap LoopOps = {} /\ RankStale \subseteq LoopOps
  BY DEF ParkedOps, LoopOps, RankStale, ViewStale

(* The state after SchedIs(t) is t. *)
LEMMA SchedNext ==
    ASSUME NEW t \in SchedType, SchedIs(t), pprio' = t.pprio
    PROVE  Sched' = t
  BY DEF SchedIs, Sched, SchedType

LEMMA SchedSame ==
    ASSUME UNCHANGED <<schedVars, pprio>>
    PROVE  Sched' = Sched
  BY DEF schedVars, Sched

LEMMA SchedNow ==
    ASSUME Good(Sched), Running(Sched)
    PROVE  /\ Sched \in SchedType /\ Sched.pstate = pstate /\ Sched.currpid = currpid
           /\ Sched.clockq = clockq /\ Sched.pprio = pprio
           /\ currpid \in Pid /\ pstate \in [Pid -> States] /\ pstate[currpid] = "PRCURR"
           /\ pprio \in [Pid -> Int] /\ clockq \in Seq(Pid)
           /\ \A p \in Pid : OnList(clockq, p) <=> pstate[p] \in Timed
<1>1. Sched \in SchedType
  BY DEF Good, SchedGood
<1>2. \A p \in Pid : OnList(clockq, p) <=> pstate[p] \in Timed
  BY NullIsPid DEF Good, ClockListBut, Sched
<1> QED BY <1>1, <1>2 DEF Running, Sched, SchedType

(* When the current process is not in a loop of the kernel, nobody is. *)
LEMMA CurrentParked ==
    ASSUME IInv, cont[currpid].op \in ParkedOps
    PROVE  AllParked /\ AllCountsMatch /\ ClockView(Sched) /\ Highest(Sched)
<1>1. cont[currpid].op \notin RankStale /\ cont[currpid].op \notin ViewStale
      /\ cont[currpid].op \notin {"sdelete", "sreset"}
  BY OpsApart DEF RankStale, ViewStale, LoopOps
<1> QED BY <1>1 DEF IInv, AllParked, Parked, AllCountsMatch, SemCountMatchesQueue, Busy

(* A step that leaves every process parked has only these facts to keep. *)
LEMMA ParkedStep ==
    ASSUME TableTypes', Good(Sched'), Running(Sched'), Highest(Sched'),
           ClockView(Sched'), QueuesMatch', KillTargets', AllParked', AllCountsMatch'
    PROVE  IInv'
<1>1. currpid' \in Pid
  BY DEF Good, SchedGood, SchedType, Sched
<1>2. cont'[currpid'].op \in ParkedOps
  BY <1>1 DEF AllParked
<1>3. cont'[currpid'].op \notin LoopOps
  BY <1>2, OpsApart
<1>4. LoopState'
  BY <1>3 DEF LoopState, LoopOps
<1>5. SemCountMatchesQueue' /\ Parked'
  BY DEF SemCountMatchesQueue, AllCountsMatch, Parked, AllParked
<1> QED BY <1>4, <1>5 DEF IInv

(* A call that leaves the semaphores alone and nobody inside the kernel. *)
LEMMA QuietCall ==
    ASSUME IInv, cont[currpid] = InUser, UNCHANGED <<psem, cont, sstate, semcnt, squeue>>,
           TableTypes', Good(Sched'), Running(Sched'), Highest(Sched'), ClockView(Sched'),
           \A p \in Pid : pstate'[p] = "PRWAIT" <=> pstate[p] = "PRWAIT"
    PROVE  IInv'
<1>1. AllParked /\ AllCountsMatch
  BY CurrentParked DEF InUser, Kop, ParkedOps
<1>2. AllParked' /\ AllCountsMatch' /\ KillTargets'
  BY <1>1 DEF AllParked, AllCountsMatch, KillTargets, IInv
<1>3. QueuesMatch'
  BY DEF QueuesMatch, IInv
<1> QED BY <1>2, <1>3, ParkedStep

(* Where every call starts from *)
LEMMA UserFacts ==
    ASSUME IInv, cont[currpid] = InUser
    PROVE  /\ AllParked /\ AllCountsMatch /\ ClockView(Sched) /\ Highest(Sched)
           /\ TableTypes /\ Good(Sched) /\ Running(Sched) /\ QueuesMatch /\ KillTargets
  BY CurrentParked DEF InUser, Kop, ParkedOps, IInv

-----------------------------------------------------------------------------
(* Init *)

LEMMA InitGood == Init => IInv
<1> SUFFICES ASSUME Init PROVE IInv
  OBVIOUS
<1>1. /\ NPROC \in Nat /\ NPROC >= 2 /\ NSEM \in Nat /\ NSEM >= 1 /\ QUANTUM \in Int
      /\ load \in Workload /\ load \in Workloads
  BY KernelAssumption DEF Init
<1>2. NPROC - 1 \in Pid /\ NPROC - 2 \in Pid /\ 0 \in Pid /\ NPROC - 1 # 0 /\ NSEM - 1 \in Sem
      /\ 0 \in Sem /\ BADPID \in Int
  BY <1>1 DEF Pid, Sem, BADPID
<1>3. InUser \in KopType /\ InUser.op = "user"
  BY DEF InUser, Kop, KopType, ParkedOps
<1>4. TableTypes
  BY <1>1, <1>2, <1>3 DEF TableTypes, Init, Workload
<1>5. Sched \in SchedType
  BY SMTT(30), <1>1, <1>2 DEF Sched, SchedType, Init, States, NULLPROC, EMPTY, Workload
<1>6. ReadyListBut(Sched, BADPID)
  <2>1. \A q \in Pid : OnList(rdy, q) <=> q = NULLPROC
    BY DEF Init, OnList
  <2>2. NoDup(rdy) /\ SortedBy(rdy, qkey)
    BY DEF Init, NoDup, SortedBy
  <2> QED BY <1>1, <1>2, <2>1, <2>2 DEF ReadyListBut, Sched, Init, BADPID, NULLPROC, Pid
<1>7. OneCurrent(Sched) /\ NullEligible(Sched)
  BY <1>2 DEF OneCurrent, NullEligible, Sched, Init, NULLPROC, Eligible
<1>8. ClockListBut(Sched, BADPID) /\ ClockView(Sched)
  BY DEF ClockListBut, ClockView, Sched, Init, OnList, NoDup, Timed
<1>9. Running(Sched) /\ Highest(Sched)
  <2>1. pprio[NULLPROC] = 0 /\ pprio[NPROC - 1] \in Int /\ pprio[NPROC - 1] >= 0
    BY <1>1, <1>2 DEF Init, NULLPROC, Workload
  <2> QED BY <1>1, <1>2, <2>1 DEF Running, Highest, Sched, Init, NULLPROC
<1>10. QueuesMatch /\ SemCountMatchesQueue
  BY DEF QueuesMatch, SemCountMatchesQueue, Init, OnList, NoDup
<1>11. Parked /\ KillTargets /\ LoopState
  BY <1>2, <1>3 DEF Parked, KillTargets, LoopState, Init, ParkedOps
<1> QED BY <1>4, <1>5, <1>6, <1>7, <1>8, <1>9, <1>10, <1>11 DEF IInv, Good, SchedGood

-----------------------------------------------------------------------------
(* Calls of create.c, suspend.c, resume.c, chprio.c *)

(* newpid() finds a free slot when there is one. *)
LEMMA NewpidFree ==
    ASSUME TableTypes, NewSlots # {}
    PROVE  newpid \in Pid /\ pstate[newpid] = "PRFREE"
<1>1. NPROC \in Nat /\ NPROC >= 2 /\ nextproc \in Pid /\ Pid = 0 .. NPROC - 1
  BY KernelAssumption DEF TableTypes, Pid
<1>2. NewSlots \in SUBSET Nat
  BY <1>1 DEF NewSlots
<1>3. PICK k \in NewSlots : \A j \in NewSlots : k <= j
  BY <1>2, LeastElement
<1> DEFINE k0 == CHOOSE x \in NewSlots : \A j \in NewSlots : x <= j
<1>4. k0 \in NewSlots
  BY <1>3
<1>5. newpid = (nextproc - k0) % NPROC
  BY DEF newpid
<1> HIDE DEF k0
<1>6. k0 \in 0 .. NPROC - 1 /\ pstate[newpid] = "PRFREE"
  BY <1>4, <1>5 DEF NewSlots
<1>7. (nextproc - k0) % NPROC \in 0 .. NPROC - 1
  BY <1>1, <1>6
<1> QED BY <1>1, <1>5, <1>6, <1>7

LEMMA createStep ==
    ASSUME IInv, NEW prio \in load.prios, create(prio), UNCHANGED load
    PROVE  IInv'
<1>1. cont[currpid] = InUser /\ load.prios \subseteq Int
  BY KernelAssumption DEF create, Call, Interruptible, IInv, TableTypes, Workload
<1>2. /\ AllParked /\ AllCountsMatch /\ ClockView(Sched) /\ Highest(Sched)
      /\ TableTypes /\ Good(Sched) /\ Running(Sched) /\ QueuesMatch /\ KillTargets
  BY <1>1, UserFacts
<1>3. /\ Sched \in SchedType /\ currpid \in Pid /\ pstate \in [Pid -> States]
      /\ pstate[currpid] = "PRCURR" /\ pprio \in [Pid -> Int]
  BY <1>2, SchedNow
<1>4. NPROC \in Nat /\ NPROC >= 2 /\ nextproc \in Pid /\ Pid = 0 .. NPROC - 1
  BY <1>2, KernelAssumption DEF TableTypes, Pid
<1>5. NewSlots # {} => newpid \in Pid /\ pstate[newpid] = "PRFREE"
  BY <1>2, NewpidFree
<1>6. \A q \in Pid : PrevSlot(q) \in Pid
  BY <1>4 DEF PrevSlot
<1>7. CASE CreateFails(prio)
  <2>1. TableTypes'
    BY SMTT(30), <1>2, <1>5, <1>6, <1>7 DEF create, CreateFails, TableTypes, semVars, deferVars, procVars
  <2>2. Sched' = Sched /\ UNCHANGED <<psem, cont, sstate, semcnt, squeue, pstate>>
    BY <1>7 DEF create, CreateFails, Sched, procVars, semVars
  <2> QED BY <1>1, <1>2, <2>1, <2>2, QuietCall
<1>8. CASE FillEntry(prio)
  <2> DEFINE pid == newpid
  <2>1. pid \in Pid /\ pstate[pid] = "PRFREE" /\ pid # currpid
    BY <1>3, <1>5, <1>8 DEF FillEntry
  <2>2. pid # NULLPROC
    BY <1>2, <2>1 DEF Good, SchedGood, NullEligible, Sched, Eligible
  <2>3. /\ pstate' = [pstate EXCEPT ![pid] = "PRSUSP"] /\ pprio' = [pprio EXCEPT ![pid] = prio]
        /\ psem' = [psem EXCEPT ![pid] = 0] /\ cont' = [cont EXCEPT ![pid] = InUser]
        /\ UNCHANGED <<rdy, qkey, currpid, preempt, clockq, slnempty, sltop, semcnt, squeue, sstate>>
    BY <1>8 DEF create, FillEntry, semVars
  <2>4. TableTypes'
    <3>1. 0 \in Sem /\ InUser \in KopType /\ BADPID \in Int
      BY KernelAssumption DEF Sem, InUser, Kop, KopType, ParkedOps, BADPID
    <3>2. /\ nextproc' = PrevSlot(pid) /\ numproc' = numproc + 1
          /\ phasmsg' = [phasmsg EXCEPT ![pid] = 0] /\ pmsg' = pmsg
          /\ pnxtkin' = [pnxtkin EXCEPT ![pid] = BADPID]
          /\ stkfree > 0 /\ stkfree' = stkfree - 1
          /\ UNCHANGED <<defclk, clkdiff, due, nextsem>>
      BY <1>8 DEF create, FillEntry, semVars, deferVars
    <3> HIDE DEF pid
    <3>3. /\ psem \in [Pid -> Sem] /\ pmsg \in [Pid -> Int] /\ phasmsg \in [Pid -> Int]
          /\ pnxtkin \in [Pid -> Int] /\ cont \in [Pid -> KopType]
          /\ numproc \in Int /\ stkfree \in Nat
      BY <1>2 DEF TableTypes
    <3>4. psem' \in [Pid -> Sem]
      BY <2>3, <3>1, <3>3
    <3>5. pmsg' \in [Pid -> Int] /\ phasmsg' \in [Pid -> Int]
      <4>1. 0 \in Int
        OBVIOUS
      <4>2. pmsg' \in [Pid -> Int]
        BY <3>2, <3>3
      <4>3. phasmsg' \in [Pid -> Int]
        BY <3>2, <3>3, <4>1
      <4> QED BY <4>2, <4>3
    <3>6. pnxtkin' \in [Pid -> Int]
      BY <3>1, <3>2, <3>3
    <3>7. cont' \in [Pid -> KopType]
      BY <2>3, <3>1, <3>3
    <3>8. nextproc' \in Pid
      BY <1>6, <2>1, <3>2
    <3>9. numproc' \in Int /\ stkfree' \in Nat
      BY <3>2, <3>3
    <3> QED BY <1>2, <2>3, <3>2, <3>4, <3>5, <3>6, <3>7, <3>8, <3>9 DEF TableTypes
  <2> HIDE DEF pid
  <2>5. /\ pstate' \in [Pid -> States] /\ pstate'[pid] = "PRSUSP"
        /\ \A q \in Pid : q # pid => pstate'[q] = pstate[q] /\ pprio'[q] = pprio[q]
        /\ pprio' \in [Pid -> Int]
    BY <1>1, <1>3, <2>1, <2>3 DEF States
  <2>6. Sched' \in SchedType
    BY <1>3, <2>3, <2>5 DEF Sched, SchedType
  <2>7. ReadyListBut(Sched', BADPID)
    BY <1>2, <2>1, <2>3, <2>5 DEF Good, SchedGood, ReadyListBut, Sched
  <2>8. OneCurrent(Sched') /\ NullEligible(Sched') /\ Running(Sched') /\ Highest(Sched')
    BY <1>2, <1>3, <2>1, <2>2, <2>3, <2>5, NullIsPid
       DEF Good, SchedGood, OneCurrent, NullEligible, Running, Highest, Sched
  <2>9. ClockListBut(Sched', BADPID) /\ ClockView(Sched')
    BY <1>2, <2>1, <2>3, <2>5 DEF Good, ClockListBut, ClockView, Sched, Timed
  <2>10. QueuesMatch'
    BY <1>2, <2>1, <2>3, <2>4, <2>5 DEF QueuesMatch, TableTypes
  <2>11. AllParked' /\ KillTargets' /\ AllCountsMatch'
    BY <1>2, <2>1, <2>3 DEF AllParked, KillTargets, AllCountsMatch, TableTypes,
                            InUser, Kop, ParkedOps
  <2> QED BY <2>4, <2>6, <2>7, <2>8, <2>9, <2>10, <2>11, ParkedStep DEF Good, SchedGood
<1> QED BY <1>7, <1>8 DEF create

(* A quiet call whose new scheduler state is t *)
LEMMA SchedCall ==
    ASSUME IInv, cont[currpid] = InUser, UNCHANGED <<psem, cont, sstate, semcnt, squeue>>,
           TableTypes', NEW t, SchedIs(t), pprio' = t.pprio,
           Good(t), Running(t), Highest(t), ClockView(t),
           \A p \in Pid : t.pstate[p] = "PRWAIT" <=> pstate[p] = "PRWAIT"
    PROVE  IInv'
<1>1. Sched' = t
  BY SchedNext DEF Good, SchedGood
<1>2. pstate' = t.pstate
  BY DEF SchedIs
<1> QED BY <1>1, <1>2, QuietCall

LEMMA suspendStep ==
    ASSUME IInv, NEW pid \in Pid, suspend(pid), UNCHANGED load
    PROVE  IInv'
<1>1. /\ cont[currpid] = InUser /\ pid # NULLPROC /\ pstate[pid] \in Eligible
      /\ UNCHANGED <<psem, cont, sstate, semcnt, squeue, pprio>>
  BY DEF suspend, Call, Interruptible, Suspendable, Eligible, procVars, semVars
<1>2. /\ ClockView(Sched) /\ Highest(Sched) /\ TableTypes /\ Good(Sched) /\ Running(Sched)
  BY <1>1, UserFacts
<1>3. /\ Sched.pstate = pstate /\ Sched.currpid = currpid /\ Sched.pprio = pprio
      /\ Sched.clockq = clockq /\ currpid \in Pid /\ pstate[currpid] = "PRCURR"
      /\ pstate \in [Pid -> States] /\ \A p \in Pid : OnList(clockq, p) <=> pstate[p] \in Timed
  BY <1>2, SchedNow
<1>4. TableTypes'
  BY <1>2 DEF suspend, TableTypes, procVars, allocVars, deferVars, semVars
<1>5. "PRSUSP" \in States /\ "PRSUSP" \notin Eligible /\ "PRSUSP" \notin Timed
  BY DEF States, Eligible, Timed
<1>6. CASE pstate[pid] = "PRREADY"
  <2> DEFINE t == RemoveReady([Sched EXCEPT !.pstate = [@ EXCEPT ![pid] = "PRSUSP"]], pid)
  <2>1. SchedIs(t)
    BY <1>6 DEF suspend
  <2>2. /\ Good(t) /\ SameClock(Sched, t) /\ t.currpid = currpid
        /\ t.pstate = [pstate EXCEPT ![pid] = "PRSUSP"]
    <3>1. Sched.pstate[pid] = "PRREADY"
      BY <1>3, <1>6
    <3>2. /\ Good(t) /\ SameClock(Sched, t) /\ t.currpid = Sched.currpid
          /\ t.pstate = [Sched.pstate EXCEPT ![pid] = "PRSUSP"]
      BY <1>1, <1>2, <1>5, <3>1, RemoveReadyKeeps
    <3> QED BY <1>3, <3>2
  <2> HIDE DEF t
  <2>3. Running(t) /\ Highest(t) /\ t.pprio = pprio /\ ClockView(t)
    BY <1>2, <1>3, <1>6, <2>2, ViewKept DEF Running, Highest, SameClock
  <2>4. \A p \in Pid : t.pstate[p] = "PRWAIT" <=> pstate[p] = "PRWAIT"
    BY <1>3, <1>6, <2>2
  <2> QED BY <1>1, <1>4, <2>1, <2>2, <2>3, <2>4, SchedCall
<1>7. CASE pstate[pid] = "PRCURR"
  <2> DEFINE m == [Sched EXCEPT !.pstate = [@ EXCEPT ![pid] = "PRSUSP"]]
             t == resched(m)
  <2>1. SchedIs(t)
    BY <1>7 DEF suspend
  <2>2. ~ OnList(clockq, pid)
    BY <1>3, <1>7 DEF Timed
  <2>3. /\ SchedGood(m) /\ SameClock(Sched, m) /\ ClockListBut(m, BADPID)
        /\ m.pstate = [pstate EXCEPT ![pid] = "PRSUSP"]
    BY <1>1, <1>2, <1>3, <1>5, <1>7, <2>2, MarkKeeps
  <2> HIDE DEF m
  <2>4. Good(m) /\ ClockView(m)
    BY <1>2, <2>3, ViewKept DEF Good
  <2>5. /\ Good(t) /\ Running(t) /\ Highest(t) /\ ClockView(t)
        /\ SameClock(m, t) /\ SameBlocked(m, t)
    BY <2>4, ReschedKeeps
  <2> HIDE DEF t
  <2>6. pprio' = t.pprio
    BY <1>1, <1>3, <2>3, <2>5 DEF SameClock
  <2>7. \A p \in Pid : t.pstate[p] = "PRWAIT" <=> pstate[p] = "PRWAIT"
    BY <1>3, <1>7, <2>3, <2>5 DEF SameBlocked, Eligible
  <2> QED BY <1>1, <1>4, <2>1, <2>5, <2>6, <2>7, SchedCall
<1> QED BY <1>1, <1>6, <1>7 DEF Eligible

(* resume() and send(): a blocked process joins the ready list, then resched. *)
LEMMA WakeKeeps ==
    ASSUME NEW s, SchedGood(s), NEW p \in Pid, p # NULLPROC,
           s.pstate[p] \notin Eligible, s.pstate[p] # "PRWAIT", ClockListBut(s, p),
           ClockView(s)
    PROVE  LET t == resched(ready(s, p))
           IN  /\ Good(t) /\ Running(t) /\ Highest(t) /\ ClockView(t) /\ t.pprio = s.pprio
               /\ \A q \in Pid : t.pstate[q] = "PRWAIT" <=> s.pstate[q] = "PRWAIT"
<1> DEFINE r == ready(s, p)
           t == resched(r)
<1>1. /\ Good(r) /\ r.pstate = [s.pstate EXCEPT ![p] = "PRREADY"] /\ SameClock(s, r)
      /\ ClockView(r)
  BY ReadyKeeps
<1>2. s.pstate \in [Pid -> States]
  BY DEF SchedGood, SchedType
<1> HIDE DEF r
<1>3. /\ Good(t) /\ Running(t) /\ Highest(t) /\ SameClock(r, t) /\ SameBlocked(r, t)
      /\ ClockView(t)
  BY <1>1, ReschedKeeps
<1> HIDE DEF t
<1>4. t.pprio = s.pprio
  BY <1>1, <1>3 DEF SameClock
<1>5. \A q \in Pid : t.pstate[q] = "PRWAIT" <=> s.pstate[q] = "PRWAIT"
  BY <1>1, <1>2, <1>3 DEF SameBlocked, Eligible
<1> QED BY <1>3, <1>4, <1>5 DEF t, r

LEMMA resumeStep ==
    ASSUME IInv, NEW pid \in Pid, resume(pid), UNCHANGED load
    PROVE  IInv'
<1> DEFINE t == resched(ready(Sched, pid))
<1>1. /\ cont[currpid] = InUser /\ pid # NULLPROC /\ pstate[pid] = "PRSUSP" /\ SchedIs(t)
      /\ UNCHANGED <<psem, cont, sstate, semcnt, squeue, pprio>>
  BY DEF resume, Call, Interruptible, procVars, semVars
<1>2. /\ ClockView(Sched) /\ TableTypes /\ Good(Sched) /\ Running(Sched)
  BY <1>1, UserFacts
<1>3. Sched.pstate = pstate /\ Sched.pprio = pprio
  BY <1>2, SchedNow
<1>4. TableTypes'
  BY <1>2 DEF resume, TableTypes, procVars, allocVars, deferVars, semVars
<1>5. SchedGood(Sched) /\ ClockListBut(Sched, pid)
  BY <1>1, <1>2, <1>3, NullIsPid DEF Good, ClockListBut, Timed
<1>6. /\ Good(t) /\ Running(t) /\ Highest(t) /\ ClockView(t) /\ t.pprio = pprio
      /\ \A q \in Pid : t.pstate[q] = "PRWAIT" <=> pstate[q] = "PRWAIT"
  BY <1>1, <1>2, <1>3, <1>5, WakeKeeps DEF Eligible
<1> QED BY <1>1, <1>4, <1>6, SchedCall

LEMMA chprioStep ==
    ASSUME IInv, NEW pid \in Pid, NEW prio \in load.prios, chprio(pid, prio), UNCHANGED load
    PROVE  IInv'
<1> DEFINE m == [Sched EXCEPT !.pprio = [@ EXCEPT ![pid] = prio]]
           t == Reprioritise(m, pid)
<1>1. /\ cont[currpid] = InUser /\ SchedIs(t) /\ pprio' = [pprio EXCEPT ![pid] = prio]
      /\ UNCHANGED <<psem, cont, sstate, semcnt, squeue>>
  BY DEF chprio, Call, Interruptible, semVars
<1>2. ClockView(Sched) /\ Highest(Sched) /\ TableTypes /\ Good(Sched) /\ Running(Sched)
  BY <1>1, UserFacts
<1>3. Sched.pstate = pstate /\ Sched.pprio = pprio
  BY <1>2, SchedNow
<1>4. TableTypes' /\ prio \in Int
  BY <1>2, KernelAssumption
     DEF chprio, TableTypes, msgVars, allocVars, deferVars, semVars, Workload
<1>5. /\ Good(t) /\ Running(t) /\ Highest(t) /\ t.pprio = [pprio EXCEPT ![pid] = prio]
      /\ SameBlocked(Sched, t) /\ ClockView(t)
  BY <1>2, <1>3, <1>4, ReprioritiseKeeps
<1> HIDE DEF t
<1>6. \A q \in Pid : t.pstate[q] = "PRWAIT" <=> pstate[q] = "PRWAIT"
  BY <1>3, <1>5 DEF SameBlocked, Eligible
<1> QED BY <1>1, <1>4, <1>5, <1>6, SchedCall

(* Calls that change a table only *)
LEMMA TableCall ==
    ASSUME IInv, cont[currpid] = InUser, UNCHANGED <<psem, cont, sstate, semcnt, squeue>>,
           UNCHANGED <<schedVars, pprio>>, TableTypes'
    PROVE  IInv'
<1>1. Sched' = Sched /\ pstate' = pstate
  BY SchedSame DEF schedVars
<1>2. ClockView(Sched) /\ Highest(Sched) /\ Good(Sched) /\ Running(Sched)
  BY UserFacts
<1> QED BY <1>1, <1>2, QuietCall

LEMMA setnokStep ==
    ASSUME IInv, NEW pid \in Pid, NEW nok \in load.kin, setnok(nok, pid), UNCHANGED load
    PROVE  IInv'
<1>1. nok \in Int
  BY KernelAssumption DEF IInv, TableTypes, Workload
<1>2. TableTypes'
  BY <1>1 DEF IInv, setnok, TableTypes, msgVars, allocVars, deferVars, semVars
<1> QED BY <1>2, TableCall DEF setnok, Call, Interruptible, semVars

LEMMA MessageTaken ==
    ASSUME IInv, TakeMessage
    PROVE  phasmsg' \in [Pid -> Int]
<1>1. phasmsg \in [Pid -> Int] /\ currpid \in Pid
  BY SchedNow DEF IInv, TableTypes
<1> QED BY <1>1 DEF TakeMessage

LEMMA recvclrStep ==
    ASSUME IInv, recvclr, UNCHANGED load
    PROVE  IInv'
<1>1. TableTypes'
  <2>1. TableTypes
    BY DEF IInv
  <2>2. phasmsg' \in [Pid -> Int]
    BY MessageTaken DEF recvclr
  <2> QED BY <2>1, <2>2 DEF recvclr, TableTypes, allocVars, deferVars, semVars
<1> QED BY <1>1, TableCall DEF recvclr, Call, Interruptible, semVars

-----------------------------------------------------------------------------
(* Messages: send.c, sendf.c, receive.c, recvtim.c; the end of a wait *)

LEMMA AfterSendGood ==
    ASSUME Good(Sched), Running(Sched), Highest(Sched), ClockView(Sched),
           NEW pid \in Pid, pid # NULLPROC
    PROVE  LET t == AfterSend(pid)
           IN  /\ Good(t) /\ Running(t) /\ Highest(t) /\ ClockView(t) /\ t.pprio = pprio
               /\ \A q \in Pid : t.pstate[q] = "PRWAIT" <=> pstate[q] = "PRWAIT"
<1> DEFINE t == AfterSend(pid)
<1>1. /\ Sched \in SchedType /\ Sched.pstate = pstate /\ Sched.pprio = pprio
      /\ Sched.clockq = clockq
      /\ \A p \in Pid : OnList(clockq, p) <=> pstate[p] \in Timed
  BY SchedNow
<1>2. CASE pstate[pid] = "PRRECV"
  <2>1. t = resched(ready(Sched, pid))
    BY <1>2 DEF AfterSend
  <2>2. SchedGood(Sched) /\ ClockListBut(Sched, pid)
    BY <1>1, <1>2, NullIsPid DEF Good, ClockListBut, Timed
  <2>3. Sched.pstate[pid] = "PRRECV"
    BY <1>1, <1>2
  <2> HIDE DEF t
  <2> QED BY <1>1, <2>1, <2>2, <2>3, WakeKeeps DEF t, Eligible
<1>3. CASE pstate[pid] = "PRTRECV"
  <2> DEFINE u == unsleep(Sched, pid)
  <2>1. t = resched(ready(u, pid))
    BY <1>3 DEF AfterSend
  <2>2. OnList(clockq, pid)
    BY <1>1, <1>3 DEF Timed
  <2>3. /\ SchedGood(u) /\ u.pstate = pstate /\ u.pprio = pprio /\ NoDup(u.clockq)
        /\ \A q \in Pid : OnList(u.clockq, q) <=> OnList(clockq, q) /\ q # pid
        /\ ClockView(u)
    <3>1. SchedGood(Sched) /\ NoDup(Sched.clockq) /\ OnList(Sched.clockq, pid)
      BY <1>1, <2>2 DEF Good, ClockListBut
    <3>2. \A q \in Pid : OnList(Sched.clockq, q) => Sched.pstate[q] # "PRREADY"
      BY <1>1 DEF Timed
    <3> QED BY <1>1, <3>1, <3>2, UnsleepKeeps
  <2> HIDE DEF u
  <2>4. ClockListBut(u, pid)
    BY <1>1, <2>3 DEF ClockListBut
  <2>5. u.pstate[pid] = "PRTRECV"
    BY <1>3, <2>3
  <2> HIDE DEF t
  <2>6. /\ Good(t) /\ Running(t) /\ Highest(t) /\ ClockView(t) /\ t.pprio = u.pprio
        /\ \A q \in Pid : t.pstate[q] = "PRWAIT" <=> u.pstate[q] = "PRWAIT"
    BY <2>1, <2>3, <2>4, <2>5, WakeKeeps DEF Eligible
  <2> QED BY <2>3, <2>6 DEF t
<1>4. CASE pstate[pid] # "PRRECV" /\ pstate[pid] # "PRTRECV"
  <2>1. t = Sched
    BY <1>4 DEF AfterSend
  <2> QED BY <1>1, <2>1
<1> QED BY <1>2, <1>3, <1>4

LEMMA SendEffectGood ==
    ASSUME IInv, ClockView(Sched), Highest(Sched), NEW pid, NEW msg \in Int,
           SendEffect(pid, msg), UNCHANGED pprio
    PROVE  /\ Good(Sched') /\ Running(Sched') /\ Highest(Sched') /\ ClockView(Sched')
           /\ \A q \in Pid : pstate'[q] = "PRWAIT" <=> pstate[q] = "PRWAIT"
           /\ pmsg' \in [Pid -> Int] /\ phasmsg' \in [Pid -> Int] /\ due' \in [Pid -> Int]
<1>1. /\ Good(Sched) /\ Running(Sched)
      /\ pmsg \in [Pid -> Int] /\ phasmsg \in [Pid -> Int] /\ due \in [Pid -> Int]
  BY DEF IInv, TableTypes
<1>2. CASE Sendable(pid)
  <2> DEFINE t == AfterSend(pid)
  <2>1. /\ pid \in Pid /\ pid # NULLPROC /\ SchedIs(t)
        /\ pmsg' = [pmsg EXCEPT ![pid] = msg] /\ phasmsg' = [phasmsg EXCEPT ![pid] = 1]
        /\ (due' = [due EXCEPT ![pid] = 0] \/ due' = due)
    BY <1>2, KernelAssumption DEF SendEffect, Sendable, Pid, NULLPROC
  <2>2. /\ Good(t) /\ Running(t) /\ Highest(t) /\ ClockView(t) /\ t.pprio = pprio
        /\ \A q \in Pid : t.pstate[q] = "PRWAIT" <=> pstate[q] = "PRWAIT"
    BY <1>1, <2>1, AfterSendGood
  <2> HIDE DEF t
  <2>3. Sched' = t /\ pstate' = t.pstate
    BY <2>1, <2>2, SchedNext DEF Good, SchedGood, SchedIs
  <2>4. pmsg' \in [Pid -> Int] /\ phasmsg' \in [Pid -> Int] /\ due' \in [Pid -> Int]
    BY <1>1, <2>1
  <2> QED BY <2>2, <2>3, <2>4
<1>3. CASE ~ Sendable(pid)
  <2>1. UNCHANGED <<schedVars, pprio>> /\ UNCHANGED <<pmsg, phasmsg, due>>
    BY <1>3 DEF SendEffect, msgVars
  <2>2. Sched' = Sched /\ pstate' = pstate
    BY <2>1, SchedSame DEF schedVars
  <2> QED BY <1>1, <2>1, <2>2
<1> QED BY <1>2, <1>3

LEMMA sendStep ==
    ASSUME IInv, NEW pid \in Pid, NEW msg \in load.msgs, send(pid, msg), UNCHANGED load
    PROVE  IInv'
<1>1. /\ cont[currpid] = InUser /\ SendEffect(pid, msg)
      /\ UNCHANGED <<psem, cont, sstate, semcnt, squeue, pprio>>
  BY DEF send, Interruptible, semVars
<1>2. ClockView(Sched) /\ Highest(Sched) /\ TableTypes
  BY <1>1, UserFacts
<1>3. msg \in Int
  BY <1>2, KernelAssumption DEF TableTypes, Workload
<1>4. /\ Good(Sched') /\ Running(Sched') /\ Highest(Sched') /\ ClockView(Sched')
      /\ \A q \in Pid : pstate'[q] = "PRWAIT" <=> pstate[q] = "PRWAIT"
      /\ pmsg' \in [Pid -> Int] /\ phasmsg' \in [Pid -> Int] /\ due' \in [Pid -> Int]
  BY <1>1, <1>2, <1>3, SendEffectGood
<1>5. TableTypes'
  BY <1>2, <1>4 DEF send, TableTypes, allocVars, deferVars, semVars
<1> QED BY <1>1, <1>4, <1>5, QuietCall

LEMMA sendfStep ==
    ASSUME IInv, NEW pid \in Pid, NEW msg \in load.msgs, sendf(pid, msg), UNCHANGED load
    PROVE  IInv'
<1> DEFINE t == IF pstate[pid] = "PRRECV" THEN resched(ready(Sched, pid)) ELSE Sched
<1>1. /\ cont[currpid] = InUser /\ pid # NULLPROC /\ SchedIs(t)
      /\ UNCHANGED <<psem, cont, sstate, semcnt, squeue, pprio>>
      /\ pmsg' = [pmsg EXCEPT ![pid] = msg]
      /\ phasmsg' = [phasmsg EXCEPT ![pid] = (@ + 1) % PHMOD]
  BY DEF sendf, Call, Interruptible, semVars
<1>2. ClockView(Sched) /\ Highest(Sched) /\ TableTypes /\ Good(Sched) /\ Running(Sched)
  BY <1>1, UserFacts
<1>3. Sched.pstate = pstate /\ Sched.pprio = pprio
  BY <1>2, SchedNow
<1>4. TableTypes'
  <2>1. msg \in Int /\ PHMOD \in Nat /\ PHMOD > 0
    BY <1>2, KernelAssumption DEF TableTypes, Workload
  <2>2. phasmsg[pid] + 1 \in Int /\ pmsg \in [Pid -> Int] /\ phasmsg \in [Pid -> Int]
    BY <1>2 DEF TableTypes
  <2>3. (phasmsg[pid] + 1) % PHMOD \in Int
    BY <2>1, <2>2
  <2>4. pmsg' \in [Pid -> Int] /\ phasmsg' \in [Pid -> Int]
    BY <1>1, <2>1, <2>2, <2>3
  <2> QED BY <1>2, <2>4 DEF sendf, TableTypes, allocVars, deferVars, semVars
<1>5. /\ Good(t) /\ Running(t) /\ Highest(t) /\ ClockView(t) /\ t.pprio = pprio
      /\ \A q \in Pid : t.pstate[q] = "PRWAIT" <=> pstate[q] = "PRWAIT"
  <2>1. CASE pstate[pid] = "PRRECV"
    <3>1. SchedGood(Sched) /\ ClockListBut(Sched, pid) /\ Sched.pstate[pid] = "PRRECV"
      BY <1>2, <1>3, <2>1, NullIsPid DEF Good, ClockListBut, Timed
    <3>2. t = resched(ready(Sched, pid))
      BY <2>1
    <3> HIDE DEF t
    <3> QED BY <1>1, <1>2, <1>3, <3>1, <3>2, WakeKeeps DEF Eligible
  <2>2. CASE pstate[pid] # "PRRECV"
    <3>1. t = Sched
      BY <2>2
    <3> HIDE DEF t
    <3> QED BY <1>2, <1>3, <3>1
  <2> QED BY <2>1, <2>2
<1> HIDE DEF t
<1> QED BY <1>1, <1>4, <1>5, SchedCall

-----------------------------------------------------------------------------
(* Continuations *)

LEMMA KopFacts ==
    ASSUME NEW op, NEW a, NEW n
    PROVE  /\ Kop(op, a, n).op = op /\ Kop(op, a, n).a = a /\ Kop(op, a, n).n = n
           /\ op \in ParkedOps \cup LoopOps /\ a \in Int /\ n \in Int => Kop(op, a, n) \in KopType
  BY DEF Kop, KopType

LEMMA UserIsParked == InUser \in KopType /\ InUser.op = "user" /\ "user" \in ParkedOps
  BY KopFacts DEF InUser, ParkedOps

(* The current process goes on to something that may wait for its turn. *)
LEMMA GotoParked ==
    ASSUME IInv, NEW k \in KopType, k.op \in ParkedOps,
           k.op = "kill" => k.a \in 1 .. NPROC - 1, Goto(k)
    PROVE  cont' \in [Pid -> KopType] /\ AllParked' /\ KillTargets'
<1>1. currpid \in Pid /\ cont \in [Pid -> KopType]
  BY SchedNow DEF IInv, TableTypes
<1>2. /\ cont' \in [Pid -> KopType] /\ cont'[currpid] = k
      /\ \A p \in Pid : p # currpid => cont'[p] = cont[p]
  BY <1>1 DEF Goto
<1> QED BY <1>1, <1>2 DEF IInv, Parked, AllParked, KillTargets

(* The current process enters, or goes on in, a loop of the kernel. *)
LEMMA GotoLoop ==
    ASSUME IInv, NEW k \in KopType, k.op \in LoopOps, Goto(k), UNCHANGED currpid
    PROVE  cont' \in [Pid -> KopType] /\ Parked' /\ KillTargets' /\ cont'[currpid'] = k
<1>1. currpid \in Pid /\ cont \in [Pid -> KopType]
  BY SchedNow DEF IInv, TableTypes
<1>2. /\ cont' \in [Pid -> KopType] /\ cont'[currpid] = k
      /\ \A p \in Pid : p # currpid => cont'[p] = cont[p]
  BY <1>1 DEF Goto
<1>3. k.op # "kill"
  BY DEF LoopOps
<1> QED BY <1>1, <1>2, <1>3 DEF IInv, Parked, KillTargets

(* The running process blocks and another one is dispatched. *)
LEMMA BlockGood ==
    ASSUME Good(Sched), Running(Sched), ClockView(Sched), currpid # NULLPROC,
           NEW st \in States, st \notin Eligible, st \notin Timed
    PROVE  LET t == resched([Sched EXCEPT !.pstate = [@ EXCEPT ![currpid] = st]])
           IN  /\ Good(t) /\ Running(t) /\ Highest(t) /\ ClockView(t) /\ t.pprio = pprio
               /\ \A q \in Pid : t.pstate[q] = "PRWAIT"
                     <=> IF q = currpid THEN st = "PRWAIT" ELSE pstate[q] = "PRWAIT"
<1> DEFINE m == [Sched EXCEPT !.pstate = [@ EXCEPT ![currpid] = st]]
           t == resched(m)
<1>1. SUFFICES /\ Good(t) /\ Running(t) /\ Highest(t) /\ ClockView(t) /\ t.pprio = pprio
               /\ \A q \in Pid : t.pstate[q] = "PRWAIT"
                     <=> IF q = currpid THEN st = "PRWAIT" ELSE pstate[q] = "PRWAIT"
  OBVIOUS
<1>2. /\ Sched.pstate = pstate /\ Sched.pprio = pprio /\ Sched.clockq = clockq
      /\ currpid \in Pid /\ pstate \in [Pid -> States] /\ pstate[currpid] = "PRCURR"
      /\ \A p \in Pid : OnList(clockq, p) <=> pstate[p] \in Timed
  BY SchedNow
<1>3. ~ OnList(Sched.clockq, currpid) /\ Sched.pstate[currpid] # "PRREADY"
  BY <1>2 DEF Timed
<1>4. /\ SchedGood(m) /\ SameClock(Sched, m) /\ ClockListBut(m, BADPID)
      /\ m.pstate = [Sched.pstate EXCEPT ![currpid] = st]
  BY <1>2, <1>3, MarkKeeps
<1> HIDE DEF m
<1>5. Good(m) /\ ClockView(m)
  BY <1>4, ViewKept DEF Good
<1>6. /\ Good(t) /\ Running(t) /\ Highest(t) /\ ClockView(t)
      /\ SameClock(m, t) /\ SameBlocked(m, t)
  BY <1>5, ReschedKeeps
<1> HIDE DEF t
<1>7. t.pprio = pprio
  BY <1>2, <1>4, <1>6 DEF SameClock
<1>8. \A q \in Pid : t.pstate[q] = "PRWAIT" <=> m.pstate[q] = "PRWAIT"
  BY <1>6 DEF SameBlocked, Eligible
<1>9. \A q \in Pid : m.pstate[q] = IF q = currpid THEN st ELSE pstate[q]
  BY <1>2, <1>4
<1> QED BY <1>6, <1>7, <1>8, <1>9

(* A step to a good scheduler state t in which everybody is parked and the *)
(* semaphores are as before.                                               *)
LEMMA ParkedSched ==
    ASSUME IInv, UNCHANGED <<psem, sstate, semcnt, squeue>>, AllCountsMatch,
           TableTypes', AllParked', KillTargets', NEW t, SchedIs(t), pprio' = t.pprio,
           Good(t), Running(t), Highest(t), ClockView(t),
           \A p \in Pid : t.pstate[p] = "PRWAIT" <=> pstate[p] = "PRWAIT"
    PROVE  IInv'
<1>1. Sched' = t
  BY SchedNext DEF Good, SchedGood
<1>2. pstate' = t.pstate
  BY DEF SchedIs
<1>3. QueuesMatch'
  BY <1>2 DEF QueuesMatch, IInv
<1>4. AllCountsMatch'
  BY DEF AllCountsMatch
<1> QED BY <1>1, <1>3, <1>4, ParkedStep

LEMMA receiveStep ==
    ASSUME IInv, receive, UNCHANGED load
    PROVE  IInv'
<1>1. /\ cont[currpid] = InUser /\ currpid # NULLPROC
      /\ UNCHANGED <<psem, sstate, semcnt, squeue, pprio>>
  BY DEF receive, Call, Interruptible, semVars
<1>2. /\ AllCountsMatch /\ ClockView(Sched) /\ TableTypes /\ Good(Sched) /\ Running(Sched)
  BY <1>1, UserFacts
<1>3. CASE phasmsg[currpid] # 0
  <2>1. phasmsg' \in [Pid -> Int]
    BY <1>3, MessageTaken DEF receive
  <2>2. TableTypes'
    BY <1>2, <1>3, <2>1 DEF receive, TableTypes, allocVars, deferVars, semVars
  <2> QED BY <1>1, <1>3, <2>2, TableCall DEF receive
<1>4. CASE ~ (phasmsg[currpid] # 0)
  <2> DEFINE t == resched([Sched EXCEPT !.pstate = [@ EXCEPT ![currpid] = "PRRECV"]])
  <2>1. SchedIs(t) /\ Goto(Kop("receive", 0, 0)) /\ phasmsg' = phasmsg
    BY <1>4 DEF receive
  <2>2. "PRRECV" \in States /\ "PRRECV" \notin Eligible /\ "PRRECV" \notin Timed
    BY DEF States, Eligible, Timed
  <2>3. /\ Good(t) /\ Running(t) /\ Highest(t) /\ ClockView(t) /\ t.pprio = pprio
        /\ \A q \in Pid : t.pstate[q] = "PRWAIT"
              <=> IF q = currpid THEN "PRRECV" = "PRWAIT" ELSE pstate[q] = "PRWAIT"
    BY <1>1, <1>2, <2>2, BlockGood
  <2> HIDE DEF t
  <2>4. \A q \in Pid : t.pstate[q] = "PRWAIT" <=> pstate[q] = "PRWAIT"
    BY <1>2, <2>3, SchedNow
  <2>5. cont' \in [Pid -> KopType] /\ AllParked' /\ KillTargets'
    <3>1. Kop("receive", 0, 0) \in KopType /\ Kop("receive", 0, 0).op = "receive"
      BY KopFacts DEF ParkedOps
    <3> QED BY <2>1, <3>1, GotoParked DEF ParkedOps
  <2>6. TableTypes'
    BY <1>2, <2>1, <2>5 DEF receive, TableTypes, allocVars, deferVars, semVars
  <2> QED BY <1>1, <1>2, <2>1, <2>3, <2>4, <2>5, <2>6, ParkedSched
<1> QED BY <1>3, <1>4

LEMMA receiveFinishStep ==
    ASSUME IInv, receiveFinish, UNCHANGED load
    PROVE  IInv'
<1>1. cont[currpid].op \in ParkedOps /\ Goto(InUser) /\ UNCHANGED <<schedVars, pprio>>
  BY DEF receiveFinish, In, ParkedOps
<1>2. AllCountsMatch /\ ClockView(Sched) /\ Highest(Sched)
  BY <1>1, CurrentParked
<1>3. cont' \in [Pid -> KopType] /\ AllParked' /\ KillTargets'
  BY <1>1, UserIsParked, GotoParked
<1>4. TableTypes'
  <2>1. TableTypes /\ phasmsg' \in [Pid -> Int]
    BY MessageTaken DEF IInv, receiveFinish
  <2> QED BY <1>3, <2>1 DEF receiveFinish, TableTypes, allocVars, deferVars, semVars
<1>5. Sched' = Sched /\ pstate' = pstate
  BY <1>1, SchedSame DEF schedVars
<1>6. QueuesMatch' /\ AllCountsMatch'
  BY <1>2, <1>5 DEF IInv, QueuesMatch, AllCountsMatch, receiveFinish, semVars
<1> QED BY <1>2, <1>3, <1>4, <1>5, <1>6, ParkedStep DEF IInv

-----------------------------------------------------------------------------
(* Timed waits: recvtim.c, sleep10.c, insertd.c *)

(* From user code into a loop that has not changed the scheduler yet *)
LEMMA EnterLoop ==
    ASSUME IInv, cont[currpid] = InUser, TableTypes', UNCHANGED <<schedVars, pprio>>,
           UNCHANGED <<psem, semcnt, squeue>>, NEW k \in KopType, k.op \in LoopOps,
           k.op \notin ViewStale, Goto(k), LoopState',
           \A s \in Sem : sstate'[s] = sstate[s] \/ (k.op = "sdelete" /\ k.a = s)
    PROVE  IInv'
<1>1. /\ AllCountsMatch /\ ClockView(Sched) /\ Highest(Sched) /\ Good(Sched) /\ Running(Sched)
      /\ QueuesMatch
  BY UserFacts
<1>2. Sched' = Sched /\ pstate' = pstate /\ currpid' = currpid
  BY SchedSame DEF schedVars
<1>3. Parked' /\ KillTargets' /\ cont'[currpid'] = k
  BY <1>2, GotoLoop
<1>4. QueuesMatch'
  BY <1>1, <1>2 DEF QueuesMatch
<1>5. SemCountMatchesQueue'
  BY <1>1, <1>3 DEF AllCountsMatch, SemCountMatchesQueue, Busy
<1> QED BY <1>1, <1>2, <1>3, <1>4, <1>5 DEF IInv

LEMMA InsertdEntry ==
    ASSUME IInv, cont[currpid] = InUser, currpid # NULLPROC,
           NEW op \in {"insertdS", "insertdR"}, NEW n \in load.delays,
           Goto(Kop(op, 1, n)), due' = [due EXCEPT ![currpid] = n],
           UNCHANGED <<schedVars, procVars, allocVars, deferVars, semVars, load>>
    PROVE  IInv'
<1>1. TableTypes /\ n \in Nat /\ clockq \in Seq(Pid) /\ currpid \in Pid
  BY SchedNow, KernelAssumption DEF IInv, TableTypes, Workload
<1> DEFINE k == Kop(op, 1, n)
<1>2. /\ k \in KopType /\ k.op = op /\ k.a = 1 /\ k.op \in LoopOps /\ k.op \notin ViewStale
      /\ k.op \notin {"signaln", "sreset", "sdelete", "makeup"}
  BY <1>1, KopFacts DEF LoopOps, ViewStale
<1> HIDE DEF k
<1>3. currpid' = currpid /\ clockq' = clockq
  BY DEF schedVars
<1>4. cont' \in [Pid -> KopType] /\ cont'[currpid'] = k
  BY <1>2, <1>3, GotoLoop DEF k
<1>5. due' \in [Pid -> Int]
  BY <1>1 DEF TableTypes
<1>6. TableTypes'
  BY <1>1, <1>4, <1>5 DEF TableTypes, procVars, allocVars, deferVars, semVars
<1>7. LoopState'
  <2>1. 1 \in 1 .. Len(clockq) + 1
    BY <1>1
  <2> QED BY <1>2, <1>3, <1>4, <2>1 DEF LoopState
<1> QED BY <1>2, <1>6, <1>7, EnterLoop DEF k, procVars, semVars

LEMMA recvtimStep ==
    ASSUME IInv, NEW n \in load.delays, recvtim(n), UNCHANGED load
    PROVE  IInv'
<1>1. /\ cont[currpid] = InUser /\ currpid # NULLPROC
      /\ UNCHANGED <<pprio, psem, pmsg, pnxtkin, schedVars, allocVars, deferVars, semVars>>
  BY DEF recvtim, Call, Interruptible
<1>2. CASE phasmsg[currpid] # 0
  <2>1. TableTypes /\ phasmsg' \in [Pid -> Int]
    BY <1>2, MessageTaken DEF recvtim, IInv
  <2>2. TableTypes'
    BY <1>2, <2>1 DEF recvtim, TableTypes, allocVars, deferVars, semVars
  <2> QED BY <1>1, <1>2, <2>2, TableCall DEF recvtim, semVars
<1>3. CASE ~ (phasmsg[currpid] # 0)
  BY <1>1, <1>3, InsertdEntry DEF recvtim, procVars
<1> QED BY <1>2, <1>3

LEMMA sleep10Step ==
    ASSUME IInv, NEW n \in load.delays, sleep10(n), UNCHANGED load
    PROVE  IInv'
<1>1. /\ cont[currpid] = InUser /\ currpid # NULLPROC
      /\ UNCHANGED <<procVars, allocVars, deferVars, semVars>>
  BY DEF sleep10, Call, Interruptible
<1>2. CASE n = 0
  <2> DEFINE t == resched(Sched)
  <2>1. SchedIs(t) /\ UNCHANGED <<cont, due>>
    BY <1>2 DEF sleep10
  <2>2. ClockView(Sched) /\ TableTypes /\ Good(Sched) /\ Running(Sched)
    BY <1>1, UserFacts
  <2>3. /\ Good(t) /\ Running(t) /\ Highest(t) /\ ClockView(t)
        /\ SameClock(Sched, t) /\ SameBlocked(Sched, t)
    BY <2>2, ReschedKeeps
  <2> HIDE DEF t
  <2>4. pprio' = t.pprio /\ \A q \in Pid : t.pstate[q] = "PRWAIT" <=> pstate[q] = "PRWAIT"
    BY <1>1, <2>2, <2>3, SchedNow DEF SameClock, SameBlocked, Eligible, procVars
  <2>5. TableTypes'
    BY <1>1, <2>1, <2>2 DEF TableTypes, procVars, allocVars, deferVars, semVars
  <2> QED BY <1>1, <2>1, <2>3, <2>4, <2>5, SchedCall DEF procVars, semVars
<1>3. CASE n # 0
  BY <1>1, <1>3, InsertdEntry DEF sleep10
<1> QED BY <1>2, <1>3

LEMMA insertdLoopStep ==
    ASSUME IInv, insertdLoop, UNCHANGED load
    PROVE  IInv'
<1> DEFINE c == cont[currpid]
           st == IF c.op = "insertdS" THEN "PRSLEEP" ELSE "PRTRECV"
           k == IF c.op = "insertdS" THEN InUser ELSE Kop("recvtim", 0, 0)
           t == resched([LinkDelta(Sched, c.a, c.n) EXCEPT
                            !.pstate = [@ EXCEPT ![currpid] = st]])
<1>1. c.op \in {"insertdS", "insertdR"}
      /\ UNCHANGED <<procVars, allocVars, deferVars, semVars, due>>
  BY DEF insertdLoop, In
<1>2. /\ TableTypes /\ Good(Sched) /\ Running(Sched) /\ QueuesMatch
      /\ currpid # NULLPROC /\ c.a \in 1 .. Len(clockq) + 1
      /\ AllCountsMatch /\ ClockView(Sched) /\ Highest(Sched)
  BY <1>1 DEF IInv, LoopState, AllCountsMatch, SemCountMatchesQueue, Busy, RankStale, ViewStale
<1>3. /\ Sched.pstate = pstate /\ Sched.currpid = currpid /\ Sched.clockq = clockq
      /\ Sched.pprio = pprio /\ currpid \in Pid /\ clockq \in Seq(Pid)
      /\ pstate \in [Pid -> States] /\ pstate[currpid] = "PRCURR"
      /\ c \in KopType /\ c.n \in Int /\ Sched \in SchedType /\ qkey \in [Pid -> Int]
  <2>1. c \in KopType /\ currpid \in Pid
    BY <1>2, SchedNow DEF TableTypes
  <2>2. c.n \in Int
    BY <2>1 DEF KopType
  <2>3. Sched \in SchedType /\ qkey = Sched.qkey
    BY <1>2, SchedNow DEF Sched
  <2>4. qkey \in [Pid -> Int]
    BY <2>3 DEF SchedType
  <2> QED BY <1>2, <2>1, <2>2, <2>3, <2>4, SchedNow
<1>4. CASE c.a <= Len(clockq) /\ qkey[clockq[c.a]] < c.n
  <2> DEFINE kk == Kop(c.op, c.a + 1, c.n - qkey[clockq[c.a]])
  <2>1. Goto(kk) /\ UNCHANGED schedVars
    BY <1>4 DEF insertdLoop
  <2>2. c.a + 1 \in 1 .. Len(clockq) + 1 /\ clockq[c.a] \in Pid
    BY <1>2, <1>3, <1>4
  <2>3. c.n - qkey[clockq[c.a]] \in Int /\ c.a + 1 \in Int
    BY <1>3, <2>2
  <2>4. /\ kk \in KopType /\ kk.op = c.op /\ kk.a = c.a + 1 /\ kk.op \in LoopOps
        /\ kk.op \notin RankStale /\ kk.op \notin ViewStale
        /\ kk.op \notin {"signaln", "sreset", "sdelete", "makeup"}
    <3>1. c.op \in LoopOps /\ c.op \notin RankStale /\ c.op \notin ViewStale
          /\ c.op \notin {"signaln", "sreset", "sdelete", "makeup"}
      BY <1>1 DEF LoopOps, RankStale, ViewStale
    <3>2. kk.op = c.op /\ kk.a = c.a + 1 /\ kk \in KopType
      BY <2>3, <3>1, KopFacts
    <3> HIDE DEF kk
    <3> QED BY <3>1, <3>2
  <2> HIDE DEF kk, c
  <2>5. Sched' = Sched /\ currpid' = currpid /\ clockq' = clockq /\ pstate' = pstate
    BY <1>1, <2>1, SchedSame DEF schedVars, procVars
  <2>6. cont' \in [Pid -> KopType] /\ Parked' /\ KillTargets' /\ cont'[currpid'] = kk
    <3>1. Goto(kk) /\ kk \in KopType /\ kk.op \in LoopOps /\ UNCHANGED currpid
      BY <2>1, <2>4, <2>5
    <3> QED BY <3>1, GotoLoop
  <2>7. TableTypes'
    BY <1>1, <1>2, <2>6 DEF TableTypes, procVars, allocVars, deferVars, semVars
  <2>8. LoopState'
    BY <1>2, <2>2, <2>4, <2>5, <2>6 DEF LoopState
  <2>9. QueuesMatch' /\ SemCountMatchesQueue'
    BY <1>1, <1>2, <2>5 DEF QueuesMatch, SemCountMatchesQueue, AllCountsMatch, procVars, semVars
  <2> QED BY <1>2, <2>5, <2>6, <2>7, <2>8, <2>9 DEF IInv
<1>5. CASE ~ (c.a <= Len(clockq) /\ qkey[clockq[c.a]] < c.n)
  <2> DEFINE m == [LinkDelta(Sched, c.a, c.n) EXCEPT !.pstate = [@ EXCEPT ![Sched.currpid] = st]]
  <2>1. SchedIs(t) /\ Goto(k)
    BY <1>5 DEF insertdLoop
  <2>2. st \in Timed /\ st # "PRWAIT"
    BY DEF Timed
  <2>3. t = resched(m)
    BY <1>3
  <2> HIDE DEF c, st, k
  <2>4. /\ Good(m) /\ m.pstate = [pstate EXCEPT ![currpid] = st] /\ m.pprio = pprio
        /\ ClockView(m)
    <3>1. Sched.currpid # NULLPROC /\ c.a \in 1 .. Len(Sched.clockq) + 1 /\ c.n \in Int
      BY <1>2, <1>3
    <3>2. /\ Good(m) /\ m.pstate = [Sched.pstate EXCEPT ![Sched.currpid] = st]
          /\ m.pprio = Sched.pprio /\ ClockView(m)
      BY <1>2, <2>2, <3>1, LinkDeltaKeeps
    <3> QED BY <1>3, <3>2
  <2> HIDE DEF m
  <2>5. /\ Good(t) /\ Running(t) /\ Highest(t) /\ ClockView(t)
        /\ SameClock(m, t) /\ SameBlocked(m, t)
    BY <2>3, <2>4, ReschedKeeps
  <2> HIDE DEF t
  <2>6. pprio' = t.pprio
    BY <1>1, <2>4, <2>5 DEF SameClock, procVars
  <2>7. \A q \in Pid : t.pstate[q] = "PRWAIT" <=> pstate[q] = "PRWAIT"
    <3>1. \A q \in Pid : m.pstate[q] = IF q = currpid THEN st ELSE pstate[q]
      BY <1>3, <2>4
    <3>2. \A q \in Pid : t.pstate[q] = "PRWAIT" <=> m.pstate[q] = "PRWAIT"
      BY <2>5 DEF SameBlocked, Eligible
    <3> QED BY <1>3, <2>2, <3>1, <3>2
  <2>8. cont' \in [Pid -> KopType] /\ AllParked' /\ KillTargets'
    <3>1. k \in KopType /\ k.op \in ParkedOps /\ k.op # "kill"
      BY UserIsParked, KopFacts DEF k, ParkedOps
    <3> QED BY <2>1, <3>1, GotoParked
  <2>9. TableTypes'
    BY <1>1, <1>2, <2>8 DEF TableTypes, procVars, allocVars, deferVars, semVars
  <2> QED BY <1>1, <1>2, <2>1, <2>5, <2>6, <2>7, <2>8, <2>9, ParkedSched DEF procVars, semVars
<1> QED BY <1>4, <1>5

-----------------------------------------------------------------------------
(* Semaphores: screate.c, wait.c, signal.c, signaln.c, sdelete.c, sreset.c *)

(* ready(getfirst(sqhead), RESCHNO) *)
LEMMA ReleaseGood ==
    ASSUME Good(Sched), Running(Sched), QueuesMatch, squeue \in [Sem -> Seq(Pid)],
           NEW sem \in Sem, squeue[sem] # <<>>
    PROVE  LET h == Head(squeue[sem])
               r == ready(Sched, h)
           IN  /\ h \in Pid /\ pstate[h] = "PRWAIT" /\ psem[h] = sem
               /\ Good(r) /\ Running(r) /\ r.pprio = pprio
               /\ r.pstate = [pstate EXCEPT ![h] = "PRREADY"]
               /\ ClockView(Sched) => ClockView(r)
<1> DEFINE h == Head(squeue[sem])
           r == ready(Sched, h)
<1>1. SUFFICES /\ h \in Pid /\ pstate[h] = "PRWAIT" /\ psem[h] = sem
               /\ Good(r) /\ Running(r) /\ r.pprio = pprio
               /\ r.pstate = [pstate EXCEPT ![h] = "PRREADY"]
               /\ ClockView(Sched) => ClockView(r)
  OBVIOUS
<1>2. /\ Sched.pstate = pstate /\ Sched.pprio = pprio /\ Sched.currpid = currpid
      /\ currpid \in Pid /\ pstate \in [Pid -> States] /\ pstate[currpid] = "PRCURR"
  BY SchedNow
<1>3. h \in Pid /\ OnList(squeue[sem], h)
  <2>1. squeue[sem] \in Seq(Pid) /\ NoDup(squeue[sem])
    BY DEF QueuesMatch
  <2> QED BY <2>1, TailFacts
<1> HIDE DEF h
<1>4. pstate[h] = "PRWAIT" /\ psem[h] = sem
  BY <1>3 DEF QueuesMatch
<1>5. /\ h # NULLPROC /\ Sched.pstate[h] \notin Eligible /\ ClockListBut(Sched, h)
      /\ SchedGood(Sched)
  BY <1>2, <1>3, <1>4, NullIsPid
     DEF Good, SchedGood, NullEligible, Eligible, ClockListBut, Timed
<1>6. /\ Good(r) /\ r.pstate = [Sched.pstate EXCEPT ![h] = "PRREADY"]
      /\ r.currpid = Sched.currpid /\ SameClock(Sched, r)
      /\ (ClockView(Sched) => ClockView(r))
  BY <1>3, <1>5, ReadyKeeps
<1> HIDE DEF r
<1>7. Running(r)
  BY <1>2, <1>3, <1>4, <1>6 DEF Running
<1> QED BY <1>2, <1>3, <1>4, <1>6, <1>7 DEF SameClock

LEMMA QueueTail ==
    ASSUME QueuesMatch, squeue \in [Sem -> Seq(Pid)], NEW sem \in Sem, squeue[sem] # <<>>,
           squeue' = [squeue EXCEPT ![sem] = Tail(@)], UNCHANGED psem,
           \A q \in Pid : pstate'[q] = "PRWAIT" <=> pstate[q] = "PRWAIT" /\ q # Head(squeue[sem])
    PROVE  /\ QueuesMatch' /\ squeue' \in [Sem -> Seq(Pid)]
           /\ Len(squeue'[sem]) = Len(squeue[sem]) - 1 /\ Len(squeue[sem]) \in Nat
           /\ \A s \in Sem : s # sem => squeue'[s] = squeue[s]
<1> DEFINE l == squeue[sem]
           h == Head(l)
<1>1. l \in Seq(Pid) /\ NoDup(l) /\ l # <<>>
  BY DEF QueuesMatch
<1>2. /\ h \in Pid /\ OnList(l, h) /\ Tail(l) \in Seq(Pid) /\ Len(Tail(l)) = Len(l) - 1
      /\ NoDup(Tail(l)) /\ \A q \in Pid : OnList(Tail(l), q) <=> OnList(l, q) /\ q # h
  BY <1>1, TailFacts
<1>3. squeue'[sem] = Tail(l) /\ \A s \in Sem : s # sem => squeue'[s] = squeue[s]
  OBVIOUS
<1>4. squeue' \in [Sem -> Seq(Pid)]
  BY <1>2
<1>5. psem[h] = sem
  BY <1>2 DEF QueuesMatch
<1>6. Len(l) \in Nat
  BY <1>1
<1> HIDE DEF h
<1>7. ASSUME NEW s \in Sem
      PROVE  /\ NoDup(squeue'[s])
             /\ \A p \in Pid : OnList(squeue'[s], p) <=> pstate'[p] = "PRWAIT" /\ psem'[p] = s
  <2>1. CASE s = sem
    BY <1>2, <1>3, <2>1 DEF QueuesMatch, h
  <2>2. CASE s # sem
    BY <1>3, <1>5, <2>2 DEF QueuesMatch, h
  <2> QED BY <2>1, <2>2
<1>8. QueuesMatch'
  BY <1>7 DEF QueuesMatch
<1> QED BY <1>2, <1>3, <1>4, <1>6, <1>8

LEMMA screateStep ==
    ASSUME IInv, NEW n \in Counts, screate(n), UNCHANGED load
    PROVE  IInv'
<1>1. /\ cont[currpid] = InUser /\ UNCHANGED <<procVars, schedVars, cont, squeue>>
      /\ FreeSems # {} /\ sstate' = [sstate EXCEPT ![newsem] = "SUSED"]
      /\ semcnt' = [semcnt EXCEPT ![newsem] = n] /\ nextsem' = (newsem - 1) % NSEM
  BY DEF screate, Call, Interruptible
<1>2. /\ AllParked /\ AllCountsMatch /\ ClockView(Sched) /\ Highest(Sched)
      /\ TableTypes /\ Good(Sched) /\ Running(Sched) /\ QueuesMatch /\ KillTargets
  BY <1>1, UserFacts
<1>3. NSEM \in Nat /\ NSEM >= 1 /\ n \in Nat /\ nextsem \in 0 .. NSEM - 1
  BY <1>2, KernelAssumption DEF TableTypes, Sem
<1>4. newsem \in Sem /\ sstate[newsem] = "SFREE"
  <2>1. FreeSems \in SUBSET Nat
    BY <1>3 DEF FreeSems
  <2>2. PICK k \in FreeSems : \A j \in FreeSems : k <= j
    BY <1>1, <2>1, LeastElement
  <2> DEFINE k0 == CHOOSE x \in FreeSems : \A j \in FreeSems : x <= j
  <2>3. k0 \in FreeSems
    BY <2>2
  <2>4. newsem = (nextsem - k0) % NSEM
    BY DEF newsem
  <2> HIDE DEF k0
  <2>5. k0 \in 0 .. NSEM - 1 /\ sstate[newsem] = "SFREE"
    BY <2>3, <2>4 DEF FreeSems
  <2>6. (nextsem - k0) % NSEM \in 0 .. NSEM - 1
    BY <1>3, <2>5
  <2> QED BY <2>4, <2>5, <2>6 DEF Sem
<1>5. (newsem - 1) % NSEM \in Sem
  BY <1>3, <1>4 DEF Sem
<1> DEFINE new == newsem
<1> HIDE DEF new
<1>6. /\ sstate' \in [Sem -> {"SFREE", "SUSED"}] /\ semcnt' \in [Sem -> Int] /\ nextsem' \in Sem
      /\ semcnt'[new] = n /\ squeue'[new] = <<>>
      /\ \A s \in Sem : s # new => sstate'[s] = sstate[s] /\ semcnt'[s] = semcnt[s]
  <2>1. new \in Sem /\ sstate' = [sstate EXCEPT ![new] = "SUSED"]
        /\ semcnt' = [semcnt EXCEPT ![new] = n] /\ sstate[new] = "SFREE"
    BY <1>1, <1>4 DEF new
  <2>2. squeue[new] = <<>>
    BY <1>2, <2>1 DEF AllCountsMatch
  <2>3. sstate \in [Sem -> {"SFREE", "SUSED"}] /\ semcnt \in [Sem -> Int] /\ n \in Int
    BY <1>2, <1>3 DEF TableTypes
  <2>4. /\ sstate' \in [Sem -> {"SFREE", "SUSED"}] /\ semcnt' \in [Sem -> Int] /\ semcnt'[new] = n
        /\ \A s \in Sem : s # new => sstate'[s] = sstate[s] /\ semcnt'[s] = semcnt[s]
    BY <2>1, <2>3
  <2>5. squeue'[new] = <<>> /\ nextsem' \in Sem
    BY <1>1, <1>5, <2>2
  <2> QED BY <2>4, <2>5
<1>7. TableTypes'
  BY SMTT(30), <1>1, <1>2, <1>6 DEF screate, TableTypes, procVars, allocVars, deferVars
<1>8. Sched' = Sched /\ pstate' = pstate
  BY <1>1, SchedSame DEF schedVars, procVars
<1>9. QueuesMatch' /\ AllParked' /\ KillTargets'
  BY <1>1, <1>2, <1>8 DEF QueuesMatch, AllParked, KillTargets, procVars
<1>10. AllCountsMatch'
  <2>1. n >= 0 /\ squeue' = squeue
    BY <1>1, <1>3
  <2> QED BY <1>2, <1>6, <2>1 DEF AllCountsMatch
<1> QED BY <1>2, <1>7, <1>8, <1>9, <1>10, ParkedStep

LEMMA waitStep ==
    ASSUME IInv, NEW sem \in Sem, wait(sem), UNCHANGED load
    PROVE  IInv'
<1>1. /\ cont[currpid] = InUser /\ currpid # NULLPROC /\ sstate[sem] = "SUSED"
      /\ semcnt' = [semcnt EXCEPT ![sem] = @ - 1]
      /\ UNCHANGED <<pprio, msgVars, pnxtkin, allocVars, deferVars, sstate, nextsem, cont, due>>
  BY DEF wait, Call, Interruptible
<1>2. /\ AllParked /\ AllCountsMatch /\ ClockView(Sched) /\ Highest(Sched)
      /\ TableTypes /\ Good(Sched) /\ Running(Sched) /\ QueuesMatch /\ KillTargets
  BY <1>1, UserFacts
<1>3. /\ currpid \in Pid /\ pstate[currpid] = "PRCURR" /\ pstate \in [Pid -> States]
      /\ Sched.pprio = pprio /\ Sched.pstate = pstate
  BY <1>2, SchedNow
<1>4. /\ semcnt[sem] \in Int /\ semcnt' \in [Sem -> Int] /\ semcnt'[sem] = semcnt[sem] - 1
      /\ \A s \in Sem : s # sem => semcnt'[s] = semcnt[s]
  <2>1. semcnt \in [Sem -> Int]
    BY <1>2 DEF TableTypes
  <2> QED BY <1>1, <2>1
<1>5. AllParked' /\ KillTargets'
  BY <1>1, <1>2 DEF AllParked, KillTargets
<1>6. CASE semcnt[sem] - 1 < 0
  <2> DEFINE t == resched([Sched EXCEPT !.pstate = [@ EXCEPT ![currpid] = "PRWAIT"]])
             l == squeue[sem]
  <2>1. /\ SchedIs(t) /\ psem' = [psem EXCEPT ![currpid] = sem]
        /\ squeue' = [squeue EXCEPT ![sem] = Append(@, currpid)]
    BY <1>6 DEF wait
  <2>2. "PRWAIT" \in States /\ "PRWAIT" \notin Eligible /\ "PRWAIT" \notin Timed
    BY DEF States, Eligible, Timed
  <2>3. /\ Good(t) /\ Running(t) /\ Highest(t) /\ ClockView(t) /\ t.pprio = pprio
        /\ \A q \in Pid : t.pstate[q] = "PRWAIT"
              <=> IF q = currpid THEN "PRWAIT" = "PRWAIT" ELSE pstate[q] = "PRWAIT"
    BY <1>1, <1>2, <2>2, BlockGood
  <2> HIDE DEF t
  <2>4. Sched' = t /\ pstate' = t.pstate
    BY <1>1, <2>1, <2>3, SchedNext DEF Good, SchedGood, SchedIs
  <2>5. \A q \in Pid : pstate'[q] = "PRWAIT" <=> q = currpid \/ pstate[q] = "PRWAIT"
    BY <2>3, <2>4
  <2>6. l \in Seq(Pid) /\ NoDup(l) /\ ~ OnList(l, currpid) /\ Len(l) \in Nat
    BY <1>2, <1>3 DEF TableTypes, QueuesMatch
  <2>7. /\ Append(l, currpid) \in Seq(Pid) /\ Len(Append(l, currpid)) = Len(l) + 1
        /\ NoDup(Append(l, currpid))
        /\ \A q \in Pid : OnList(Append(l, currpid), q) <=> OnList(l, q) \/ q = currpid
    BY <1>3, <2>6, AppendFacts
  <2>8. /\ squeue' \in [Sem -> Seq(Pid)] /\ squeue'[sem] = Append(l, currpid)
        /\ \A s \in Sem : s # sem => squeue'[s] = squeue[s]
    BY <1>2, <2>1, <2>7 DEF TableTypes
  <2>9. /\ psem' \in [Pid -> Sem] /\ psem'[currpid] = sem
        /\ \A q \in Pid : q # currpid => psem'[q] = psem[q]
    BY <1>2, <1>3, <2>1 DEF TableTypes
  <2>10. QueuesMatch'
    <3>1. ASSUME NEW s \in Sem
          PROVE  /\ NoDup(squeue'[s])
                 /\ \A q \in Pid : OnList(squeue'[s], q) <=> pstate'[q] = "PRWAIT" /\ psem'[q] = s
      <4>1. CASE s = sem
        <5>1. NoDup(squeue'[s])
          BY <2>7, <2>8, <4>1
        <5>2. ASSUME NEW q \in Pid
              PROVE  OnList(squeue'[s], q) <=> pstate'[q] = "PRWAIT" /\ psem'[q] = s
          <6>1. OnList(squeue'[s], q) <=> OnList(l, q) \/ q = currpid
            BY <2>7, <2>8, <4>1
          <6>2. OnList(l, q) <=> pstate[q] = "PRWAIT" /\ psem[q] = s
            BY <1>2, <4>1 DEF QueuesMatch
          <6> QED BY <2>5, <2>9, <4>1, <6>1, <6>2
        <5> QED BY <5>1, <5>2
      <4>2. CASE s # sem
        <5>1. squeue'[s] = squeue[s] /\ NoDup(squeue[s])
          BY <1>2, <2>8, <4>2 DEF QueuesMatch
        <5>2. ASSUME NEW q \in Pid
              PROVE  OnList(squeue[s], q) <=> pstate'[q] = "PRWAIT" /\ psem'[q] = s
          <6>1. OnList(squeue[s], q) <=> pstate[q] = "PRWAIT" /\ psem[q] = s
            BY <1>2 DEF QueuesMatch
          <6>2. CASE q = currpid
            BY <1>3, <2>9, <4>2, <6>1, <6>2
          <6>3. CASE q # currpid
            BY <2>5, <2>9, <6>1, <6>3
          <6> QED BY <6>2, <6>3
        <5> QED BY <5>1, <5>2
      <4> QED BY <4>1, <4>2
    <3> QED BY <3>1 DEF QueuesMatch
  <2>11. AllCountsMatch'
    <3>1. semcnt'[sem] < 0 /\ Len(squeue'[sem]) = - semcnt'[sem]
      <4>1. CASE semcnt[sem] >= 0
        <5>1. l = <<>> /\ semcnt[sem] = 0
          BY <1>2, <1>4, <1>6, <4>1 DEF AllCountsMatch
        <5>2. Len(l) = 0
          BY <5>1
        <5>3. Len(squeue'[sem]) = 1
          BY <2>7, <2>8, <5>2
        <5>4. semcnt'[sem] = -1
          BY <1>4, <5>1
        <5>5. /\ Len(squeue'[sem]) + semcnt'[sem] = 0 /\ semcnt'[sem] < 0
              /\ Len(squeue'[sem]) \in Int /\ semcnt'[sem] \in Int
          BY <5>3, <5>4
        <5> QED BY <5>5
      <4>2. CASE semcnt[sem] < 0
        <5>1. Len(l) = - semcnt[sem]
          BY <1>1, <1>2, <1>4, <4>2 DEF AllCountsMatch
        <5>2. Len(squeue'[sem]) = Len(l) + 1
          BY <2>7, <2>8
        <5>3. semcnt[sem] \in Int /\ Len(squeue'[sem]) = - semcnt[sem] + 1
          BY <1>4, <5>1, <5>2
        <5> QED BY <1>4, <4>2, <5>3
      <4> QED BY <1>4, <4>1, <4>2
    <3>2. sstate'[sem] # "SFREE"
      BY <1>1
    <3>3. ASSUME NEW s \in Sem
          PROVE  IF sstate'[s] = "SFREE" \/ semcnt'[s] >= 0
                   THEN squeue'[s] = <<>> ELSE Len(squeue'[s]) = - semcnt'[s]
      <4>1. CASE s = sem
        BY <1>4, <3>1, <3>2, <4>1
      <4>2. CASE s # sem
        BY <1>1, <1>2, <1>4, <2>8, <4>2 DEF AllCountsMatch
      <4> QED BY <4>1, <4>2
    <3> QED BY <3>3 DEF AllCountsMatch
  <2>12. TableTypes'
    BY <1>1, <1>2, <1>4, <2>8, <2>9 DEF TableTypes, msgVars, allocVars, deferVars
  <2> QED BY <1>5, <2>3, <2>4, <2>10, <2>11, <2>12, ParkedStep
<1>7. CASE ~ (semcnt[sem] - 1 < 0)
  <2>1. UNCHANGED <<psem, squeue, schedVars>>
    BY <1>7 DEF wait
  <2>2. Sched' = Sched /\ pstate' = pstate
    BY <1>1, <2>1, SchedSame DEF schedVars
  <2>3. TableTypes' /\ QueuesMatch'
    BY <1>1, <1>2, <1>4, <2>1, <2>2 DEF TableTypes, QueuesMatch, msgVars, allocVars, deferVars
  <2>4. AllCountsMatch'
    <3>1. squeue[sem] = <<>> /\ semcnt'[sem] >= 0
      BY <1>2, <1>4, <1>7 DEF AllCountsMatch
    <3> QED BY <1>1, <1>2, <1>4, <2>1, <3>1 DEF AllCountsMatch
  <2> QED BY <1>2, <1>5, <2>2, <2>3, <2>4, ParkedStep
<1> QED BY <1>6, <1>7

(* One increment: of signal(), and of each turn of the loop in signaln() *)
LEMMA IncrementGood ==
    ASSUME TableTypes, Good(Sched), Running(Sched), QueuesMatch, AllCountsMatch,
           NEW sem \in Sem, sstate[sem] = "SUSED", Increment(sem), UNCHANGED <<sstate, psem>>
    PROVE  LET r == AfterRelease(sem)
           IN  /\ Good(r) /\ Running(r) /\ r.pprio = pprio
               /\ ClockView(Sched) => ClockView(r)
               /\ ~ Released(sem) => r = Sched
               /\ semcnt' \in [Sem -> Int] /\ squeue' \in [Sem -> Seq(Pid)] /\ AllCountsMatch'
               /\ (\A q \in Pid : pstate'[q] = "PRWAIT" <=> r.pstate[q] = "PRWAIT")
                     => QueuesMatch'
<1> DEFINE r == AfterRelease(sem)
<1>1. SUFFICES /\ Good(r) /\ Running(r) /\ r.pprio = pprio
               /\ ClockView(Sched) => ClockView(r)
               /\ ~ Released(sem) => r = Sched
               /\ semcnt' \in [Sem -> Int] /\ squeue' \in [Sem -> Seq(Pid)] /\ AllCountsMatch'
               /\ (\A q \in Pid : pstate'[q] = "PRWAIT" <=> r.pstate[q] = "PRWAIT")
                     => QueuesMatch'
  OBVIOUS
<1>2. /\ semcnt[sem] \in Int /\ semcnt' \in [Sem -> Int] /\ semcnt'[sem] = semcnt[sem] + 1
      /\ \A s \in Sem : s # sem => semcnt'[s] = semcnt[s]
  <2>1. semcnt \in [Sem -> Int] /\ semcnt' = [semcnt EXCEPT ![sem] = semcnt[sem] + 1]
    BY DEF TableTypes, Increment
  <2> QED BY <2>1
<1>3. squeue \in [Sem -> Seq(Pid)] /\ Sched.pstate = pstate /\ Sched.pprio = pprio
      /\ pstate \in [Pid -> States]
  BY SchedNow DEF TableTypes
<1>4. CASE Released(sem)
  <2> DEFINE h == Head(squeue[sem])
  <2>1. /\ semcnt[sem] < 0 /\ squeue[sem] # <<>> /\ squeue' = [squeue EXCEPT ![sem] = Tail(@)]
        /\ r = ready(Sched, h)
    BY <1>4 DEF Released, Increment, AfterRelease
  <2>2. /\ h \in Pid /\ pstate[h] = "PRWAIT" /\ Good(r) /\ Running(r) /\ r.pprio = pprio
        /\ r.pstate = [pstate EXCEPT ![h] = "PRREADY"]
        /\ (ClockView(Sched) => ClockView(r))
    <3> DEFINE x == ready(Sched, Head(squeue[sem]))
    <3>1. /\ Head(squeue[sem]) \in Pid /\ pstate[Head(squeue[sem])] = "PRWAIT"
          /\ Good(x) /\ Running(x) /\ x.pprio = pprio
          /\ x.pstate = [pstate EXCEPT ![Head(squeue[sem])] = "PRREADY"]
          /\ ClockView(Sched) => ClockView(x)
      BY <1>3, <2>1, ReleaseGood
    <3> HIDE DEF x, r
    <3>2. r = x
      BY <2>1 DEF x
    <3> QED BY <3>1, <3>2
  <2> HIDE DEF r
  <2>3. \A q \in Pid : r.pstate[q] = "PRWAIT" <=> pstate[q] = "PRWAIT" /\ q # h
    BY <1>3, <2>2
  <2>4. ASSUME \A q \in Pid : pstate'[q] = "PRWAIT" <=> r.pstate[q] = "PRWAIT"
        PROVE  QueuesMatch'
    BY <1>3, <2>1, <2>3, <2>4, QueueTail
  <2>5. squeue[sem] \in Seq(Pid) /\ NoDup(squeue[sem])
    BY <1>3 DEF QueuesMatch
  <2>6. Tail(squeue[sem]) \in Seq(Pid) /\ Len(Tail(squeue[sem])) = Len(squeue[sem]) - 1
    BY <2>1, <2>5, TailFacts
  <2>7. /\ squeue' \in [Sem -> Seq(Pid)] /\ Len(squeue'[sem]) = Len(squeue[sem]) - 1
        /\ squeue'[sem] \in Seq(Pid)
        /\ \A s \in Sem : s # sem => squeue'[s] = squeue[s]
    BY <1>3, <2>1, <2>6
  <2>8. AllCountsMatch'
    <3>1. Len(squeue[sem]) = - semcnt[sem]
      BY <1>2, <2>1 DEF AllCountsMatch
    <3>2. Len(squeue'[sem]) + semcnt'[sem] = 0 /\ Len(squeue'[sem]) \in Nat
      BY <1>2, <2>7, <3>1
    <3>3. IF sstate'[sem] = "SFREE" \/ semcnt'[sem] >= 0
            THEN squeue'[sem] = <<>> ELSE Len(squeue'[sem]) = - semcnt'[sem]
      <4>1. CASE semcnt'[sem] >= 0
        <5>1. Len(squeue'[sem]) = 0
          BY <1>2, <3>2, <4>1
        <5> QED BY <2>7, <4>1, <5>1, EmptySeq
      <4>2. CASE ~ (semcnt'[sem] >= 0)
        <5>1. Len(squeue'[sem]) = - semcnt'[sem] /\ sstate'[sem] # "SFREE"
          BY <1>2, <3>2
        <5> QED BY <4>2, <5>1
      <4> QED BY <4>1, <4>2
    <3>4. \A s \in Sem : s # sem =>
             IF sstate'[s] = "SFREE" \/ semcnt'[s] >= 0
               THEN squeue'[s] = <<>> ELSE Len(squeue'[s]) = - semcnt'[s]
      BY <1>2, <2>7 DEF AllCountsMatch
    <3> QED BY <3>3, <3>4 DEF AllCountsMatch
  <2> QED BY <1>2, <1>4, <2>2, <2>4, <2>7, <2>8
<1>5. CASE ~ Released(sem)
  <2>1. squeue' = squeue /\ r = Sched
    BY <1>3, <1>5 DEF Increment, AfterRelease
  <2> HIDE DEF r
  <2>2. squeue[sem] = <<>> /\ semcnt[sem] >= 0
    <3>1. CASE semcnt[sem] >= 0
      BY <3>1 DEF AllCountsMatch
    <3>2. CASE semcnt[sem] < 0
      <4>1. Len(squeue[sem]) = - semcnt[sem] /\ squeue[sem] = <<>>
        BY <1>2, <1>5, <3>2 DEF AllCountsMatch, Released
      <4>2. Len(squeue[sem]) = 0
        BY <4>1
      <4> QED BY <1>2, <3>2, <4>1, <4>2
    <3> QED BY <1>2, <3>1, <3>2
  <2>3. AllCountsMatch'
    <3>1. squeue'[sem] = <<>> /\ semcnt'[sem] >= 0
      BY <1>2, <2>1, <2>2
    <3> QED BY <1>2, <2>1, <3>1 DEF AllCountsMatch
  <2>4. ASSUME \A q \in Pid : pstate'[q] = "PRWAIT" <=> r.pstate[q] = "PRWAIT"
        PROVE  QueuesMatch'
    BY <1>3, <2>1, <2>4 DEF QueuesMatch
  <2> QED BY <1>2, <1>3, <2>1, <2>3, <2>4
<1> QED BY <1>4, <1>5

LEMMA signalStep ==
    ASSUME IInv, NEW sem \in Sem, signal(sem), UNCHANGED load
    PROVE  IInv'
<1> DEFINE r == AfterRelease(sem)
           t == IF Released(sem) THEN resched(r) ELSE Sched
<1>1. /\ cont[currpid] = InUser /\ sstate[sem] = "SUSED" /\ Increment(sem) /\ SchedIs(t)
      /\ UNCHANGED <<procVars, allocVars, deferVars, sstate, nextsem, cont, due, psem, pprio>>
  BY DEF signal, Interruptible, procVars
<1>2. /\ AllParked /\ AllCountsMatch /\ ClockView(Sched) /\ Highest(Sched)
      /\ TableTypes /\ Good(Sched) /\ Running(Sched) /\ QueuesMatch /\ KillTargets
  BY <1>1, UserFacts
<1>3. /\ Good(r) /\ Running(r) /\ r.pprio = pprio /\ ClockView(r)
      /\ (~ Released(sem) => r = Sched)
      /\ semcnt' \in [Sem -> Int] /\ squeue' \in [Sem -> Seq(Pid)] /\ AllCountsMatch'
      /\ ((\A q \in Pid : pstate'[q] = "PRWAIT" <=> r.pstate[q] = "PRWAIT") => QueuesMatch')
  BY <1>1, <1>2, IncrementGood
<1> HIDE DEF r
<1>4. /\ Good(t) /\ Running(t) /\ Highest(t) /\ ClockView(t) /\ t.pprio = pprio
      /\ \A q \in Pid : t.pstate[q] = "PRWAIT" <=> r.pstate[q] = "PRWAIT"
  <2>1. CASE Released(sem)
    <3>1. t = resched(r)
      BY <2>1
    <3>2. /\ Good(t) /\ Running(t) /\ Highest(t) /\ ClockView(t)
          /\ SameClock(r, t) /\ SameBlocked(r, t)
      BY <1>3, <3>1, ReschedKeeps
    <3> HIDE DEF t
    <3> QED BY <1>3, <3>2 DEF SameClock, SameBlocked, Eligible
  <2>2. CASE ~ Released(sem)
    <3>1. t = Sched /\ r = Sched
      BY <1>3, <2>2
    <3> HIDE DEF t
    <3> QED BY <1>2, <1>3, <3>1
  <2> QED BY <2>1, <2>2
<1> HIDE DEF t
<1>5. Sched' = t /\ pstate' = t.pstate
  BY <1>1, <1>4, SchedNext DEF Good, SchedGood, SchedIs
<1>6. QueuesMatch'
  BY <1>3, <1>4, <1>5
<1>7. TableTypes'
  BY <1>1, <1>2, <1>3 DEF TableTypes, procVars, allocVars, deferVars
<1>8. AllParked' /\ KillTargets'
  BY <1>1, <1>2 DEF AllParked, KillTargets
<1> QED BY <1>3, <1>4, <1>5, <1>6, <1>7, <1>8, ParkedStep

LEMMA signalnStep ==
    ASSUME IInv, NEW sem \in Sem, NEW n \in Counts, signaln(sem, n), UNCHANGED load
    PROVE  IInv'
<1> DEFINE k == Kop("signaln", sem, n)
<1>1. /\ cont[currpid] = InUser /\ sstate[sem] = "SUSED" /\ Goto(k)
      /\ UNCHANGED <<procVars, schedVars, allocVars, deferVars, semVars, due>>
  BY DEF signaln, Interruptible
<1>2. n \in Nat /\ sem \in Int /\ TableTypes
  BY KernelAssumption DEF Sem, IInv
<1>3. /\ k \in KopType /\ k.op = "signaln" /\ k.a = sem /\ k.n = n /\ k.op \in LoopOps
      /\ k.op \notin ViewStale
  BY <1>2, KopFacts DEF LoopOps, ViewStale
<1> HIDE DEF k
<1>4. cont' \in [Pid -> KopType] /\ cont'[currpid'] = k
  BY <1>1, <1>3, GotoLoop DEF schedVars
<1>5. TableTypes' /\ LoopState'
  BY <1>1, <1>2, <1>3, <1>4 DEF TableTypes, LoopState, procVars, allocVars, deferVars, semVars
<1> QED BY <1>1, <1>3, <1>5, EnterLoop DEF procVars, semVars

LEMMA sresetStep ==
    ASSUME IInv, NEW sem \in Sem, NEW n \in Counts, sreset(sem, n), UNCHANGED load
    PROVE  IInv'
<1> DEFINE k == Kop("sreset", sem, n)
<1>1. /\ cont[currpid] = InUser /\ sstate[sem] = "SUSED" /\ Goto(k)
      /\ UNCHANGED <<procVars, schedVars, allocVars, deferVars, semVars, due>>
  BY DEF sreset, Call, Interruptible
<1>2. n \in Nat /\ sem \in Int /\ TableTypes
  BY KernelAssumption DEF Sem, IInv
<1>3. /\ k \in KopType /\ k.op = "sreset" /\ k.a = sem /\ k.n = n /\ k.op \in LoopOps
      /\ k.op \notin ViewStale
  BY <1>2, KopFacts DEF LoopOps, ViewStale
<1> HIDE DEF k
<1>4. cont' \in [Pid -> KopType] /\ cont'[currpid'] = k
  BY <1>1, <1>3, GotoLoop DEF schedVars
<1>5. TableTypes' /\ LoopState'
  BY <1>1, <1>2, <1>3, <1>4 DEF TableTypes, LoopState, procVars, allocVars, deferVars, semVars
<1> QED BY <1>1, <1>3, <1>5, EnterLoop DEF procVars, semVars

LEMMA sdeleteStep ==
    ASSUME IInv, NEW sem \in Sem, sdelete(sem), UNCHANGED load
    PROVE  IInv'
<1> DEFINE k == Kop("sdelete", sem, 0)
<1>1. /\ cont[currpid] = InUser /\ sstate[sem] = "SUSED"
      /\ sstate' = [sstate EXCEPT ![sem] = "SFREE"]
      /\ UNCHANGED <<procVars, schedVars, allocVars, deferVars, semcnt, squeue, nextsem, due>>
  BY DEF sdelete, Call, Interruptible
<1>2. sem \in Int /\ TableTypes /\ sstate \in [Sem -> {"SFREE", "SUSED"}]
  BY SMTT(30), KernelAssumption DEF Sem, IInv, TableTypes
<1>3. /\ sstate' \in [Sem -> {"SFREE", "SUSED"}] /\ sstate'[sem] = "SFREE"
      /\ \A s \in Sem : s # sem => sstate'[s] = sstate[s]
  BY <1>1, <1>2
<1>4. CASE squeue[sem] # <<>>
  <2>1. Goto(k)
    BY <1>4 DEF sdelete
  <2>2. /\ k \in KopType /\ k.op = "sdelete" /\ k.a = sem /\ k.op \in LoopOps
        /\ k.op \notin ViewStale
    BY <1>2, KopFacts DEF LoopOps, ViewStale
  <2> HIDE DEF k
  <2>3. cont' \in [Pid -> KopType] /\ cont'[currpid'] = k
    BY <1>1, <2>1, <2>2, GotoLoop DEF schedVars
  <2>4. TableTypes'
    BY <1>1, <1>2, <1>3, <2>3 DEF TableTypes, procVars, allocVars, deferVars
  <2>5. LoopState'
    BY <1>3, <2>2, <2>3 DEF LoopState
  <2>6. \A s \in Sem : sstate'[s] = sstate[s] \/ (k.op = "sdelete" /\ k.a = s)
    BY <1>3, <2>2
  <2> QED BY <1>1, <2>1, <2>2, <2>4, <2>5, <2>6, EnterLoop DEF procVars
<1>5. CASE squeue[sem] = <<>>
  <2>1. UNCHANGED cont
    BY <1>5 DEF sdelete
  <2>2. /\ AllParked /\ AllCountsMatch /\ ClockView(Sched) /\ Highest(Sched)
        /\ Good(Sched) /\ Running(Sched) /\ QueuesMatch /\ KillTargets
    BY <1>1, UserFacts
  <2>3. Sched' = Sched /\ pstate' = pstate
    BY <1>1, SchedSame DEF schedVars, procVars
  <2>4. TableTypes'
    BY <1>1, <1>2, <1>3, <2>1 DEF TableTypes, procVars, allocVars, deferVars
  <2>5. AllParked' /\ KillTargets' /\ QueuesMatch' /\ AllCountsMatch'
    BY <1>1, <1>3, <1>5, <2>1, <2>2, <2>3
       DEF AllParked, KillTargets, QueuesMatch, AllCountsMatch, procVars
  <2> QED BY <2>2, <2>3, <2>4, <2>5, ParkedStep
<1> QED BY <1>4, <1>5

(* A step of a loop of the semaphore calls that stays in the loop *)
LEMMA LoopStep ==
    ASSUME TableTypes', Good(Sched'), Running(Sched'), QueuesMatch', Parked', KillTargets',
           LoopState', SemCountMatchesQueue',
           cont'[currpid'].op \in {"signaln", "sdelete", "sreset"} => ClockView(Sched'),
           cont'[currpid'].op \in RankStale
    PROVE  IInv'
  BY DEF IInv, RankStale, ViewStale

(* What every loop of the semaphore calls starts from *)
LEMMA SemLoopFacts ==
    ASSUME IInv, cont[currpid].op \in {"signaln", "sdelete", "sreset"}
    PROVE  /\ TableTypes /\ Good(Sched) /\ Running(Sched) /\ QueuesMatch /\ ClockView(Sched)
           /\ SemCountMatchesQueue /\ cont[currpid] \in KopType /\ currpid \in Pid
           /\ cont[currpid].a \in Sem
           /\ cont[currpid].op \in {"signaln", "sreset"} =>
                 sstate[cont[currpid].a] = "SUSED" /\ cont[currpid].n \in Nat
           /\ cont[currpid].op = "sdelete" => sstate[cont[currpid].a] = "SFREE"
<1>1. currpid \in Pid
  BY SchedNow DEF IInv
<1>2. cont[currpid].op \notin ViewStale
  BY DEF ViewStale
<1> QED BY <1>1, <1>2 DEF IInv, LoopState, TableTypes

(* The end of a loop: reschedule and go back to user code. *)
LEMMA LeaveLoop ==
    ASSUME IInv, ClockView(Sched), SchedIs(resched(Sched)), Goto(InUser),
           UNCHANGED <<psem, sstate, squeue, pprio>>,
           UNCHANGED <<procVars, allocVars, deferVars, nextsem, due, load>>,
           semcnt' \in [Sem -> Int], AllCountsMatch'
    PROVE  IInv'
<1> DEFINE t == resched(Sched)
<1>1. TableTypes /\ Good(Sched) /\ Running(Sched) /\ QueuesMatch
  BY DEF IInv
<1>2. /\ Good(t) /\ Running(t) /\ Highest(t) /\ ClockView(t)
      /\ SameClock(Sched, t) /\ SameBlocked(Sched, t)
  BY <1>1, ReschedKeeps
<1>3. cont' \in [Pid -> KopType] /\ AllParked' /\ KillTargets'
  BY UserIsParked, GotoParked
<1> HIDE DEF t
<1>4. t.pprio = pprio /\ \A q \in Pid : t.pstate[q] = "PRWAIT" <=> pstate[q] = "PRWAIT"
  BY <1>1, <1>2, SchedNow DEF SameClock, SameBlocked, Eligible
<1>5. Sched' = t /\ pstate' = t.pstate
  BY <1>2, <1>4, SchedNext DEF t, Good, SchedGood, SchedIs
<1>6. TableTypes'
  BY <1>1, <1>3 DEF TableTypes, procVars, allocVars, deferVars
<1>7. QueuesMatch'
  BY <1>1, <1>4, <1>5 DEF QueuesMatch
<1> QED BY <1>2, <1>3, <1>5, <1>6, <1>7, ParkedStep

LEMMA signalnLoopStep ==
    ASSUME IInv, signalnLoop, UNCHANGED load
    PROVE  IInv'
<1> DEFINE c == cont[currpid]
           sem == c.a
           n == c.n
<1>1. c.op = "signaln" /\ UNCHANGED <<procVars, allocVars, deferVars, sstate, nextsem, due>>
  BY DEF signalnLoop, In
<1>2. /\ TableTypes /\ Good(Sched) /\ Running(Sched) /\ QueuesMatch /\ ClockView(Sched)
      /\ sem \in Sem /\ sstate[sem] = "SUSED" /\ n \in Nat /\ currpid \in Pid
      /\ AllCountsMatch
  BY <1>1, SemLoopFacts DEF AllCountsMatch, SemCountMatchesQueue, Busy
<1>3. CASE n > 0
  <2> DEFINE r == AfterRelease(sem)
             k == Kop("signaln", sem, n - 1)
  <2>1. Increment(sem) /\ SchedIs(r) /\ Goto(k)
    BY <1>3 DEF signalnLoop
  <2>2. /\ k \in KopType /\ k.op = "signaln" /\ k.a = sem /\ k.n = n - 1 /\ k.op \in LoopOps
        /\ n - 1 \in Nat
    <3>1. sem \in Int /\ n - 1 \in Nat /\ "signaln" \in LoopOps
      BY <1>2, <1>3, KernelAssumption DEF Sem, LoopOps
    <3> QED BY <3>1, KopFacts
  <2> HIDE DEF k, sem, n, c
  <2>3. /\ Good(r) /\ Running(r) /\ r.pprio = pprio /\ ClockView(r)
        /\ semcnt' \in [Sem -> Int] /\ squeue' \in [Sem -> Seq(Pid)] /\ AllCountsMatch'
        /\ ((\A q \in Pid : pstate'[q] = "PRWAIT" <=> r.pstate[q] = "PRWAIT") => QueuesMatch')
    BY <1>1, <1>2, <2>1, IncrementGood DEF procVars
  <2>4. currpid' = currpid
    <3>1. r.currpid = currpid
      BY <1>2 DEF AfterRelease, ready, insert, Sched
    <3> QED BY <2>1, <3>1 DEF SchedIs
  <2> HIDE DEF r
  <2>5. Sched' = r /\ pstate' = r.pstate
    BY <1>1, <2>1, <2>3, SchedNext DEF Good, SchedGood, SchedIs, procVars
  <2>6. cont' \in [Pid -> KopType] /\ Parked' /\ KillTargets' /\ cont'[currpid'] = k
    BY <2>1, <2>2, <2>4, GotoLoop
  <2>7. TableTypes'
    BY <1>1, <1>2, <2>3, <2>6 DEF TableTypes, procVars, allocVars, deferVars
  <2>8. LoopState' /\ SemCountMatchesQueue' /\ QueuesMatch'
    BY <1>1, <1>2, <2>2, <2>3, <2>5, <2>6 DEF LoopState, SemCountMatchesQueue, AllCountsMatch
  <2> QED BY <2>2, <2>3, <2>5, <2>6, <2>7, <2>8, LoopStep DEF RankStale
<1>4. CASE ~ (n > 0)
  <2>1. SchedIs(resched(Sched)) /\ Goto(InUser) /\ UNCHANGED <<semcnt, squeue, psem, sstate, pprio>>
    BY <1>1, <1>4 DEF signalnLoop, procVars
  <2>2. semcnt' \in [Sem -> Int] /\ AllCountsMatch'
    BY <1>2, <2>1 DEF TableTypes, AllCountsMatch
  <2> QED BY <1>1, <1>2, <2>1, <2>2, LeaveLoop
<1> QED BY <1>3, <1>4

LEMMA flushLoopStep ==
    ASSUME IInv, flushLoop, UNCHANGED load
    PROVE  IInv'
<1> DEFINE c == cont[currpid]
           sem == c.a
<1>1. c.op \in {"sdelete", "sreset"} /\ UNCHANGED <<procVars, allocVars, deferVars, sstate, nextsem, due>>
  BY DEF flushLoop, In
<1>2. /\ TableTypes /\ Good(Sched) /\ Running(Sched) /\ QueuesMatch /\ ClockView(Sched)
      /\ sem \in Sem /\ currpid \in Pid /\ SemCountMatchesQueue /\ c \in KopType
      /\ (c.op = "sreset" => sstate[sem] = "SUSED" /\ c.n \in Nat)
      /\ (c.op = "sdelete" => sstate[sem] = "SFREE")
  BY <1>1, SemLoopFacts
<1>3. CASE squeue[sem] # <<>>
  <2> DEFINE h == Head(squeue[sem])
             r == ready(Sched, h)
  <2>1. SchedIs(r) /\ squeue' = [squeue EXCEPT ![sem] = Tail(@)] /\ UNCHANGED <<semcnt, cont>>
    BY <1>3 DEF flushLoop, FlushOne
  <2>2. squeue \in [Sem -> Seq(Pid)]
    BY <1>2 DEF TableTypes
  <2>3. currpid' = currpid
    <3>1. r.currpid = currpid
      BY DEF ready, insert, Sched
    <3> QED BY <2>1, <3>1 DEF SchedIs
  <2> HIDE DEF sem
  <2>4. /\ h \in Pid /\ pstate[h] = "PRWAIT" /\ Good(r) /\ Running(r) /\ r.pprio = pprio
        /\ r.pstate = [pstate EXCEPT ![h] = "PRREADY"] /\ ClockView(r)
    BY <1>2, <1>3, <2>2, ReleaseGood
  <2> HIDE DEF r
  <2>5. Sched' = r /\ pstate' = r.pstate
    BY <1>1, <2>1, <2>4, SchedNext DEF Good, SchedGood, SchedIs, procVars
  <2>6. \A q \in Pid : pstate'[q] = "PRWAIT" <=> pstate[q] = "PRWAIT" /\ q # h
    BY <1>2, <2>4, <2>5, SchedNow
  <2>7. QueuesMatch' /\ squeue' \in [Sem -> Seq(Pid)] /\ \A s \in Sem : s # sem => squeue'[s] = squeue[s]
    BY <1>1, <1>2, <1>3, <2>1, <2>2, <2>6, QueueTail DEF procVars
  <2>8. TableTypes' /\ Parked' /\ KillTargets' /\ cont'[currpid'] = c
    BY <1>1, <1>2, <2>1, <2>3, <2>7
       DEF TableTypes, Parked, KillTargets, IInv, procVars, allocVars, deferVars
  <2>9. LoopState'
    BY <1>1, <1>2, <2>8 DEF LoopState, sem
  <2>10. SemCountMatchesQueue'
    BY <1>1, <1>2, <2>1, <2>3, <2>7, <2>8 DEF SemCountMatchesQueue, Busy, sem
  <2> QED BY <1>1, <2>4, <2>5, <2>7, <2>8, <2>9, <2>10, LoopStep DEF RankStale
<1>4. CASE squeue[sem] = <<>>
  <2>1. /\ semcnt' = IF In("sreset") THEN [semcnt EXCEPT ![sem] = c.n] ELSE semcnt
        /\ SchedIs(resched(Sched)) /\ Goto(InUser) /\ UNCHANGED <<squeue, psem, sstate, pprio>>
    BY <1>1, <1>4 DEF flushLoop, procVars
  <2>2. semcnt \in [Sem -> Int] /\ squeue' = squeue /\ sstate' = sstate
        /\ (In("sreset") <=> c.op = "sreset")
    BY <1>2, <2>1 DEF TableTypes, In
  <2>3. \A s \in Sem : s # sem => ~ Busy(s)
    BY DEF Busy
  <2> HIDE DEF sem, c
  <2>4. /\ semcnt' \in [Sem -> Int] /\ (c.op = "sreset" => semcnt'[sem] = c.n)
        /\ \A s \in Sem : s # sem => semcnt'[s] = semcnt[s]
    BY <1>2, <2>1, <2>2
  <2>5. AllCountsMatch'
    <3>1. ASSUME NEW s \in Sem
          PROVE  IF sstate'[s] = "SFREE" \/ semcnt'[s] >= 0
                   THEN squeue'[s] = <<>> ELSE Len(squeue'[s]) = - semcnt'[s]
      <4>1. CASE s # sem
        BY <1>2, <2>2, <2>3, <2>4, <4>1 DEF SemCountMatchesQueue
      <4>2. CASE s = sem
        <5>1. sstate'[s] = "SFREE" \/ semcnt'[s] >= 0
          BY <1>1, <1>2, <2>2, <2>4, <4>2
        <5> QED BY <1>4, <2>2, <4>2, <5>1
      <4> QED BY <4>1, <4>2
    <3> QED BY <3>1 DEF AllCountsMatch
  <2> QED BY <1>1, <1>2, <2>1, <2>4, <2>5, LeaveLoop
<1> QED BY <1>3, <1>4

-----------------------------------------------------------------------------
(* The clock: clkint.s, clkinit.c, wakeup.c, ssclock.c *)

LEMMA KeptLow ==
    ASSUME NEW low \in Int, NEW n \in Int
    PROVE  AtLeast(low, n) \in Int
  BY DEF AtLeast

Rekeyed(s, key, pre) == [s EXCEPT !.qkey = key, !.preempt = pre]

(* A change of preempt or of the keys of the delta list concerns nothing else. *)
LEMMA KeysKeep ==
    ASSUME NEW s, Good(s), NEW key \in [Pid -> Int], NEW pre \in Int,
           \A q \in Pid : OnList(s.clockq, q) \/ key[q] = s.qkey[q]
    PROVE  LET t == Rekeyed(s, key, pre)
           IN  /\ Good(t) /\ SameClock(s, t)
               /\ t.pstate = s.pstate /\ t.currpid = s.currpid
<1> DEFINE t == Rekeyed(s, key, pre)
<1>1. SUFFICES Good(t) /\ SameClock(s, t) /\ t.pstate = s.pstate /\ t.currpid = s.currpid
  OBVIOUS
<1>2. s \in SchedType /\ s.rdy \in Seq(Pid) /\ s.qkey \in [Pid -> Int]
  BY DEF Good, SchedGood, SchedType
<1>3. /\ t \in SchedType /\ t.qkey = key /\ t.rdy = s.rdy /\ t.pstate = s.pstate
      /\ t.currpid = s.currpid /\ t.clockq = s.clockq /\ SameClock(s, t)
  BY <1>2 DEF SchedType, SameClock, Rekeyed
<1> HIDE DEF t
<1>4. \A q \in Pid : s.pstate[q] = "PRREADY" => key[q] = s.qkey[q]
  BY NullIsPid DEF Good, ClockListBut, Timed
<1>5. SortedBy(s.rdy, key)
  <2>1. \A i \in 1 .. Len(s.rdy) : key[s.rdy[i]] = s.qkey[s.rdy[i]]
    <3> TAKE i \in 1 .. Len(s.rdy)
    <3>1. s.rdy[i] \in Pid /\ OnList(s.rdy, s.rdy[i])
      BY <1>2 DEF OnList
    <3>2. s.pstate[s.rdy[i]] = "PRREADY"
      BY <3>1 DEF Good, SchedGood, ReadyListBut
    <3> QED BY <1>4, <3>1, <3>2
  <2> QED BY <2>1 DEF Good, SchedGood, ReadyListBut, SortedBy
<1>6. ReadyListBut(t, BADPID)
  BY <1>3, <1>4, <1>5 DEF Good, SchedGood, ReadyListBut, SameClock
<1> QED BY <1>3, <1>6 DEF Good, SchedGood, OneCurrent, NullEligible, ClockListBut

(* A step of the clock code that dispatches nobody: to a good scheduler state *)
(* t and on to k.                                                             *)
LEMMA ClockStep ==
    ASSUME IInv, AllCountsMatch, UNCHANGED <<psem, sstate, semcnt, squeue>>,
           NEW k \in KopType, Goto(k),
           k.op \in {"wakeupC", "wakeupS", "makeup", "clpreem", "strtclk"},
           k.op = "makeup" => k.a \in Nat /\ k.a >= 1,
           NEW t, SchedIs(t), pprio' = t.pprio, Good(t), Running(t), t.currpid = currpid,
           k.op \notin ViewStale => ClockView(t) /\ Highest(t),
           \A p \in Pid : t.pstate[p] = "PRWAIT" <=> pstate[p] = "PRWAIT",
           cont' \in [Pid -> KopType] => TableTypes'
    PROVE  IInv'
<1>1. Sched' = t /\ pstate' = t.pstate /\ currpid' = currpid
  BY SchedNext DEF Good, SchedGood, SchedIs
<1>2. QueuesMatch'
  BY <1>1 DEF QueuesMatch, IInv
<1>3. AllCountsMatch'
  BY DEF AllCountsMatch
<1>4. CASE k.op \in {"clpreem", "strtclk"}
  <2>1. cont' \in [Pid -> KopType] /\ AllParked' /\ KillTargets'
    BY <1>4, GotoParked DEF ParkedOps
  <2> QED BY <1>1, <1>2, <1>3, <1>4, <2>1, ParkedStep DEF ViewStale
<1>5. CASE k.op \in {"wakeupC", "wakeupS", "makeup"}
  <2>1. cont' \in [Pid -> KopType] /\ Parked' /\ KillTargets' /\ cont'[currpid'] = k
    BY <1>1, <1>5, GotoLoop DEF LoopOps
  <2>2. LoopState' /\ SemCountMatchesQueue'
    BY <1>3, <1>5, <2>1 DEF LoopState, SemCountMatchesQueue, AllCountsMatch
  <2>3. cont'[currpid'].op \notin RankStale => k.op \notin ViewStale
    BY <2>1 DEF RankStale
  <2> QED BY <1>1, <1>2, <2>1, <2>2, <2>3 DEF IInv
<1> QED BY <1>4, <1>5

LEMMA tickStep ==
    ASSUME IInv, tick, UNCHANGED load
    PROVE  IInv'
<1>1. /\ cont[currpid] = InUser /\ due' = TickedDue
      /\ UNCHANGED <<procVars, pstate, currpid, rdy, preempt, clockq, slnempty, sltop,
                     allocVars, defclk, semVars>>
  BY DEF tick, Interruptible
<1>2. /\ AllCountsMatch /\ ClockView(Sched) /\ Highest(Sched)
      /\ TableTypes /\ Good(Sched) /\ Running(Sched)
  BY <1>1, UserFacts
<1>3. due' \in [Pid -> Int]
  <2>1. \A p \in Pid : AtLeast(0, due[p] - 1) \in Int
    BY <1>2 DEF TableTypes, AtLeast
  <2> QED BY <1>1, <2>1 DEF TickedDue
<1>4. CASE Deferred
  <2>1. clkdiff' = clkdiff + 1 /\ UNCHANGED <<qkey, cont>>
    BY <1>4 DEF tick
  <2>2. TableTypes'
    BY SMTT(30), <1>1, <1>2, <1>3, <2>1 DEF TableTypes, procVars, allocVars, semVars
  <2>3. Sched' = Sched
    BY <1>1, <2>1, SchedSame DEF schedVars, procVars
  <2> QED BY <1>1, <1>2, <2>1, <2>2, <2>3, QuietCall DEF procVars, semVars
<1>5. CASE ~ Deferred
  <2> DEFINE k == IF Expired THEN Kop("wakeupC", 0, 0) ELSE Kop("clpreem", 0, 0)
             key == TickedKeys
             t == Rekeyed(Sched, key, preempt)
  <2>1. qkey' = TickedKeys /\ Goto(k) /\ UNCHANGED clkdiff
    BY <1>5 DEF tick
  <2>2. k \in KopType /\ k.op \in {"wakeupC", "clpreem"}
    BY KopFacts DEF ParkedOps, LoopOps
  <2> HIDE DEF k
  <2>3. /\ qkey \in [Pid -> Int] /\ preempt \in Int /\ sltop \in Pid \cup {EMPTY}
        /\ clockq \in Seq(Pid)
    BY <1>2, SchedNow DEF Sched, SchedType
  <2>4. TickedKeys \in [Pid -> Int] /\ \A q \in Pid : OnList(clockq, q) \/ TickedKeys[q] = qkey[q]
    <3>1. CASE slnempty
      <4>1. clockq # <<>> /\ sltop = clockq[1]
        BY <1>2, <3>1 DEF ClockView, Sched
      <4>2. 1 \in 1 .. Len(clockq) /\ sltop \in Pid /\ OnList(clockq, sltop)
        BY <2>3, <4>1 DEF OnList
      <4>3. AtLeast(KeyMin, qkey[sltop] - 1) \in Int
        <5>1. qkey[sltop] - 1 \in Int /\ KeyMin \in Int
          BY <2>3, <4>2 DEF KeyMin
        <5> QED BY <5>1, KeptLow
      <4>4. TickedKeys = [qkey EXCEPT ![sltop] = AtLeast(KeyMin, qkey[sltop] - 1)]
        BY <3>1 DEF TickedKeys
      <4> QED BY <2>3, <4>2, <4>3, <4>4
    <3>2. CASE ~ slnempty
      BY <2>3, <3>2 DEF TickedKeys
    <3> QED BY <3>1, <3>2
  <2>5. Good(t) /\ SameClock(Sched, t) /\ t.pstate = Sched.pstate /\ t.currpid = Sched.currpid
    <3>1. key \in [Pid -> Int] /\ \A q \in Pid : OnList(Sched.clockq, q) \/ key[q] = Sched.qkey[q]
      BY <2>4 DEF Sched
    <3> HIDE DEF key
    <3> QED BY <1>2, <2>3, <3>1, KeysKeep
  <2>6. SchedIs(t)
    BY <1>1, <2>1 DEF SchedIs, Sched, Rekeyed
  <2> HIDE DEF t
  <2>7. /\ ClockView(t) /\ Highest(t) /\ Running(t) /\ t.currpid = currpid /\ t.pprio = pprio
        /\ t.pstate = pstate
    BY <1>2, <2>5, SchedNow, ViewKept DEF Highest, Running, SameClock
  <2>8. cont' \in [Pid -> KopType] => TableTypes'
    BY <1>1, <1>2, <1>3, <2>1 DEF TableTypes, procVars, allocVars, semVars
  <2>9. UNCHANGED <<psem, sstate, semcnt, squeue, pprio>>
    BY <1>1 DEF procVars, semVars
  <2> QED BY <1>2, <2>1, <2>2, <2>5, <2>6, <2>7, <2>8, <2>9, ClockStep
<1> QED BY <1>4, <1>5

LEMMA wakeupLoopStep ==
    ASSUME IInv, wakeupLoop, UNCHANGED load
    PROVE  IInv'
<1> DEFINE c == cont[currpid]
<1>1. c.op \in {"wakeupC", "wakeupS"} /\ UNCHANGED <<procVars, allocVars, deferVars, semVars>>
  BY DEF wakeupLoop, In
<1>2. /\ TableTypes /\ Good(Sched) /\ Running(Sched) /\ AllCountsMatch /\ currpid \in Pid
      /\ c \in KopType /\ clockq \in Seq(Pid)
  BY <1>1, SchedNow DEF IInv, AllCountsMatch, SemCountMatchesQueue, Busy, TableTypes
<1>3. /\ Sched.pstate = pstate /\ Sched.currpid = currpid /\ Sched.clockq = clockq
      /\ Sched.pprio = pprio /\ pstate \in [Pid -> States] /\ pstate[currpid] = "PRCURR"
      /\ \A p \in Pid : OnList(clockq, p) <=> pstate[p] \in Timed
  BY <1>2, SchedNow
<1>4. CASE ExpiredHead
  <2> DEFINE p == clockq[1]
             s == [Sched EXCEPT !.clockq = Tail(@)]
             t == ready(s, p)
  <2>1. SchedIs(t) /\ due' = [due EXCEPT ![p] = 0] /\ UNCHANGED cont /\ clockq # <<>>
    BY <1>4 DEF wakeupLoop, WakeOne, ExpiredHead
  <2>2. NoDup(clockq)
    BY <1>2, <1>3 DEF Good, ClockListBut
  <2>3. /\ p \in Pid /\ OnList(clockq, p) /\ Tail(clockq) \in Seq(Pid) /\ NoDup(Tail(clockq))
        /\ \A q \in Pid : OnList(Tail(clockq), q) <=> OnList(clockq, q) /\ q # p
    BY <1>2, <2>1, <2>2, TailFacts
  <2>4. /\ s \in SchedType /\ s.pstate = pstate /\ s.clockq = Tail(clockq) /\ s.pprio = pprio
        /\ s.currpid = currpid /\ s.rdy = Sched.rdy /\ s.qkey = Sched.qkey
    BY <1>2, <1>3, <2>3 DEF Good, SchedGood, SchedType
  <2> HIDE DEF s, p
  <2>5. SchedGood(s)
    BY <1>2, <1>3, <2>4 DEF Good, SchedGood, ReadyListBut, OneCurrent, NullEligible
  <2>6. pstate[p] \in Timed /\ pstate[p] \notin Eligible /\ p # NULLPROC /\ p # currpid
    <3>1. pstate[p] \in Timed
      BY <1>3, <2>3
    <3>2. pstate[p] \notin Eligible
      BY <3>1, TimedNotEligible
    <3> QED BY <1>3, <2>4, <2>5, <3>1, <3>2 DEF SchedGood, NullEligible, Eligible
  <2>7. ClockListBut(s, p)
    BY <1>3, <2>3, <2>4 DEF ClockListBut
  <2>8. /\ Good(t) /\ t.pstate = [pstate EXCEPT ![p] = "PRREADY"] /\ t.currpid = currpid
        /\ t.pprio = pprio
    <3>1. /\ Good(t) /\ t.pstate = [s.pstate EXCEPT ![p] = "PRREADY"]
          /\ t.currpid = s.currpid /\ SameClock(s, t)
      BY <2>3, <2>4, <2>5, <2>6, <2>7, ReadyKeeps
    <3> QED BY <2>4, <3>1 DEF SameClock
  <2> HIDE DEF t
  <2>9. Running(t) /\ \A q \in Pid : t.pstate[q] = "PRWAIT" <=> pstate[q] = "PRWAIT"
    BY <1>2, <1>3, <2>3, <2>6, <2>8 DEF Running, Timed
  <2>10. Goto(c) /\ cont' \in [Pid -> KopType]
    BY <1>2, <2>1 DEF Goto, TableTypes
  <2>11. TableTypes'
    <3>1. due' \in [Pid -> Int]
      BY <1>2, <2>1, <2>3 DEF TableTypes
    <3> QED BY <1>1, <1>2, <2>1, <2>10, <3>1 DEF TableTypes, procVars, allocVars, deferVars, semVars
  <2>12. c.op \in ViewStale /\ UNCHANGED <<psem, sstate, semcnt, squeue, pprio>>
    BY <1>1 DEF ViewStale, procVars, semVars
  <2> HIDE DEF c
  <2> QED BY <1>1, <1>2, <2>1, <2>8, <2>9, <2>10, <2>11, <2>12, ClockStep
<1>5. CASE ~ ExpiredHead
  <2> DEFINE s == [Sched EXCEPT !.slnempty = clockq # <<>>,
                                !.sltop = IF clockq # <<>> THEN clockq[1] ELSE @]
             t == resched(s)
             k == IF In("wakeupC") THEN Kop("clpreem", 0, 0) ELSE Kop("strtclk", 0, 0)
  <2>1. SchedIs(t) /\ Goto(k) /\ UNCHANGED due
    BY <1>5 DEF wakeupLoop, AfterWakeup
  <2>2. k \in KopType /\ k.op \in ParkedOps /\ k.op # "kill"
    BY KopFacts DEF ParkedOps
  <2> HIDE DEF k
  <2>3. cont' \in [Pid -> KopType] /\ AllParked' /\ KillTargets'
    BY <2>1, <2>2, GotoParked
  <2>4. /\ s \in SchedType /\ s.pstate = pstate /\ s.clockq = clockq /\ s.pprio = pprio
        /\ s.currpid = currpid /\ s.rdy = Sched.rdy /\ s.qkey = Sched.qkey /\ ClockView(s)
    <3>1. clockq # <<>> => clockq[1] \in Pid
      BY <1>2
    <3> QED BY <1>2, <1>3, <3>1 DEF Good, SchedGood, SchedType, ClockView
  <2> HIDE DEF s
  <2>5. Good(s)
    BY <1>2, <1>3, <2>4
       DEF Good, SchedGood, ReadyListBut, OneCurrent, NullEligible, ClockListBut
  <2>6. /\ Good(t) /\ Running(t) /\ Highest(t) /\ ClockView(t)
        /\ SameClock(s, t) /\ SameBlocked(s, t)
    BY <2>4, <2>5, ReschedKeeps
  <2> HIDE DEF t
  <2>7. t.pprio = pprio /\ \A q \in Pid : t.pstate[q] = "PRWAIT" <=> pstate[q] = "PRWAIT"
    BY <2>4, <2>6 DEF SameClock, SameBlocked, Eligible
  <2>8. TableTypes'
    BY <1>1, <1>2, <2>1, <2>3 DEF TableTypes, procVars, allocVars, deferVars, semVars
  <2> QED BY <1>1, <1>2, <2>1, <2>3, <2>6, <2>7, <2>8, ParkedSched DEF procVars, semVars
<1> QED BY <1>4, <1>5

LEMMA clpreemStep ==
    ASSUME IInv, clpreem, UNCHANGED load
    PROVE  IInv'
<1> DEFINE n == AtLeast(PreemptMin, preempt - 1)
           s == [Sched EXCEPT !.preempt = n]
           over == QuantumOver(preempt - 1)
           t == IF over THEN resched(s) ELSE s
<1>1. /\ cont[currpid].op \in ParkedOps /\ SchedIs(t) /\ Goto(InUser)
      /\ UNCHANGED <<procVars, allocVars, deferVars, semVars, due>>
  BY DEF clpreem, In, ParkedOps
<1>2. /\ AllCountsMatch /\ ClockView(Sched) /\ Highest(Sched)
      /\ TableTypes /\ Good(Sched) /\ Running(Sched)
  BY <1>1, CurrentParked DEF IInv
<1>3. cont' \in [Pid -> KopType] /\ AllParked' /\ KillTargets'
  BY <1>1, UserIsParked, GotoParked
<1>4. n \in Int
  <2>1. preempt - 1 \in Int /\ PreemptMin \in Int
    <3>1. preempt \in Int
      BY <1>2 DEF Good, SchedGood, SchedType, Sched
    <3> QED BY <3>1 DEF PreemptMin
  <2> QED BY <2>1, KeptLow
<1> HIDE DEF n, over
<1>5. /\ Good(s) /\ Running(s) /\ Highest(s) /\ ClockView(s) /\ s.pprio = pprio
      /\ s.pstate = pstate
  <2>1. Sched \in SchedType /\ Sched.pstate = pstate /\ Sched.pprio = pprio
    BY <1>2, SchedNow
  <2>2. /\ s \in SchedType /\ s.pstate = Sched.pstate /\ s.pprio = Sched.pprio
        /\ s.rdy = Sched.rdy /\ s.qkey = Sched.qkey /\ s.currpid = Sched.currpid
        /\ s.clockq = Sched.clockq /\ s.slnempty = Sched.slnempty /\ s.sltop = Sched.sltop
    BY <1>4, <2>1 DEF SchedType
  <2> HIDE DEF s
  <2> QED BY <1>2, <2>1, <2>2
          DEF Good, SchedGood, ReadyListBut, OneCurrent, NullEligible, ClockListBut,
              Running, Highest, ClockView
<1> HIDE DEF s
<1>6. /\ Good(t) /\ Running(t) /\ Highest(t) /\ ClockView(t) /\ t.pprio = pprio
      /\ \A q \in Pid : t.pstate[q] = "PRWAIT" <=> pstate[q] = "PRWAIT"
  <2>1. CASE over
    <3>1. t = resched(s)
      BY <2>1
    <3>2. /\ Good(t) /\ Running(t) /\ Highest(t) /\ ClockView(t)
          /\ SameClock(s, t) /\ SameBlocked(s, t)
      BY <1>5, <3>1, ReschedKeeps
    <3> HIDE DEF t
    <3> QED BY <1>5, <3>2 DEF SameClock, SameBlocked, Eligible
  <2>2. CASE ~ over
    <3>1. t = s
      BY <2>2
    <3> HIDE DEF t
    <3> QED BY <1>5, <3>1
  <2> QED BY <2>1, <2>2
<1> HIDE DEF t
<1>7. TableTypes'
  BY <1>1, <1>2, <1>3 DEF TableTypes, procVars, allocVars, deferVars, semVars
<1> QED BY <1>1, <1>2, <1>3, <1>6, <1>7, ParkedSched DEF procVars, semVars

LEMMA strtclkFinishStep ==
    ASSUME IInv, strtclkFinish, UNCHANGED load
    PROVE  IInv'
<1> DEFINE t == IF preempt <= 0 THEN resched(Sched) ELSE Sched
<1>1. /\ cont[currpid].op \in ParkedOps /\ SchedIs(t) /\ Goto(InUser)
      /\ UNCHANGED <<procVars, allocVars, deferVars, semVars, due>>
  BY DEF strtclkFinish, In, ParkedOps
<1>2. /\ AllCountsMatch /\ ClockView(Sched) /\ Highest(Sched)
      /\ TableTypes /\ Good(Sched) /\ Running(Sched)
  BY <1>1, CurrentParked DEF IInv
<1>3. cont' \in [Pid -> KopType] /\ AllParked' /\ KillTargets'
  BY <1>1, UserIsParked, GotoParked
<1>4. Sched.pstate = pstate /\ Sched.pprio = pprio
  BY <1>2, SchedNow
<1>5. /\ Good(t) /\ Running(t) /\ Highest(t) /\ ClockView(t) /\ t.pprio = pprio
      /\ \A q \in Pid : t.pstate[q] = "PRWAIT" <=> pstate[q] = "PRWAIT"
  <2>1. CASE preempt <= 0
    <3>1. t = resched(Sched)
      BY <2>1
    <3>2. /\ Good(t) /\ Running(t) /\ Highest(t) /\ ClockView(t)
          /\ SameClock(Sched, t) /\ SameBlocked(Sched, t)
      BY <1>2, <3>1, ReschedKeeps
    <3> HIDE DEF t
    <3> QED BY <1>4, <3>2 DEF SameClock, SameBlocked, Eligible
  <2>2. CASE ~ (preempt <= 0)
    <3>1. t = Sched
      BY <2>2
    <3> HIDE DEF t
    <3> QED BY <1>2, <1>4, <3>1
  <2> QED BY <2>1, <2>2
<1> HIDE DEF t
<1>6. TableTypes'
  BY <1>1, <1>2, <1>3 DEF TableTypes, procVars, allocVars, deferVars, semVars
<1> QED BY <1>1, <1>2, <1>3, <1>5, <1>6, ParkedSched DEF procVars, semVars

LEMMA stopclkStep ==
    ASSUME IInv, stopclk, UNCHANGED load
    PROVE  IInv'
<1>1. /\ cont[currpid] = InUser /\ defclk' = defclk + 1
      /\ UNCHANGED <<procVars, schedVars, allocVars, clkdiff, semVars, cont, due>>
  BY DEF stopclk, Call, Interruptible
<1>2. TableTypes'
  BY SMTT(30), <1>1 DEF IInv, TableTypes, procVars, allocVars, semVars
<1> QED BY <1>1, <1>2, TableCall DEF procVars, semVars

LEMMA strtclkStep ==
    ASSUME IInv, strtclk, UNCHANGED load
    PROVE  IInv'
<1>1. /\ cont[currpid] = InUser /\ defclk > 0 /\ defclk' = defclk - 1
      /\ UNCHANGED <<procVars, pstate, currpid, rdy, qkey, clockq, slnempty, sltop,
                     allocVars, semVars, due>>
  BY DEF strtclk, Call, Interruptible
<1>2. /\ AllCountsMatch /\ ClockView(Sched) /\ Highest(Sched)
      /\ TableTypes /\ Good(Sched) /\ Running(Sched)
  BY <1>1, UserFacts
<1>3. defclk' \in Nat
  BY <1>1, <1>2 DEF TableTypes
<1>4. CASE defclk - 1 > 0
  <2>1. UNCHANGED <<preempt, clkdiff, cont>>
    BY <1>4 DEF strtclk
  <2>2. TableTypes'
    BY <1>1, <1>2, <1>3, <2>1 DEF TableTypes, procVars, allocVars, semVars
  <2> QED BY <1>1, <2>1, <2>2, TableCall DEF procVars, semVars, schedVars
<1>5. CASE ~ (defclk - 1 > 0)
  <2> DEFINE k == IF slnempty THEN Kop("makeup", 1, clkdiff) ELSE Kop("strtclk", 0, 0)
             n == AtLeast(PreemptMin, preempt - clkdiff)
             t == Rekeyed(Sched, qkey, n)
  <2>1. preempt' = n /\ clkdiff' = 0 /\ Goto(k)
    BY <1>5 DEF strtclk
  <2>2. preempt \in Int /\ qkey \in [Pid -> Int] /\ clkdiff \in Int /\ qkey = Sched.qkey
    BY <1>2 DEF Good, SchedGood, SchedType, Sched, TableTypes
  <2>3. k \in KopType /\ k.op \in {"makeup", "strtclk"} /\ (k.op = "makeup" => k.a = 1)
    BY <2>2, KopFacts DEF ParkedOps, LoopOps
  <2>4. n \in Int
    <3>1. preempt - clkdiff \in Int /\ PreemptMin \in Int
      BY <2>2 DEF PreemptMin
    <3> QED BY <3>1, KeptLow
  <2>5. SchedIs(t)
    BY <1>1, <2>1 DEF SchedIs, Sched, Rekeyed
  <2> HIDE DEF k, n
  <2>6. Good(t) /\ SameClock(Sched, t) /\ t.pstate = Sched.pstate /\ t.currpid = Sched.currpid
    BY <1>2, <2>2, <2>4, KeysKeep
  <2> HIDE DEF t
  <2>7. /\ ClockView(t) /\ Highest(t) /\ Running(t) /\ t.currpid = currpid /\ t.pprio = pprio
        /\ t.pstate = pstate
    BY <1>2, <2>6, SchedNow, ViewKept DEF Highest, Running, SameClock
  <2>8. cont' \in [Pid -> KopType] => TableTypes'
    BY <1>1, <1>2, <1>3, <2>1 DEF TableTypes, procVars, allocVars, semVars
  <2>9. UNCHANGED <<psem, sstate, semcnt, squeue, pprio>>
    BY <1>1 DEF procVars, semVars
  <2> QED BY <1>2, <2>1, <2>3, <2>5, <2>6, <2>7, <2>8, <2>9, ClockStep
<1> QED BY <1>4, <1>5

LEMMA makeupLoopStep ==
    ASSUME IInv, makeupLoop, UNCHANGED load
    PROVE  IInv'
<1> DEFINE c == cont[currpid]
           i == c.a
           m == c.n
           more == i <= Len(clockq) /\ qkey[clockq[i]] < m
           key == IF more THEN [qkey EXCEPT ![clockq[i]] = 0]
                  ELSE IF i <= Len(clockq) THEN [qkey EXCEPT ![clockq[i]] = @ - m] ELSE qkey
           k == IF more THEN Kop("makeup", i + 1, m - qkey[clockq[i]])
                ELSE Kop("wakeupS", 0, 0)
           t == Rekeyed(Sched, key, preempt)
<1>1. /\ c.op = "makeup" /\ qkey' = key /\ Goto(k)
      /\ UNCHANGED <<procVars, pstate, currpid, rdy, preempt, clockq, slnempty,
                     sltop, allocVars, deferVars, semVars, due>>
  BY DEF makeupLoop, In
<1>2. /\ TableTypes /\ Good(Sched) /\ Running(Sched) /\ AllCountsMatch
      /\ ClockView(Sched) /\ Highest(Sched) /\ i \in Nat /\ i >= 1
  BY <1>1 DEF IInv, AllCountsMatch, SemCountMatchesQueue, Busy, LoopState, ViewStale, RankStale
<1>3. /\ qkey = Sched.qkey /\ qkey \in [Pid -> Int] /\ preempt \in Int /\ clockq \in Seq(Pid)
      /\ m \in Int
  <2>1. currpid \in Pid
    BY <1>2, SchedNow
  <2> QED BY <1>2, <2>1 DEF Good, SchedGood, SchedType, Sched, TableTypes, KopType
<1> HIDE DEF m, i, c
<1>4. i <= Len(clockq) => clockq[i] \in Pid /\ OnList(clockq, clockq[i])
  BY <1>2, <1>3 DEF OnList
<1>5. key \in [Pid -> Int] /\ \A q \in Pid : OnList(clockq, q) \/ key[q] = qkey[q]
  <2>1. CASE more
    BY <1>3, <1>4, <2>1
  <2>2. CASE ~ more /\ i <= Len(clockq)
    <3>1. key = [qkey EXCEPT ![clockq[i]] = qkey[clockq[i]] - m]
      BY <2>2
    <3> QED BY <1>3, <1>4, <2>2, <3>1
  <2>3. CASE ~ more /\ ~ (i <= Len(clockq))
    BY <1>3, <2>3
  <2> QED BY <2>1, <2>2, <2>3
<1>6. k \in KopType /\ k.op \in {"makeup", "wakeupS"} /\ (k.op = "makeup" => k.a \in Nat /\ k.a >= 1)
  <2>1. CASE more
    <3>1. i + 1 \in Nat /\ i + 1 >= 1 /\ m - qkey[clockq[i]] \in Int
      BY <1>2, <1>3, <1>4, <2>1
    <3>2. k = Kop("makeup", i + 1, m - qkey[clockq[i]])
      BY <2>1
    <3> QED BY <3>1, <3>2, KopFacts DEF LoopOps
  <2>2. CASE ~ more
    <3>1. k = Kop("wakeupS", 0, 0)
      BY <2>2
    <3> QED BY <3>1, KopFacts DEF LoopOps
  <2> QED BY <2>1, <2>2
<1> HIDE DEF key, k
<1>7. SchedIs(t)
  BY <1>1 DEF SchedIs, Sched, Rekeyed
<1>8. Good(t) /\ SameClock(Sched, t) /\ t.pstate = Sched.pstate /\ t.currpid = Sched.currpid
  <2>1. \A q \in Pid : OnList(Sched.clockq, q) \/ key[q] = Sched.qkey[q]
    BY <1>5 DEF Sched
  <2> QED BY <1>2, <1>3, <1>5, <2>1, KeysKeep
<1> HIDE DEF t
<1>9. /\ ClockView(t) /\ Highest(t) /\ Running(t) /\ t.currpid = currpid /\ t.pprio = pprio
      /\ t.pstate = pstate
  BY <1>2, <1>8, SchedNow, ViewKept DEF Highest, Running, SameClock
<1>10. cont' \in [Pid -> KopType] => TableTypes'
  BY <1>1, <1>2 DEF TableTypes, procVars, allocVars, deferVars, semVars
<1>11. UNCHANGED <<psem, sstate, semcnt, squeue, pprio>>
  BY <1>1 DEF procVars, semVars
<1> QED BY <1>1, <1>2, <1>6, <1>7, <1>8, <1>9, <1>10, <1>11, ClockStep

-----------------------------------------------------------------------------
(* kill.c *)

LEMMA killStep ==
    ASSUME IInv, NEW pid \in Pid, kill(pid), UNCHANGED load
    PROVE  IInv'
<1> DEFINE k == Kop("kill", pid, 0)
<1>1. /\ cont[currpid] = InUser /\ pid # NULLPROC /\ numproc' = numproc - 1
      /\ SendEffect(pnxtkin[pid], pid) /\ Goto(k)
      /\ UNCHANGED <<pprio, psem, pnxtkin, nextproc, stkfree, deferVars, semVars>>
  BY DEF kill, Call, Interruptible
<1>2. /\ AllCountsMatch /\ ClockView(Sched) /\ Highest(Sched) /\ TableTypes /\ QueuesMatch
  BY <1>1, UserFacts
<1>3. pid \in Int /\ pid \in 1 .. NPROC - 1
  BY <1>1, KernelAssumption DEF Pid, NULLPROC
<1>4. k \in KopType /\ k.op = "kill" /\ k.a = pid /\ k.op \in ParkedOps
  BY <1>3, KopFacts DEF ParkedOps
<1> HIDE DEF k
<1>5. cont' \in [Pid -> KopType] /\ AllParked' /\ KillTargets'
  BY <1>1, <1>3, <1>4, GotoParked
<1>6. /\ Good(Sched') /\ Running(Sched') /\ Highest(Sched') /\ ClockView(Sched')
      /\ \A q \in Pid : pstate'[q] = "PRWAIT" <=> pstate[q] = "PRWAIT"
      /\ pmsg' \in [Pid -> Int] /\ phasmsg' \in [Pid -> Int] /\ due' \in [Pid -> Int]
  BY <1>1, <1>2, <1>3, SendEffectGood
<1>7. numproc' \in Int
  BY <1>1, <1>2 DEF TableTypes
<1>8. TableTypes'
  BY <1>1, <1>2, <1>5, <1>6, <1>7 DEF TableTypes, deferVars, semVars
<1>9. QueuesMatch' /\ AllCountsMatch'
  BY <1>1, <1>2, <1>6 DEF QueuesMatch, AllCountsMatch, semVars
<1> QED BY <1>5, <1>6, <1>8, <1>9, ParkedStep

(* The switch of kill.c leaves consistent lists, whatever the victim was doing. *)
LEMMA UnlinkSchedGood ==
    ASSUME Good(Sched), Running(Sched), Highest(Sched), ClockView(Sched),
           NEW pid \in Pid, pid # NULLPROC
    PROVE  LET t == UnlinkSched(pid)
           IN  /\ Good(t) /\ Running(t) /\ Highest(t) /\ ClockView(t) /\ t.pprio = pprio
               /\ \A q \in Pid : t.pstate[q] = "PRWAIT" <=> pstate[q] = "PRWAIT" /\ q # pid
<1> DEFINE m == Freed(pid)
           t == UnlinkSched(pid)
<1>1. SUFFICES /\ Good(t) /\ Running(t) /\ Highest(t) /\ ClockView(t) /\ t.pprio = pprio
               /\ \A q \in Pid : t.pstate[q] = "PRWAIT" <=> pstate[q] = "PRWAIT" /\ q # pid
  OBVIOUS
<1>2. /\ Sched.pstate = pstate /\ Sched.pprio = pprio /\ Sched.clockq = clockq
      /\ Sched.currpid = currpid
      /\ currpid \in Pid /\ pstate \in [Pid -> States] /\ pstate[currpid] = "PRCURR"
      /\ \A p \in Pid : OnList(clockq, p) <=> pstate[p] \in Timed
  BY SchedNow
<1>3. "PRFREE" \in States /\ "PRFREE" \notin Eligible /\ "PRFREE" \notin Timed
  BY DEF States, Eligible, Timed
<1>4. CASE pstate[pid] = "PRCURR"
  <2>1. pid = currpid
    BY <1>2, <1>4 DEF Good, SchedGood, OneCurrent
  <2> DEFINE b == resched([Sched EXCEPT !.pstate = [@ EXCEPT ![currpid] = "PRFREE"]])
  <2>2. t = b
    <3>1. t = resched(m)
      BY <1>4 DEF UnlinkSched, Timed
    <3> QED BY <2>1, <3>1 DEF Freed
  <2>3. /\ Good(b) /\ Running(b) /\ Highest(b) /\ ClockView(b) /\ b.pprio = pprio
        /\ \A q \in Pid : b.pstate[q] = "PRWAIT"
              <=> IF q = currpid THEN "PRFREE" = "PRWAIT" ELSE pstate[q] = "PRWAIT"
    BY <1>3, <2>1, BlockGood
  <2> HIDE DEF b, t
  <2>4. \A q \in Pid : b.pstate[q] = "PRWAIT" <=> pstate[q] = "PRWAIT" /\ q # pid
    BY <1>2, <2>1, <2>3
  <2> QED BY <2>2, <2>3, <2>4
<1>5. CASE pstate[pid] = "PRREADY"
  <2> DEFINE u == RemoveReady(m, pid)
  <2>1. t = u
    BY <1>5 DEF UnlinkSched, Timed
  <2>2. Sched.pstate[pid] = "PRREADY"
    BY <1>2, <1>5
  <2>3. /\ Good(u) /\ SameClock(Sched, u) /\ u.currpid = Sched.currpid
        /\ u.pstate = [Sched.pstate EXCEPT ![pid] = "PRFREE"]
    BY <1>3, <2>2, RemoveReadyKeeps DEF Freed
  <2> HIDE DEF u, t, m
  <2> QED BY <1>2, <1>5, <2>1, <2>3, ViewKept DEF Running, Highest, SameClock
<1>6. CASE pstate[pid] \notin Eligible
  <2>1. Sched.pstate[pid] # "PRREADY" /\ pid # currpid
    BY <1>2, <1>6 DEF Eligible
  <2>2. /\ SchedGood(m) /\ SameClock(Sched, m)
        /\ m.pstate = [Sched.pstate EXCEPT ![pid] = "PRFREE"] /\ m.currpid = Sched.currpid
        /\ (~ OnList(Sched.clockq, pid) => ClockListBut(m, BADPID))
    BY <1>3, <2>1, MarkKeeps DEF Freed
  <2>3. CASE pstate[pid] \in Timed
    <3> DEFINE u == unsleep(m, pid)
    <3>1. t = u
      BY <1>6, <2>3 DEF UnlinkSched, Eligible, Timed
    <3> HIDE DEF m
    <3>2. m.clockq = clockq /\ NoDup(m.clockq) /\ OnList(m.clockq, pid) /\ ClockView(m)
      BY <1>2, <2>2, <2>3, ViewKept DEF SameClock, Good, ClockListBut
    <3>3. \A q \in Pid : OnList(m.clockq, q) => m.pstate[q] # "PRREADY"
      BY <1>2, <2>2, <3>2 DEF Timed
    <3>4. /\ SchedGood(u) /\ u.pstate = m.pstate /\ u.pprio = m.pprio
          /\ u.currpid = m.currpid /\ NoDup(u.clockq)
          /\ \A q \in Pid : OnList(u.clockq, q) <=> OnList(m.clockq, q) /\ q # pid
          /\ ClockView(u)
      BY <2>2, <3>2, <3>3, UnsleepKeeps
    <3> HIDE DEF u, t
    <3>5. \A q \in Pid : u.pstate[q] = IF q = pid THEN "PRFREE" ELSE pstate[q]
      BY <1>2, <2>2, <3>4
    <3>6. ClockListBut(u, BADPID)
      BY <1>2, <1>3, <3>2, <3>4, <3>5, NullIsPid DEF ClockListBut
    <3>7. u.pprio = pprio /\ Running(u) /\ Highest(u)
      BY <1>2, <2>1, <2>2, <3>4, <3>5 DEF Running, Highest, SameClock
    <3> QED BY <3>1, <3>4, <3>5, <3>6, <3>7 DEF Good
  <2>4. CASE pstate[pid] \notin Timed
    <3>1. t = m
      BY <1>6, <2>4 DEF UnlinkSched, Eligible
    <3> HIDE DEF m, t
    <3>2. ClockListBut(m, BADPID) /\ ClockView(m)
      BY <1>2, <2>2, <2>4, ViewKept
    <3>3. \A q \in Pid : m.pstate[q] = IF q = pid THEN "PRFREE" ELSE pstate[q]
      BY <1>2, <2>2
    <3>4. m.pprio = pprio /\ Running(m) /\ Highest(m)
      BY <1>2, <2>1, <2>2, <3>3 DEF Running, Highest, SameClock
    <3> QED BY <2>2, <3>1, <3>2, <3>3, <3>4 DEF Good
  <2> QED BY <2>3, <2>4
<1> QED BY <1>4, <1>5, <1>6 DEF Eligible

(* The victim leaves its semaphore's queue and gives its place back. *)
LEMMA UnlinkSemGood ==
    ASSUME TableTypes, QueuesMatch, AllCountsMatch, NEW pid \in Pid, UnlinkSem(pid),
           UNCHANGED <<psem, sstate>>,
           \A q \in Pid : pstate'[q] = "PRWAIT" <=> pstate[q] = "PRWAIT" /\ q # pid
    PROVE  /\ semcnt' \in [Sem -> Int] /\ squeue' \in [Sem -> Seq(Pid)]
           /\ QueuesMatch' /\ AllCountsMatch'
<1>1. CASE pstate[pid] # "PRWAIT"
  <2>1. UNCHANGED <<semcnt, squeue>>
    BY <1>1 DEF UnlinkSem
  <2> QED BY <1>1, <2>1 DEF TableTypes, QueuesMatch, AllCountsMatch
<1>2. CASE pstate[pid] = "PRWAIT"
  <2> DEFINE sem == psem[pid]
             l == squeue[sem]
             d == dequeue(l, pid)
  <2>1. /\ sem \in Sem /\ semcnt \in [Sem -> Int] /\ squeue \in [Sem -> Seq(Pid)]
        /\ semcnt' = [semcnt EXCEPT ![sem] = semcnt[sem] + 1]
        /\ squeue' = [squeue EXCEPT ![sem] = d]
    BY <1>2 DEF TableTypes, UnlinkSem
  <2>2. l \in Seq(Pid) /\ NoDup(l) /\ OnList(l, pid)
    BY <1>2, <2>1 DEF QueuesMatch
  <2>3. /\ d \in Seq(Pid) /\ NoDup(d) /\ Len(d) = Len(l) - 1
        /\ \A q \in Pid : OnList(d, q) <=> OnList(l, q) /\ q # pid
    BY <2>2, DequeueFacts
  <2> HIDE DEF d, sem
  <2>4. /\ semcnt' \in [Sem -> Int] /\ semcnt'[sem] = semcnt[sem] + 1 /\ semcnt[sem] \in Int
        /\ squeue' \in [Sem -> Seq(Pid)] /\ squeue'[sem] = d
        /\ \A s \in Sem : s # sem => squeue'[s] = squeue[s] /\ semcnt'[s] = semcnt[s]
    BY <2>1, <2>3
  <2>5. QueuesMatch'
    <3>1. ASSUME NEW s \in Sem
          PROVE  /\ NoDup(squeue'[s])
                 /\ \A q \in Pid : OnList(squeue'[s], q) <=> pstate'[q] = "PRWAIT" /\ psem'[q] = s
      <4>1. CASE s = sem
        BY <2>3, <2>4, <4>1 DEF QueuesMatch
      <4>2. CASE s # sem
        BY <2>4, <4>2 DEF QueuesMatch, sem
      <4> QED BY <4>1, <4>2
    <3> QED BY <3>1 DEF QueuesMatch
  <2>6. AllCountsMatch'
    <3>1. l # <<>> /\ Len(l) \in Nat /\ Len(l) >= 1
      BY <2>2 DEF OnList
    <3>2. Len(l) = - semcnt[sem] /\ sstate[sem] # "SFREE" /\ semcnt[sem] < 0
      BY <2>1, <2>4, <3>1 DEF AllCountsMatch
    <3>3. Len(d) + semcnt'[sem] = 0 /\ Len(d) \in Nat /\ semcnt'[sem] \in Int
      BY <2>3, <2>4, <3>1, <3>2
    <3>4. IF sstate'[sem] = "SFREE" \/ semcnt'[sem] >= 0
            THEN squeue'[sem] = <<>> ELSE Len(squeue'[sem]) = - semcnt'[sem]
      <4>1. CASE semcnt'[sem] >= 0
        <5>1. Len(d) = 0
          BY <3>3, <4>1
        <5> QED BY <2>3, <2>4, <4>1, <5>1, EmptySeq
      <4>2. CASE ~ (semcnt'[sem] >= 0)
        <5>1. Len(d) = - semcnt'[sem] /\ sstate'[sem] # "SFREE"
          BY <3>2, <3>3
        <5> QED BY <2>4, <4>2, <5>1
      <4> QED BY <4>1, <4>2
    <3>5. \A s \in Sem : s # sem =>
             IF sstate'[s] = "SFREE" \/ semcnt'[s] >= 0
               THEN squeue'[s] = <<>> ELSE Len(squeue'[s]) = - semcnt'[s]
      BY <2>4 DEF AllCountsMatch
    <3> QED BY <3>4, <3>5 DEF AllCountsMatch
  <2> QED BY <2>4, <2>5, <2>6
<1> QED BY <1>1, <1>2

LEMMA killFinishStep ==
    ASSUME IInv, killFinish, UNCHANGED load
    PROVE  IInv'
<1> DEFINE pid == cont[currpid].a
           t == UnlinkSched(pid)
<1>1. /\ cont[currpid].op = "kill" /\ stkfree' = stkfree + 1 /\ SchedIs(t) /\ UnlinkSem(pid)
      /\ due' = [due EXCEPT ![pid] = 0]
      /\ cont' = [cont EXCEPT ![currpid] = InUser, ![pid] = InUser]
      /\ UNCHANGED <<procVars, nextproc, numproc, deferVars, sstate, nextsem>>
  BY DEF killFinish, In
<1>2. cont[currpid].op \in ParkedOps
  BY <1>1 DEF ParkedOps
<1>3. /\ AllParked /\ AllCountsMatch /\ ClockView(Sched) /\ Highest(Sched) /\ TableTypes
      /\ Good(Sched) /\ Running(Sched) /\ QueuesMatch /\ KillTargets
  BY <1>2, CurrentParked DEF IInv
<1>4. currpid \in Pid
  BY <1>3, SchedNow
<1>5. pid \in Pid /\ pid # NULLPROC
  <2>1. pid \in 1 .. NPROC - 1
    BY <1>1, <1>3, <1>4 DEF KillTargets
  <2> QED BY <2>1, KernelAssumption DEF Pid, NULLPROC
<1> HIDE DEF pid
<1>6. /\ Good(t) /\ Running(t) /\ Highest(t) /\ ClockView(t) /\ t.pprio = pprio
      /\ \A q \in Pid : t.pstate[q] = "PRWAIT" <=> pstate[q] = "PRWAIT" /\ q # pid
  BY <1>3, <1>5, UnlinkSchedGood
<1> HIDE DEF t
<1>7. Sched' = t /\ pstate' = t.pstate
  BY <1>1, <1>6, SchedNext DEF Good, SchedGood, SchedIs, procVars
<1>8. /\ semcnt' \in [Sem -> Int] /\ squeue' \in [Sem -> Seq(Pid)]
      /\ QueuesMatch' /\ AllCountsMatch'
  BY <1>1, <1>3, <1>5, <1>6, <1>7, UnlinkSemGood DEF procVars
<1>9. /\ cont' \in [Pid -> KopType] /\ due' \in [Pid -> Int]
      /\ \A q \in Pid : cont'[q] = cont[q] \/ cont'[q] = InUser
  <2>1. cont \in [Pid -> KopType] /\ due \in [Pid -> Int]
    BY <1>3 DEF TableTypes
  <2> QED BY <1>1, <1>4, <1>5, <2>1, UserIsParked
<1>10. AllParked' /\ KillTargets'
  BY <1>3, <1>9, UserIsParked DEF AllParked, KillTargets
<1>11. TableTypes'
  <2>1. stkfree' \in Nat
    BY <1>1, <1>3 DEF TableTypes
  <2> QED BY <1>1, <1>3, <1>8, <1>9, <2>1 DEF TableTypes, procVars, deferVars
<1> QED BY <1>6, <1>7, <1>8, <1>10, <1>11, ParkedStep

-----------------------------------------------------------------------------
(* The theorems *)

(* Every step of the specification preserves the invariant. *)
LEMMA NextKeeps ==
    ASSUME IInv, [Next]_vars
    PROVE  IInv'
<1>1. CASE UNCHANGED vars
  <2>1. Sched' = Sched
    BY <1>1 DEF vars, procVars, schedVars, Sched
  <2>2. /\ TableTypes' /\ QueuesMatch' /\ SemCountMatchesQueue' /\ Parked' /\ KillTargets'
        /\ LoopState'
    BY <1>1 DEF IInv, TableTypes, QueuesMatch, SemCountMatchesQueue, Busy, Parked,
                KillTargets, LoopState, vars, procVars, schedVars, allocVars, deferVars, semVars
  <2>3. cont' = cont /\ currpid' = currpid
    BY <1>1 DEF vars, schedVars
  <2> QED BY <2>1, <2>2, <2>3 DEF IInv
<1>2. CASE Next
  <2>1. UNCHANGED load
    BY <1>2 DEF Next
  <2>2. CASE KernelStep
    BY <2>1, <2>2, killFinishStep, signalnLoopStep, flushLoopStep, receiveFinishStep,
       insertdLoopStep, wakeupLoopStep, clpreemStep, makeupLoopStep, strtclkFinishStep
       DEF KernelStep
  <2>3. CASE ProcessCall
    BY <2>1, <2>3, createStep, killStep, suspendStep, resumeStep, chprioStep, setnokStep
       DEF ProcessCall
  <2>4. CASE SemaphoreCall
    BY <2>1, <2>4, screateStep, waitStep, signalStep, sdeleteStep, signalnStep, sresetStep
       DEF SemaphoreCall
  <2>5. CASE MessageCall
    BY <2>1, <2>5, sendStep, sendfStep, receiveStep, recvclrStep, recvtimStep
       DEF MessageCall
  <2>6. CASE ClockCall
    BY <2>1, <2>6, sleep10Step, tickStep, stopclkStep, strtclkStep DEF ClockCall
  <2> QED BY <1>2, <2>2, <2>3, <2>4, <2>5, <2>6 DEF Next
<1> QED BY <1>1, <1>2

(* The invariant holds in every reachable state of every instance. *)
THEOREM Invariance == Spec => []IInv
<1>1. Init => IInv
  BY InitGood
<1>2. IInv /\ [Next]_vars => IInv'
  BY NextKeeps
<1> QED BY <1>1, <1>2, PTL DEF Spec

(* Type correctness of the process table, the lists, the semaphore table and *)
(* the clock variables.                                                      *)
THEOREM TypeCorrectness == Spec => []TypeOK
<1>1. IInv => TypeOK
  <2> SUFFICES ASSUME IInv PROVE TypeOK
    OBVIOUS
  <2>1. Sched \in SchedType /\ TableTypes
    BY DEF IInv, Good, SchedGood
  <2>2. /\ pstate \in [Pid -> States] /\ pprio \in [Pid -> Int] /\ currpid \in Pid
        /\ rdy \in Seq(Pid) /\ qkey \in [Pid -> Int] /\ preempt \in Int
        /\ clockq \in Seq(Pid) /\ slnempty \in BOOLEAN /\ sltop \in Pid \cup {EMPTY}
    BY <2>1 DEF Sched, SchedType
  <2> QED BY <2>1, <2>2 DEF TableTypes, TypeOK
<1> QED BY <1>1, Invariance, PTL

(* kill, suspend, chprio and unsleep always find a process on the list that its *)
(* state names, and nowhere else: the shared q[] table is never corrupted.      *)
THEOREM ListIntegrity == Spec => []ListsMatchStates
<1>1. IInv => ListsMatchStates
  <2> SUFFICES ASSUME IInv PROVE ListsMatchStates
    OBVIOUS
  <2>1. Good(Sched) /\ Running(Sched) /\ QueuesMatch
    BY DEF IInv
  <2>2. NoDup(rdy) /\ \A p \in Pid : OnList(rdy, p) <=> pstate[p] = "PRREADY"
    BY <2>1, NullIsPid DEF Good, SchedGood, ReadyListBut, Sched
  <2>3. NoDup(clockq) /\ \A p \in Pid : OnList(clockq, p) <=> pstate[p] \in Timed
    BY <2>1, NullIsPid DEF Good, ClockListBut, Sched
  <2>4. \A p \in Pid : p = currpid <=> pstate[p] = "PRCURR"
    BY <2>1 DEF Good, SchedGood, OneCurrent, Running, Sched
  <2>5. NullAlwaysEligible
    BY <2>1 DEF Good, SchedGood, NullEligible, NullAlwaysEligible, Eligible, Sched
  <2> QED BY <2>1, <2>2, <2>3, <2>4, <2>5 DEF ListsMatchStates, QueuesMatch
<1> QED BY <1>1, Invariance, PTL

(* resched() always finds a process to dispatch. *)
THEOREM NullEligibility == Spec => []NullAlwaysEligible
<1>1. IInv => NullAlwaysEligible
  BY DEF IInv, Good, SchedGood, NullEligible, NullAlwaysEligible, Eligible, Sched
<1> QED BY <1>1, Invariance, PTL

(* The count of a semaphore and the length of its queue agree, through kill, *)
(* sreset, sdelete and every interleaving of waits and signals.              *)
THEOREM SemaphoreCounts == Spec => []SemCountMatchesQueue
<1>1. IInv => SemCountMatchesQueue
  BY DEF IInv
<1> QED BY <1>1, Invariance, PTL

(* Strict priority scheduling: no ready process outranks the running one. *)
THEOREM PriorityScheduling == Spec => []HighestPriorityRuns
<1>1. IInv => HighestPriorityRuns
  <2> SUFFICES ASSUME IInv, cont[currpid] = InUser PROVE HighestPriorityRuns
    BY DEF HighestPriorityRuns
  <2>1. Highest(Sched)
    BY UserFacts
  <2> QED BY <2>1 DEF Highest, HighestPriorityRuns, Sched
<1> QED BY <1>1, Invariance, PTL

(* The clock interrupt never decrements the key of a process that has left *)
(* the delta list, and never misses one that has entered it.               *)
THEOREM ClockHandlerSafe == Spec => []ClockHandlerView
<1>1. IInv => ClockHandlerView
  <2> SUFFICES ASSUME IInv, cont[currpid] = InUser PROVE ClockHandlerView
    BY DEF ClockHandlerView
  <2>1. ClockView(Sched)
    BY UserFacts
  <2> QED BY <2>1 DEF ClockView, ClockHandlerView, Sched
<1> QED BY <1>1, Invariance, PTL

-----------------------------------------------------------------------------
(* What Kernel keeps from one step to later ones, proved for every number of  *)
(* processes and semaphores and every workload: the edges of the state        *)
(* diagram, messages, the preemption counter, deaths, and the delta list.     *)

Receiving == {"PRRECV", "PRTRECV"}

(* The clock handler's wakeup() is about to take p off the delta list. *)
TimeIsUp(p) == cont[currpid].op \in ViewStale /\ ExpiredHead /\ p = clockq[1]

(* An edge of the process state diagram, with what makes a process take it *)
Edge(p) ==
    LET a == pstate[p]
        b == pstate'[p]
    IN \/ a = b /\ (a = "PRRECV" \/ (a = "PRTRECV" /\ "sendf" \notin load.calls)
                        => phasmsg'[p] = phasmsg[p])
       \/ a \in Eligible /\ b \in Eligible \cup {"PRSUSP"}
       \/ a = "PRFREE" /\ b = "PRSUSP" /\ numproc' = numproc + 1
       \/ a \in {"PRSUSP", "PRWAIT", "PRRECV"} /\ b \in Eligible
       \/ a = "PRTRECV" /\ b \in Eligible /\ phasmsg'[p] # 0
       \/ a \in Timed /\ b \in Eligible /\ TimeIsUp(p)
       \/ p = currpid /\ b = "PRWAIT"
       \/ p = currpid /\ b = "PRRECV" /\ phasmsg'[p] = 0
       \/ p = currpid /\ cont[p].op = "insertdR" /\ b = "PRTRECV" /\ phasmsg'[p] = phasmsg[p]
       \/ p = currpid /\ cont[p].op = "insertdS" /\ b = "PRSLEEP"
       \/ b = "PRFREE" /\ cont[currpid].op = "kill" /\ p = cont[currpid].a

-----------------------------------------------------------------------------
(* Steps *)

Edges == \A p \in Pid : Edge(p)

(* The delta list, its keys and what its members still have to wait stay. *)
DeltaKept == /\ clockq' = clockq
             /\ \A q \in Pid : OnList(clockq, q) => qkey'[q] = qkey[q] /\ due'[q] = due[q]

(* A step reschedules, or neither uses up the quantum nor brings a contender. *)
Rearmed == Rearms(Sched, Sched')

LEMMA ThroughResched ==
    ASSUME NEW m, Good(m), SchedIs(resched(m)), pprio' = m.pprio
    PROVE  /\ Near(m.pstate, pstate') /\ Fresh(Sched') /\ Rearmed
           /\ clockq' = m.clockq
           /\ \A q \in Pid : OnList(m.clockq, q) => qkey'[q] = m.qkey[q]
<1> DEFINE t == resched(m)
<1>1. /\ SameDelta(m, t) /\ Fresh(t) /\ Near(m.pstate, t.pstate)
  BY ReschedFacts
<1>2. t \in SchedType /\ t.pprio = m.pprio
  BY ReschedKeeps DEF Good, SchedGood, SameClock
<1> HIDE DEF t
<1>3. Sched' = t
  BY <1>2, SchedNext DEF t
<1>4. pstate' = t.pstate /\ clockq' = t.clockq /\ qkey' = t.qkey
  BY DEF SchedIs, t
<1> QED BY <1>1, <1>3, <1>4 DEF SameDelta, Rearmed, Rearms

(* Steps that change neither the lists nor what is due *)
LEMMA StoodStill ==
    ASSUME UNCHANGED <<schedVars, pprio>>,
           \A q \in Pid : OnList(clockq, q) => due'[q] = due[q]
    PROVE  DeltaKept /\ Rearmed /\ pstate' = pstate
<1>1. Sched' = Sched
  BY SchedSame
<1> QED BY <1>1 DEF DeltaKept, Rearmed, Rearms, schedVars
(* The current process blocks: receive, wait, suspend or kill of itself. *)
LEMMA BlockMoves ==
    ASSUME IInv, ClockView(Sched), currpid # NULLPROC,
           NEW st \in States, st \notin Eligible, st \notin Timed,
           SchedIs(resched([Sched EXCEPT !.pstate = [@ EXCEPT ![currpid] = st]])),
           UNCHANGED pprio, \A q \in Pid : OnList(clockq, q) => due'[q] = due[q]
    PROVE  Near([pstate EXCEPT ![currpid] = st], pstate') /\ Rearmed /\ DeltaKept
<1> DEFINE m == [Sched EXCEPT !.pstate = [@ EXCEPT ![currpid] = st]]
<1>1. Good(Sched) /\ Running(Sched)
  BY DEF IInv
<1>2. /\ Sched \in SchedType /\ Sched.pstate = pstate /\ Sched.currpid = currpid
      /\ Sched.clockq = clockq /\ Sched.pprio = pprio
      /\ currpid \in Pid /\ pstate \in [Pid -> States] /\ pstate[currpid] = "PRCURR"
      /\ \A p \in Pid : OnList(clockq, p) <=> pstate[p] \in Timed
  BY <1>1, SchedNow
<1>3. ~ OnList(clockq, currpid) /\ Sched.pstate[currpid] # "PRREADY"
  BY <1>2 DEF Timed
<1>4. /\ SchedGood(m) /\ SameClock(Sched, m) /\ ClockListBut(m, BADPID)
      /\ m.pstate = [pstate EXCEPT ![currpid] = st]
  BY <1>1, <1>2, <1>3, MarkKeeps
<1>5. m.qkey = qkey
  BY DEF Sched
<1> HIDE DEF m
<1>6. /\ Near(m.pstate, pstate') /\ Rearmed /\ clockq' = m.clockq
      /\ \A q \in Pid : OnList(m.clockq, q) => qkey'[q] = m.qkey[q]
  <2>1. Good(m) /\ SchedIs(resched(m)) /\ pprio' = m.pprio
    BY <1>2, <1>4 DEF Good, SameClock, m
  <2> QED BY <2>1, ThroughResched
<1>7. m.clockq = clockq
  BY <1>2, <1>4 DEF SameClock
<1> QED BY <1>4, <1>5, <1>6, <1>7 DEF DeltaKept

(* A blocked process is made ready, then resched: resume, send, signal. *)
LEMMA WakeMoves ==
    ASSUME IInv, ClockView(Sched), NEW p \in Pid, p # NULLPROC,
           pstate[p] \in {"PRSUSP", "PRWAIT", "PRRECV"},
           SchedIs(resched(ready(Sched, p))), UNCHANGED pprio,
           \A q \in Pid : OnList(clockq, q) => due'[q] = due[q]
    PROVE  Near([pstate EXCEPT ![p] = "PRREADY"], pstate') /\ Rearmed /\ DeltaKept
<1> DEFINE m == ready(Sched, p)
<1>1. Good(Sched) /\ Running(Sched)
  BY DEF IInv
<1>2. /\ Sched.pstate = pstate /\ Sched.clockq = clockq /\ Sched.pprio = pprio
      /\ Sched.qkey = qkey
      /\ \A q \in Pid : OnList(clockq, q) <=> pstate[q] \in Timed
  BY <1>1, SchedNow DEF Sched
<1>3. pstate[p] \notin Timed /\ pstate[p] \notin Eligible /\ ~ OnList(clockq, p)
  BY <1>2 DEF Timed, Eligible
<1>4. SchedGood(Sched) /\ ClockListBut(Sched, p)
  BY <1>1, <1>2, <1>3, NullIsPid DEF Good, ClockListBut
<1>5. /\ Good(m) /\ m.pstate = [pstate EXCEPT ![p] = "PRREADY"] /\ SameClock(Sched, m)
  BY <1>2, <1>3, <1>4, ReadyKeeps
<1>6. SameDelta(Sched, m)
  BY <1>2, <1>3, <1>4, ReadyFacts
<1> HIDE DEF m
<1>7. /\ Near(m.pstate, pstate') /\ Rearmed /\ clockq' = m.clockq
      /\ \A q \in Pid : OnList(m.clockq, q) => qkey'[q] = m.qkey[q]
  <2>1. SchedIs(resched(m)) /\ pprio' = m.pprio
    BY <1>2, <1>5 DEF SameClock, m
  <2> QED BY <1>5, <2>1, ThroughResched
<1> QED BY <1>2, <1>5, <1>6, <1>7 DEF DeltaKept, SameDelta

(* resched() with nothing changed before: yielding *)
LEMMA YieldMoves ==
    ASSUME IInv, SchedIs(resched(Sched)), UNCHANGED pprio,
           \A q \in Pid : OnList(clockq, q) => due'[q] = due[q]
    PROVE  Near(pstate, pstate') /\ Fresh(Sched') /\ Rearmed /\ DeltaKept
<1>1. Good(Sched) /\ Sched.pstate = pstate /\ Sched.clockq = clockq /\ Sched.pprio = pprio
      /\ Sched.qkey = qkey
  BY DEF IInv, Sched
<1>2. /\ Near(Sched.pstate, pstate') /\ Fresh(Sched') /\ Rearmed /\ clockq' = Sched.clockq
      /\ \A q \in Pid : OnList(Sched.clockq, q) => qkey'[q] = Sched.qkey[q]
  BY <1>1, ThroughResched
<1> QED BY <1>1, <1>2 DEF DeltaKept

(* An eligible process leaves the ready list, or the processor. *)
LEMMA RemoveMoves ==
    ASSUME IInv, NEW p \in Pid, p # NULLPROC, pstate[p] = "PRREADY",
           NEW st \in States, st \notin Eligible, st \notin Timed,
           SchedIs(RemoveReady([Sched EXCEPT !.pstate = [@ EXCEPT ![p] = st]], p)),
           UNCHANGED pprio, \A q \in Pid : OnList(clockq, q) => due'[q] = due[q]
    PROVE  pstate' = [pstate EXCEPT ![p] = st] /\ Rearmed /\ DeltaKept
<1> DEFINE t == RemoveReady([Sched EXCEPT !.pstate = [@ EXCEPT ![p] = st]], p)
<1>1. Good(Sched) /\ Running(Sched)
  BY DEF IInv
<1>2. /\ Sched.pstate = pstate /\ Sched.clockq = clockq /\ Sched.pprio = pprio
      /\ Sched.qkey = qkey /\ Sched.preempt = preempt /\ Sched.currpid = currpid
      /\ pstate[currpid] = "PRCURR" /\ pstate \in [Pid -> States] /\ Sched \in SchedType
      /\ \A q \in Pid : OnList(clockq, q) <=> pstate[q] \in Timed
  BY <1>1, SchedNow DEF Sched
<1>3. ~ OnList(clockq, p) /\ Sched.pstate[p] = "PRREADY"
  BY <1>2 DEF Timed
<1>4. /\ Good(t) /\ SameClock(Sched, t) /\ t.currpid = currpid
      /\ t.pstate = [pstate EXCEPT ![p] = st]
  <2>1. /\ Good(t) /\ SameClock(Sched, t) /\ t.currpid = Sched.currpid
        /\ t.pstate = [Sched.pstate EXCEPT ![p] = st]
    BY <1>1, <1>3, RemoveReadyKeeps
  <2> QED BY <1>2, <2>1
<1>5. t.qkey = [qkey EXCEPT ![p] = 0] /\ t.preempt = preempt /\ qkey \in [Pid -> Int]
  BY <1>2 DEF RemoveReady, SchedType
<1> HIDE DEF t
<1>6. Sched' = t /\ pstate' = t.pstate /\ clockq' = t.clockq /\ qkey' = t.qkey
      /\ preempt' = t.preempt
  <2>1. SchedIs(t) /\ pprio' = t.pprio /\ t \in SchedType
    BY <1>2, <1>4 DEF SameClock, Good, SchedGood, t
  <2> QED BY <2>1, SchedNext DEF SchedIs
<1>7. DeltaKept
  BY <1>2, <1>3, <1>4, <1>5, <1>6 DEF DeltaKept, SameClock
<1>8. Rearmed
  <2>1. \A q \in Pid : t.pstate[q] = "PRREADY" => pstate[q] = "PRREADY"
    BY <1>2, <1>4, <1>1 DEF Eligible
  <2>2. Contended(t) => Contended(Sched)
    BY <1>2, <1>4, <2>1 DEF Contended, SameClock
  <2> QED BY <1>2, <1>5, <1>6, <2>2 DEF Rearmed, Rearms
<1> QED BY <1>4, <1>6, <1>7, <1>8

-----------------------------------------------------------------------------
(* Which edges each call and each step inside the kernel takes *)

LEMMA EdgesFrom ==
    ASSUME IInv, Near(pstate, pstate'),
           \A q \in Pid : pstate[q] \in Receiving => phasmsg'[q] = phasmsg[q]
    PROVE  Edges
  BY DEF Near, Edges, Edge, Receiving

LEMMA createMoves ==
    ASSUME IInv, NEW prio \in load.prios, create(prio)
    PROVE  Edges /\ Rearmed /\ DeltaKept
<1>1. /\ cont[currpid] = InUser
      /\ UNCHANGED <<currpid, rdy, qkey, preempt, clockq, slnempty, sltop, due>>
  BY DEF create, Call, Interruptible
<1>2. /\ TableTypes /\ Good(Sched) /\ Running(Sched)
  BY DEF IInv
<1>3. /\ currpid \in Pid /\ pstate \in [Pid -> States] /\ pprio \in [Pid -> Int]
      /\ pstate[currpid] = "PRCURR"
  BY <1>2, SchedNow
<1>4. DeltaKept
  BY <1>1 DEF DeltaKept
<1>5. CASE CreateFails(prio)
  <2>1. UNCHANGED <<pstate, pprio, phasmsg>>
    BY <1>5 DEF CreateFails, procVars
  <2>2. Sched' = Sched
    BY <1>1, <2>1 DEF Sched
  <2> QED BY <1>1, <1>4, <2>1, <2>2 DEF Edges, Edge, Rearmed, Rearms
<1>6. CASE FillEntry(prio)
  <2> DEFINE p == newpid
  <2>1. p \in Pid /\ pstate[p] = "PRFREE"
    BY <1>2, <1>6, NewpidFree DEF FillEntry
  <2>2. /\ pstate' = [pstate EXCEPT ![p] = "PRSUSP"] /\ pprio' = [pprio EXCEPT ![p] = prio]
        /\ phasmsg' = [phasmsg EXCEPT ![p] = 0] /\ phasmsg \in [Pid -> Int]
    BY <1>2, <1>6 DEF FillEntry, TableTypes
  <2> HIDE DEF p
  <2>3. /\ pstate'[p] = "PRSUSP" /\ numproc' = numproc + 1
        /\ \A q \in Pid : q # p => /\ pstate'[q] = pstate[q] /\ pprio'[q] = pprio[q]
                                  /\ phasmsg'[q] = phasmsg[q]
    BY <1>2, <1>3, <1>6, <2>1, <2>2 DEF FillEntry
  <2>4. Edges
    BY <2>1, <2>3 DEF Edges, Edge
  <2>5. Contended(Sched') => Contended(Sched)
    BY <1>1, <1>3, <2>1, <2>3 DEF Contended, Sched
  <2>6. Sched'.preempt = Sched.preempt
    BY <1>1 DEF Sched
  <2> QED BY <1>4, <2>4, <2>5, <2>6 DEF Rearmed, Rearms
<1> QED BY <1>5, <1>6 DEF create
LEMMA suspendMoves ==
    ASSUME IInv, NEW pid \in Pid, suspend(pid)
    PROVE  Edges /\ Rearmed /\ DeltaKept
<1>1. /\ cont[currpid] = InUser /\ pid # NULLPROC /\ pstate[pid] \in Eligible
      /\ UNCHANGED <<phasmsg, pprio, due>>
  BY DEF suspend, Call, Interruptible, Suspendable, Eligible, procVars
<1>2. ClockView(Sched) /\ Good(Sched) /\ Running(Sched)
  BY <1>1, UserFacts
<1>3. pstate \in [Pid -> States] /\ currpid \in Pid /\ pstate[currpid] = "PRCURR"
  BY <1>2, SchedNow
<1>4. "PRSUSP" \in States /\ "PRSUSP" \notin Eligible /\ "PRSUSP" \notin Timed
  BY DEF States, Eligible, Timed
<1>5. Near([pstate EXCEPT ![pid] = "PRSUSP"], pstate') /\ Rearmed /\ DeltaKept
  <2>1. CASE pstate[pid] = "PRREADY"
    <3>1. SchedIs(RemoveReady([Sched EXCEPT !.pstate = [@ EXCEPT ![pid] = "PRSUSP"]], pid))
      BY <2>1 DEF suspend
    <3> QED BY <1>1, <1>4, <2>1, <3>1, RemoveMoves DEF Near
  <2>2. CASE pstate[pid] = "PRCURR"
    <3>1. pid = currpid
      BY <1>2, <2>2 DEF Good, SchedGood, OneCurrent, Sched
    <3>2. SchedIs(resched([Sched EXCEPT !.pstate = [@ EXCEPT ![currpid] = "PRSUSP"]]))
      BY <2>2, <3>1 DEF suspend
    <3> QED BY <1>1, <1>2, <1>4, <3>1, <3>2, BlockMoves
  <2> QED BY <1>1, <2>1, <2>2 DEF Eligible
<1>6. Edges
  BY <1>1, <1>3, <1>5 DEF Edges, Edge, Near, Eligible
<1> QED BY <1>5, <1>6

LEMMA resumeMoves ==
    ASSUME IInv, NEW pid \in Pid, resume(pid)
    PROVE  Edges /\ Rearmed /\ DeltaKept
<1>1. /\ cont[currpid] = InUser /\ pid # NULLPROC /\ pstate[pid] = "PRSUSP"
      /\ SchedIs(resched(ready(Sched, pid))) /\ UNCHANGED <<phasmsg, pprio, due>>
  BY DEF resume, Call, Interruptible, procVars
<1>2. ClockView(Sched) /\ Good(Sched) /\ Running(Sched)
  BY <1>1, UserFacts
<1>3. pstate \in [Pid -> States]
  BY <1>2, SchedNow
<1>4. Near([pstate EXCEPT ![pid] = "PRREADY"], pstate') /\ Rearmed /\ DeltaKept
  BY <1>1, <1>2, WakeMoves
<1>5. Edges
  BY <1>1, <1>3, <1>4 DEF Edges, Edge, Near, Eligible
<1> QED BY <1>4, <1>5

LEMMA setnokMoves ==
    ASSUME IInv, NEW pid \in Pid, NEW nok \in load.kin, setnok(nok, pid)
    PROVE  Edges /\ Rearmed /\ DeltaKept
<1>1. UNCHANGED <<schedVars, pprio, phasmsg, due>>
  BY DEF setnok, msgVars
<1>2. DeltaKept /\ Rearmed /\ pstate' = pstate
  BY <1>1, StoodStill
<1> QED BY <1>1, <1>2, EdgesFrom DEF Near

LEMMA waitMoves ==
    ASSUME IInv, NEW sem \in Sem, wait(sem)
    PROVE  Edges /\ Rearmed /\ DeltaKept
<1>1. /\ cont[currpid] = InUser /\ currpid # NULLPROC /\ UNCHANGED <<phasmsg, pprio, due>>
  BY DEF wait, Call, Interruptible, msgVars
<1>2. ClockView(Sched) /\ Good(Sched) /\ Running(Sched)
  BY <1>1, UserFacts
<1>3. pstate \in [Pid -> States] /\ currpid \in Pid /\ pstate[currpid] = "PRCURR"
  BY <1>2, SchedNow
<1>4. "PRWAIT" \in States /\ "PRWAIT" \notin Eligible /\ "PRWAIT" \notin Timed
  BY DEF States, Eligible, Timed
<1>5. CASE semcnt[sem] - 1 < 0
  <2>1. SchedIs(resched([Sched EXCEPT !.pstate = [@ EXCEPT ![currpid] = "PRWAIT"]]))
    BY <1>5 DEF wait
  <2>2. Near([pstate EXCEPT ![currpid] = "PRWAIT"], pstate') /\ Rearmed /\ DeltaKept
    BY <1>1, <1>2, <1>4, <2>1, BlockMoves
  <2>3. Edges
    BY <1>1, <1>3, <2>2 DEF Edges, Edge, Near, Eligible
  <2> QED BY <2>2, <2>3
<1>6. CASE ~ (semcnt[sem] - 1 < 0)
  <2>1. UNCHANGED <<schedVars, pprio>>
    BY <1>1, <1>6 DEF wait
  <2>2. DeltaKept /\ Rearmed /\ pstate' = pstate
    BY <1>1, <2>1, StoodStill
  <2> QED BY <1>1, <2>2, EdgesFrom DEF Near
<1> QED BY <1>5, <1>6

(* screate, signaln, sreset, sdelete, stopclk: no process changes state. *)
LEMMA tableMoves ==
    ASSUME IInv, UNCHANGED <<schedVars, procVars, due>>
    PROVE  Edges /\ Rearmed /\ DeltaKept
<1>1. DeltaKept /\ Rearmed /\ pstate' = pstate
  BY StoodStill DEF procVars
<1> QED BY <1>1, EdgesFrom DEF Near, procVars

(* The first waiter of sem is released, and joins the ready list. *)
LEMMA signalMoves ==
    ASSUME IInv, NEW sem \in Sem, signal(sem)
    PROVE  Edges /\ Rearmed /\ DeltaKept
<1>1. cont[currpid] = InUser /\ UNCHANGED <<phasmsg, pprio, due>>
  BY DEF signal, Interruptible, procVars
<1>2. ClockView(Sched) /\ Good(Sched) /\ Running(Sched) /\ QueuesMatch /\ TableTypes
  BY <1>1, UserFacts
<1>3. pstate \in [Pid -> States]
  BY <1>2, SchedNow
<1>4. CASE Released(sem)
  <2> DEFINE h == Head(squeue[sem])
  <2>1. SchedIs(resched(ready(Sched, h)))
    BY <1>4 DEF signal, AfterRelease
  <2>2. squeue[sem] # <<>> /\ squeue \in [Sem -> Seq(Pid)]
    BY <1>2, <1>4 DEF Released, TableTypes
  <2>3. h \in Pid /\ pstate[h] = "PRWAIT"
    BY <1>2, <2>2, ReleaseGood
  <2> HIDE DEF h
  <2>4. h # NULLPROC
    BY <1>2, <2>3 DEF Good, SchedGood, NullEligible, Sched, Eligible
  <2>5. Near([pstate EXCEPT ![h] = "PRREADY"], pstate') /\ Rearmed /\ DeltaKept
    BY <1>1, <1>2, <2>1, <2>3, <2>4, WakeMoves
  <2>6. Edges
    BY <1>1, <1>3, <2>3, <2>5 DEF Edges, Edge, Near, Eligible
  <2> QED BY <2>5, <2>6
<1>5. CASE ~ Released(sem)
  <2>1. UNCHANGED schedVars
    BY <1>5 DEF signal, SchedIs, Sched, schedVars
  <2> QED BY <1>1, <2>1, tableMoves, StoodStill, EdgesFrom DEF Near
<1> QED BY <1>4, <1>5
LEMMA chprioMoves ==
    ASSUME IInv, NEW pid \in Pid, NEW prio \in load.prios, chprio(pid, prio)
    PROVE  Edges /\ Rearmed /\ DeltaKept
<1> DEFINE m == [Sched EXCEPT !.pprio = [@ EXCEPT ![pid] = prio]]
           t == Reprioritise(m, pid)
<1>1. /\ cont[currpid] = InUser /\ SchedIs(t) /\ pprio' = [pprio EXCEPT ![pid] = prio]
      /\ UNCHANGED <<phasmsg, due>>
  BY DEF chprio, Call, Interruptible, msgVars
<1>2. Highest(Sched) /\ Good(Sched) /\ Running(Sched) /\ TableTypes
  BY <1>1, UserFacts
<1>3. Sched.pstate = pstate /\ Sched.pprio = pprio /\ Sched.clockq = clockq /\ Sched.qkey = qkey
  BY DEF Sched
<1>4. prio \in Int
  BY <1>2, KernelAssumption DEF TableTypes, Workload
<1>5. /\ Good(t) /\ t.pprio = [pprio EXCEPT ![pid] = prio]
      /\ SameBlocked(Sched, t) /\ SameDelta(Sched, t) /\ Rearms(Sched, t)
  BY <1>2, <1>3, <1>4, ReprioritiseKeeps
<1> HIDE DEF t
<1>6. /\ Sched' = t /\ pstate' = t.pstate /\ clockq' = t.clockq /\ qkey' = t.qkey
  BY <1>1, <1>5, SchedNext DEF Good, SchedGood, SchedIs
<1>7. Near(pstate, pstate')
  BY <1>3, <1>5, <1>6, NearFacts
<1>8. DeltaKept /\ Rearmed
  BY <1>1, <1>3, <1>5, <1>6 DEF DeltaKept, Rearmed, SameDelta
<1> QED BY <1>1, <1>7, <1>8, EdgesFrom

-----------------------------------------------------------------------------
(* Messages *)

(* p leaves the delta list early; the next waiter gets what p had left. *)
Unslept(p) ==
    /\ clockq' = dequeue(clockq, p)
    /\ \A q \in Pid : OnList(clockq', q) =>
          /\ due'[q] = due[q]
          /\ qkey'[q] = unsleep(Sched, p).qkey[q]

(* send() to a process blocked in recvtim() *)
LEMMA UnsleepMoves ==
    ASSUME IInv, ClockView(Sched), NEW p \in Pid, pstate[p] = "PRTRECV",
           SchedIs(resched(ready(unsleep(Sched, p), p))), UNCHANGED pprio,
           \A q \in Pid : q # p => due'[q] = due[q]
    PROVE  Near([pstate EXCEPT ![p] = "PRREADY"], pstate') /\ Rearmed /\ Unslept(p)
<1> DEFINE u == unsleep(Sched, p)
           m == ready(u, p)
<1>1. Good(Sched) /\ Running(Sched)
  BY DEF IInv
<1>2. /\ Sched.pstate = pstate /\ Sched.clockq = clockq /\ Sched.pprio = pprio
      /\ \A q \in Pid : OnList(clockq, q) <=> pstate[q] \in Timed
  BY <1>1, SchedNow
<1>3. p # NULLPROC /\ pstate[p] \notin Eligible /\ OnList(clockq, p)
  BY <1>1, <1>2 DEF Good, SchedGood, NullEligible, Eligible, Timed
<1>4. /\ SchedGood(u) /\ u.pstate = pstate /\ u.pprio = pprio /\ NoDup(u.clockq)
      /\ \A q \in Pid : OnList(u.clockq, q) <=> OnList(clockq, q) /\ q # p
  <2>1. SchedGood(Sched) /\ NoDup(Sched.clockq) /\ OnList(Sched.clockq, p)
    BY <1>1, <1>2, <1>3 DEF Good, ClockListBut
  <2>2. \A q \in Pid : OnList(Sched.clockq, q) => Sched.pstate[q] # "PRREADY"
    BY <1>2 DEF Timed
  <2> QED BY <1>2, <2>1, <2>2, UnsleepKeeps
<1>5. u.clockq = dequeue(clockq, p)
  BY <1>2 DEF unsleep, Sched
<1> HIDE DEF u
<1>6. ClockListBut(u, p)
  BY <1>2, <1>4 DEF ClockListBut
<1>7. /\ Good(m) /\ m.pstate = [pstate EXCEPT ![p] = "PRREADY"] /\ SameClock(u, m)
  BY <1>3, <1>4, <1>6, ReadyKeeps
<1>8. SameDelta(u, m)
  BY <1>3, <1>4, ReadyFacts
<1> HIDE DEF m
<1>9. /\ Near(m.pstate, pstate') /\ Rearmed /\ clockq' = m.clockq
      /\ \A q \in Pid : OnList(m.clockq, q) => qkey'[q] = m.qkey[q]
  <2>1. SchedIs(resched(m)) /\ pprio' = m.pprio
    BY <1>4, <1>7 DEF SameClock, m, u
  <2> QED BY <1>7, <2>1, ThroughResched
<1>10. clockq' = u.clockq /\ \A q \in Pid : OnList(u.clockq, q) => qkey'[q] = u.qkey[q]
  BY <1>8, <1>9 DEF SameDelta
<1>11. Unslept(p)
  BY <1>4, <1>5, <1>10 DEF Unslept, u
<1> QED BY <1>7, <1>9, <1>11

(* send(), called or reached through kill() *)
LEMMA SendMoves ==
    ASSUME IInv, cont[currpid] = InUser, NEW pid, NEW msg, SendEffect(pid, msg), UNCHANGED pprio
    PROVE  /\ Edges /\ Rearmed
           /\ DeltaKept \/ (pid \in Pid /\ pstate[pid] = "PRTRECV" /\ Unslept(pid))
           /\ \A q \in Pid : phasmsg[q] # 0 => phasmsg'[q] = phasmsg[q] /\ pmsg'[q] = pmsg[q]
<1>1. ClockView(Sched) /\ Good(Sched) /\ Running(Sched) /\ TableTypes
  BY UserFacts
<1>2. pstate \in [Pid -> States] /\ \A q \in Pid : OnList(clockq, q) <=> pstate[q] \in Timed
  BY <1>1, SchedNow
<1>3. phasmsg \in [Pid -> Int] /\ pmsg \in [Pid -> Int] /\ due \in [Pid -> Int]
  BY <1>1 DEF TableTypes
<1>4. CASE Sendable(pid)
  <2>1. /\ pid \in Pid /\ pid # NULLPROC /\ phasmsg[pid] = 0 /\ SchedIs(AfterSend(pid))
        /\ phasmsg' = [phasmsg EXCEPT ![pid] = 1] /\ pmsg' = [pmsg EXCEPT ![pid] = msg]
        /\ due' = IF pstate[pid] = "PRTRECV" THEN [due EXCEPT ![pid] = 0] ELSE due
    BY <1>4, KernelAssumption DEF SendEffect, Sendable, Pid, NULLPROC
  <2>2. /\ phasmsg'[pid] = 1
        /\ \A q \in Pid : q # pid => phasmsg'[q] = phasmsg[q] /\ pmsg'[q] = pmsg[q]
    BY <1>3, <2>1
  <2>3. \A q \in Pid : OnList(clockq, q) /\ q # pid => due'[q] = due[q]
    BY <1>3, <2>1
  <2>4. CASE pstate[pid] = "PRRECV"
    <3>1. SchedIs(resched(ready(Sched, pid)))
      BY <2>1, <2>4 DEF AfterSend
    <3>2. \A q \in Pid : OnList(clockq, q) => due'[q] = due[q]
      BY <2>1, <2>4
    <3>3. Near([pstate EXCEPT ![pid] = "PRREADY"], pstate') /\ Rearmed /\ DeltaKept
      BY <1>1, <2>1, <2>4, <3>1, <3>2, WakeMoves
    <3>4. Edges
      BY <1>2, <2>2, <2>4, <3>3 DEF Edges, Edge, Near, Eligible
    <3> QED BY <2>1, <2>2, <3>3, <3>4
  <2>5. CASE pstate[pid] = "PRTRECV"
    <3>1. SchedIs(resched(ready(unsleep(Sched, pid), pid)))
      BY <2>1, <2>5 DEF AfterSend
    <3>2. \A q \in Pid : q # pid => due'[q] = due[q]
      BY <1>3, <2>1
    <3>3. Near([pstate EXCEPT ![pid] = "PRREADY"], pstate') /\ Rearmed /\ Unslept(pid)
      BY <1>1, <2>1, <2>5, <3>1, <3>2, UnsleepMoves
    <3>4. Edges
      BY <1>2, <2>2, <2>5, <3>3 DEF Edges, Edge, Near, Eligible
    <3> QED BY <2>1, <2>2, <2>5, <3>3, <3>4
  <2>6. CASE pstate[pid] \notin Receiving
    <3>1. UNCHANGED <<schedVars, pprio, due>>
      BY <2>1, <2>6 DEF AfterSend, SchedIs, Sched, schedVars, Receiving
    <3>2. DeltaKept /\ Rearmed /\ pstate' = pstate
      BY <3>1, StoodStill
    <3>3. Edges
      BY <2>2, <2>6, <3>2 DEF Edges, Edge, Receiving
    <3> QED BY <2>1, <2>2, <3>2, <3>3
  <2> QED BY <2>4, <2>5, <2>6 DEF Receiving
<1>5. CASE ~ Sendable(pid)
  <2>1. UNCHANGED <<schedVars, pprio, due, phasmsg, pmsg>>
    BY <1>5 DEF SendEffect, msgVars
  <2>2. DeltaKept /\ Rearmed /\ pstate' = pstate
    BY <2>1, StoodStill
  <2> QED BY <2>1, <2>2, EdgesFrom DEF Near
<1> QED BY <1>4, <1>5

LEMMA sendfMoves ==
    ASSUME IInv, NEW pid \in Pid, NEW msg \in load.msgs, sendf(pid, msg)
    PROVE  Edges /\ Rearmed /\ DeltaKept
<1>1. /\ cont[currpid] = InUser /\ pid # NULLPROC /\ UNCHANGED <<pprio, due>>
      /\ phasmsg' = [phasmsg EXCEPT ![pid] = (@ + 1) % PHMOD] /\ "sendf" \in load.calls
      /\ SchedIs(IF pstate[pid] = "PRRECV" THEN resched(ready(Sched, pid)) ELSE Sched)
  BY DEF sendf, Call, Interruptible
<1>2. ClockView(Sched) /\ Good(Sched) /\ Running(Sched) /\ TableTypes
  BY <1>1, UserFacts
<1>3. pstate \in [Pid -> States] /\ phasmsg \in [Pid -> Int]
  BY <1>2, SchedNow DEF TableTypes
<1>4. \A q \in Pid : q # pid => phasmsg'[q] = phasmsg[q]
  BY <1>1, <1>3
<1>5. CASE pstate[pid] = "PRRECV"
  <2>1. Near([pstate EXCEPT ![pid] = "PRREADY"], pstate') /\ Rearmed /\ DeltaKept
    BY <1>1, <1>2, <1>5, WakeMoves
  <2>2. Edges
    BY <1>1, <1>3, <1>4, <1>5, <2>1 DEF Edges, Edge, Near, Eligible
  <2> QED BY <2>1, <2>2
<1>6. CASE pstate[pid] # "PRRECV"
  <2>1. UNCHANGED <<schedVars, pprio, due>>
    BY <1>1, <1>6 DEF SchedIs, Sched, schedVars
  <2>2. DeltaKept /\ Rearmed /\ pstate' = pstate
    BY <2>1, StoodStill
  <2>3. Edges
    BY <1>1, <1>4, <1>6, <2>2 DEF Edges, Edge
  <2> QED BY <2>2, <2>3
<1> QED BY <1>5, <1>6

LEMMA receiveMoves ==
    ASSUME IInv, receive
    PROVE  Edges /\ Rearmed /\ DeltaKept
<1>1. /\ cont[currpid] = InUser /\ currpid # NULLPROC /\ UNCHANGED <<pprio, due>>
  BY DEF receive, Call, Interruptible
<1>2. ClockView(Sched) /\ Good(Sched) /\ Running(Sched) /\ TableTypes
  BY <1>1, UserFacts
<1>3. /\ pstate \in [Pid -> States] /\ currpid \in Pid /\ pstate[currpid] = "PRCURR"
      /\ phasmsg \in [Pid -> Int]
  BY <1>2, SchedNow DEF TableTypes
<1>4. CASE phasmsg[currpid] # 0
  <2>1. phasmsg' = [phasmsg EXCEPT ![currpid] = 0] /\ UNCHANGED <<schedVars, pprio>>
    BY <1>1, <1>4 DEF receive, TakeMessage
  <2>2. DeltaKept /\ Rearmed /\ pstate' = pstate
    BY <1>1, <2>1, StoodStill
  <2>3. Edges
    BY <1>3, <2>1, <2>2 DEF Edges, Edge
  <2> QED BY <2>2, <2>3
<1>5. CASE ~ (phasmsg[currpid] # 0)
  <2>1. SchedIs(resched([Sched EXCEPT !.pstate = [@ EXCEPT ![currpid] = "PRRECV"]]))
        /\ phasmsg' = phasmsg
    BY <1>5 DEF receive
  <2>2. "PRRECV" \in States /\ "PRRECV" \notin Eligible /\ "PRRECV" \notin Timed
    BY DEF States, Eligible, Timed
  <2>3. Near([pstate EXCEPT ![currpid] = "PRRECV"], pstate') /\ Rearmed /\ DeltaKept
    BY <1>1, <1>2, <2>1, <2>2, BlockMoves
  <2>4. Edges
    BY <1>3, <1>5, <2>1, <2>3 DEF Edges, Edge, Near, Eligible
  <2> QED BY <2>3, <2>4
<1> QED BY <1>4, <1>5

(* receive() and recvclr() of a waiting message, and the end of a wait *)
LEMMA TakeMoves ==
    ASSUME IInv, TakeMessage, UNCHANGED <<schedVars, pprio, due>>
    PROVE  Edges /\ Rearmed /\ DeltaKept
<1>1. currpid \in Pid /\ pstate[currpid] = "PRCURR" /\ phasmsg \in [Pid -> Int]
  BY SchedNow DEF IInv, TableTypes
<1>2. DeltaKept /\ Rearmed /\ pstate' = pstate
  BY StoodStill
<1>3. \A q \in Pid : q # currpid => phasmsg'[q] = phasmsg[q]
  BY <1>1 DEF TakeMessage
<1> QED BY <1>1, <1>2, <1>3 DEF Edges, Edge

LEMMA recvtimMoves ==
    ASSUME IInv, NEW n \in load.delays, recvtim(n)
    PROVE  Edges /\ Rearmed /\ DeltaKept
<1>1. cont[currpid] = InUser /\ UNCHANGED <<schedVars, pprio>>
  BY DEF recvtim, Call, Interruptible
<1>2. /\ currpid \in Pid /\ pstate[currpid] = "PRCURR" /\ due \in [Pid -> Int]
      /\ \A q \in Pid : OnList(clockq, q) <=> pstate[q] \in Timed
  BY SchedNow DEF IInv, TableTypes
<1>3. CASE phasmsg[currpid] # 0
  BY <1>1, <1>3, TakeMoves DEF recvtim
<1>4. CASE ~ (phasmsg[currpid] # 0)
  <2>1. due' = [due EXCEPT ![currpid] = n] /\ phasmsg' = phasmsg
    BY <1>4 DEF recvtim
  <2>2. \A q \in Pid : OnList(clockq, q) => due'[q] = due[q]
    BY <1>2, <2>1 DEF Timed
  <2>3. DeltaKept /\ Rearmed /\ pstate' = pstate
    BY <1>1, <2>2, StoodStill
  <2> QED BY <2>1, <2>3, EdgesFrom DEF Near
<1> QED BY <1>3, <1>4
-----------------------------------------------------------------------------
(* Sleeping, and the steps inside the kernel *)

LEMMA sleep10Moves ==
    ASSUME IInv, NEW n \in load.delays, sleep10(n)
    PROVE  Edges /\ Rearmed /\ DeltaKept
<1>1. cont[currpid] = InUser /\ UNCHANGED <<pprio, phasmsg>>
  BY DEF sleep10, Call, Interruptible, procVars
<1>2. /\ currpid \in Pid /\ pstate[currpid] = "PRCURR" /\ due \in [Pid -> Int]
      /\ \A q \in Pid : OnList(clockq, q) <=> pstate[q] \in Timed
  BY SchedNow DEF IInv, TableTypes
<1>3. CASE n = 0
  <2>1. SchedIs(resched(Sched)) /\ UNCHANGED due
    BY <1>3 DEF sleep10
  <2> QED BY <1>1, <2>1, YieldMoves, EdgesFrom
<1>4. CASE n # 0
  <2>1. due' = [due EXCEPT ![currpid] = n] /\ UNCHANGED schedVars
    BY <1>4 DEF sleep10
  <2>2. \A q \in Pid : OnList(clockq, q) => due'[q] = due[q]
    BY <1>2, <2>1 DEF Timed
  <2>3. DeltaKept /\ Rearmed /\ pstate' = pstate
    BY <1>1, <2>1, <2>2, StoodStill
  <2> QED BY <1>1, <2>3, EdgesFrom DEF Near
<1> QED BY <1>3, <1>4

(* insertd() is about to go past waiter i, or to link its caller in front. *)
GoesOn == cont[currpid].a <= Len(clockq) /\ qkey[clockq[cont[currpid].a]] < cont[currpid].n

(* The caller is linked where the search ended. *)
Linked ==
    /\ clockq' = InsertAt(clockq, cont[currpid].a, currpid)
    /\ \A q \in Pid : OnList(clockq', q) =>
          qkey'[q] = LinkDelta(Sched, cont[currpid].a, cont[currpid].n).qkey[q]

LEMMA insertdLoopMoves ==
    ASSUME IInv, insertdLoop
    PROVE  /\ Edges /\ Rearmed /\ UNCHANGED due
           /\ GoesOn => UNCHANGED schedVars
           /\ ~ GoesOn => Linked
<1> DEFINE c == cont[currpid]
           st == IF c.op = "insertdS" THEN "PRSLEEP" ELSE "PRTRECV"
           m == [LinkDelta(Sched, c.a, c.n) EXCEPT !.pstate = [@ EXCEPT ![Sched.currpid] = st]]
<1>1. c.op \in {"insertdS", "insertdR"} /\ UNCHANGED <<pprio, phasmsg, due>>
  BY DEF insertdLoop, In, procVars
<1>2. /\ TableTypes /\ Good(Sched) /\ Running(Sched) /\ c.a \in 1 .. Len(clockq) + 1
      /\ currpid # NULLPROC
  BY <1>1 DEF IInv, LoopState
<1>3. /\ Sched.pstate = pstate /\ Sched.currpid = currpid /\ Sched.clockq = clockq
      /\ Sched.pprio = pprio /\ currpid \in Pid /\ pstate \in [Pid -> States]
      /\ pstate[currpid] = "PRCURR" /\ c.n \in Int
  BY <1>2, SchedNow DEF TableTypes, KopType
<1>4. CASE GoesOn
  <2>1. UNCHANGED schedVars
    BY <1>4 DEF insertdLoop, GoesOn
  <2>2. Rearmed /\ pstate' = pstate
    BY <1>1, <2>1, StoodStill
  <2> QED BY <1>1, <1>4, <2>1, <2>2, EdgesFrom DEF Near
<1>5. CASE ~ GoesOn
  <2>1. SchedIs(resched(m))
    BY <1>3, <1>5 DEF insertdLoop, GoesOn
  <2>2. st \in Timed
    BY DEF Timed
  <2>3. /\ Good(m) /\ m.pstate = [pstate EXCEPT ![currpid] = st] /\ m.pprio = pprio
    <3> HIDE DEF c, st
    <3>1. Sched.currpid # NULLPROC /\ c.a \in 1 .. Len(Sched.clockq) + 1 /\ c.n \in Int
      BY <1>2, <1>3
    <3>2. /\ Good(m) /\ m.pstate = [Sched.pstate EXCEPT ![Sched.currpid] = st]
          /\ m.pprio = Sched.pprio /\ ClockView(m)
      BY <1>2, <2>2, <3>1, LinkDeltaKeeps
    <3> QED BY <1>3, <3>2
  <2>4. /\ m.clockq = InsertAt(clockq, c.a, currpid)
        /\ m.qkey = LinkDelta(Sched, c.a, c.n).qkey
    BY DEF LinkDelta, Sched
  <2> HIDE DEF m, c
  <2>5. /\ Near(m.pstate, pstate') /\ Rearmed /\ clockq' = m.clockq
        /\ \A q \in Pid : OnList(m.clockq, q) => qkey'[q] = m.qkey[q]
    BY <1>1, <2>1, <2>3, ThroughResched
  <2>6. Linked
    BY <2>4, <2>5 DEF Linked, c
  <2>7. Edges
    BY <1>1, <1>3, <2>3, <2>5 DEF Edges, Edge, Near, Eligible, c
  <2> QED BY <1>1, <1>5, <2>5, <2>6, <2>7
<1> QED BY <1>4, <1>5

(* A released waiter only joins the ready list: the loops of signaln, sdelete *)
(* and sreset.                                                                *)
LEMMA ReleaseMoves ==
    ASSUME IInv, NEW sem \in Sem, squeue[sem] # <<>>,
           SchedIs(ready(Sched, Head(squeue[sem]))), UNCHANGED <<procVars, due>>
    PROVE  Edges /\ DeltaKept
<1> DEFINE h == Head(squeue[sem])
           t == ready(Sched, h)
<1>1. /\ Good(Sched) /\ Running(Sched) /\ QueuesMatch /\ squeue \in [Sem -> Seq(Pid)]
  BY DEF IInv, TableTypes
<1>2. h \in Pid /\ pstate[h] = "PRWAIT" /\ t.pstate = [pstate EXCEPT ![h] = "PRREADY"]
  BY <1>1, ReleaseGood
<1>3. /\ pstate \in [Pid -> States] /\ Sched.clockq = clockq /\ Sched.qkey = qkey
      /\ \A q \in Pid : OnList(clockq, q) <=> pstate[q] \in Timed
  BY <1>1, SchedNow DEF Sched
<1> HIDE DEF h
<1>4. h # NULLPROC /\ ~ OnList(Sched.clockq, h) /\ SchedGood(Sched)
  BY <1>1, <1>2, <1>3 DEF Good, SchedGood, NullEligible, Sched, Eligible, Timed
<1>5. SameDelta(Sched, t)
  BY <1>2, <1>4, ReadyFacts
<1>6. pstate' = t.pstate /\ clockq' = t.clockq /\ qkey' = t.qkey
  BY DEF SchedIs, h
<1>7. DeltaKept
  BY <1>3, <1>5, <1>6 DEF DeltaKept, SameDelta
<1>8. Edges
  BY <1>2, <1>3, <1>6 DEF Edges, Edge, Eligible, procVars
<1> QED BY <1>7, <1>8

LEMMA signalnLoopMoves ==
    ASSUME IInv, signalnLoop
    PROVE  /\ Edges /\ DeltaKept
           /\ Fresh(Sched') \/ (Goto(Kop("signaln", cont[currpid].a, cont[currpid].n - 1))
                               /\ UNCHANGED currpid)
<1>1. In("signaln") /\ UNCHANGED <<procVars, due>> /\ cont[currpid].a \in Sem
  BY DEF signalnLoop, IInv, LoopState, In
<1>2. CASE cont[currpid].n > 0
  <2> DEFINE sem == cont[currpid].a
  <2>1. SchedIs(AfterRelease(sem)) /\ Goto(Kop("signaln", sem, cont[currpid].n - 1))
    BY <1>2 DEF signalnLoop
  <2>2. currpid' = currpid
    BY <2>1 DEF AfterRelease, ready, insert, Sched, SchedIs
  <2> HIDE DEF sem
  <2>3. CASE Released(sem)
    <3>1. SchedIs(ready(Sched, Head(squeue[sem]))) /\ squeue[sem] # <<>>
      BY <2>1, <2>3 DEF AfterRelease, Released
    <3> QED BY <1>1, <2>1, <2>2, <3>1, ReleaseMoves DEF sem
  <2>4. CASE ~ Released(sem)
    <3>1. UNCHANGED <<schedVars, procVars, due>>
      BY <1>1, <2>1, <2>4 DEF AfterRelease, SchedIs, Sched, schedVars
    <3> QED BY <2>1, <2>2, <3>1, tableMoves DEF sem
  <2> QED BY <2>3, <2>4
<1>3. CASE ~ (cont[currpid].n > 0)
  <2>1. SchedIs(resched(Sched))
    BY <1>3 DEF signalnLoop
  <2> QED BY <1>1, <2>1, YieldMoves, EdgesFrom DEF procVars
<1> QED BY <1>2, <1>3

LEMMA flushLoopMoves ==
    ASSUME IInv, flushLoop
    PROVE  Edges /\ DeltaKept /\ (Fresh(Sched') \/ UNCHANGED <<cont, currpid>>)
<1>1. /\ In("sdelete") \/ In("sreset")
      /\ UNCHANGED <<procVars, due>> /\ cont[currpid].a \in Sem
  BY DEF flushLoop, IInv, LoopState, In
<1> DEFINE sem == cont[currpid].a
<1>2. CASE squeue[sem] # <<>>
  <2>1. SchedIs(ready(Sched, Head(squeue[sem]))) /\ UNCHANGED cont
    BY <1>2 DEF flushLoop, FlushOne
  <2>2. currpid' = currpid
    BY <2>1 DEF ready, insert, Sched, SchedIs
  <2> QED BY <1>1, <1>2, <2>1, <2>2, ReleaseMoves
<1>3. CASE squeue[sem] = <<>>
  <2>1. SchedIs(resched(Sched))
    BY <1>3 DEF flushLoop
  <2> QED BY <1>1, <2>1, YieldMoves, EdgesFrom DEF procVars
<1> QED BY <1>2, <1>3
-----------------------------------------------------------------------------
(* The clock *)

(* The wakeup of the first waiter *)
Woken ==
    /\ clockq # <<>> /\ clockq' = Tail(clockq)
    /\ \A q \in Pid : q # clockq[1] /\ OnList(clockq, q) => qkey'[q] = qkey[q] /\ due'[q] = due[q]

LEMMA tickMoves ==
    ASSUME IInv, tick
    PROVE  /\ Edges /\ Rearmed /\ UNCHANGED clockq /\ due' = TickedDue
           /\ Deferred => UNCHANGED qkey
           /\ ~ Deferred => qkey' = TickedKeys
<1>1. /\ UNCHANGED <<procVars, pstate, currpid, rdy, preempt, clockq, slnempty, sltop>>
      /\ due' = TickedDue
      /\ Deferred => UNCHANGED qkey
      /\ ~ Deferred => qkey' = TickedKeys
  BY DEF tick
<1>2. Rearmed
  BY <1>1 DEF Rearmed, Rearms, Contended, Sched, procVars
<1> QED BY <1>1, <1>2, EdgesFrom DEF Near, procVars

LEMMA wakeupLoopMoves ==
    ASSUME IInv, wakeupLoop
    PROVE  /\ Edges
           /\ ExpiredHead => Woken /\ UNCHANGED <<cont, currpid>>
           /\ ~ ExpiredHead => Fresh(Sched') /\ DeltaKept
<1>1. cont[currpid].op \in ViewStale /\ UNCHANGED procVars
  BY DEF wakeupLoop, In, ViewStale
<1>2. Good(Sched) /\ Running(Sched) /\ due \in [Pid -> Int]
  BY DEF IInv, TableTypes
<1>3. /\ Sched \in SchedType /\ Sched.pstate = pstate /\ Sched.clockq = clockq
      /\ Sched.currpid = currpid /\ Sched.pprio = pprio /\ Sched.qkey = qkey
      /\ clockq \in Seq(Pid) /\ pstate \in [Pid -> States]
      /\ \A q \in Pid : OnList(clockq, q) <=> pstate[q] \in Timed
  BY <1>2, SchedNow DEF Sched
<1>4. CASE ExpiredHead
  <2> DEFINE p == clockq[1]
             s == [Sched EXCEPT !.clockq = Tail(@)]
             t == ready(s, p)
  <2>1. SchedIs(t) /\ due' = [due EXCEPT ![p] = 0] /\ UNCHANGED cont /\ clockq # <<>>
    BY <1>4 DEF wakeupLoop, WakeOne, ExpiredHead
  <2>2. /\ p \in Pid /\ OnList(clockq, p) /\ Tail(clockq) \in Seq(Pid)
        /\ \A q \in Pid : OnList(Tail(clockq), q) <=> OnList(clockq, q) /\ q # p
    BY <1>2, <1>3, <2>1, TailFacts DEF Good, ClockListBut
  <2>3. /\ s \in SchedType /\ s.pstate = pstate /\ s.clockq = Tail(clockq)
        /\ s.currpid = currpid /\ s.rdy = Sched.rdy /\ s.qkey = qkey /\ s.pprio = pprio
    BY <1>3, <2>2 DEF SchedType
  <2>4. t.currpid = s.currpid
    BY <2>3 DEF ready, insert, SchedType
  <2> HIDE DEF s, p
  <2>5. SchedGood(s)
    BY <1>2, <1>3, <2>3 DEF Good, SchedGood, ReadyListBut, OneCurrent, NullEligible
  <2>6. p # NULLPROC /\ pstate[p] \in Timed /\ pstate[p] \notin Eligible
    BY <1>3, <2>2, <2>3, <2>5 DEF SchedGood, NullEligible, Eligible, Timed
  <2>7. SameDelta(s, t)
    BY <2>2, <2>3, <2>5, <2>6, ReadyFacts
  <2>8. t.pstate = [pstate EXCEPT ![p] = "PRREADY"]
    <3>1. ClockListBut(s, p)
      BY <1>2, <1>3, <2>1, <2>2, <2>3, TailFacts DEF Good, ClockListBut, p
    <3> QED BY <2>2, <2>3, <2>5, <2>6, <3>1, ReadyKeeps
  <2> HIDE DEF t
  <2>9. pstate' = t.pstate /\ clockq' = t.clockq /\ qkey' = t.qkey /\ currpid' = currpid
    BY <2>1, <2>3, <2>4 DEF SchedIs
  <2>10. Woken
    BY <1>2, <2>1, <2>2, <2>3, <2>7, <2>9 DEF Woken, SameDelta, p
  <2>11. Edges
    <3>1. TimeIsUp(p)
      BY <1>1, <1>4 DEF TimeIsUp, p
    <3> QED BY <1>1, <1>3, <2>2, <2>6, <2>8, <2>9, <3>1 DEF Edges, Edge, Eligible, procVars
  <2> QED BY <1>4, <2>1, <2>9, <2>10, <2>11
<1>5. CASE ~ ExpiredHead
  <2> DEFINE s == [Sched EXCEPT !.slnempty = clockq # <<>>,
                                !.sltop = IF clockq # <<>> THEN clockq[1] ELSE @]
  <2>1. SchedIs(resched(s)) /\ UNCHANGED due
    BY <1>5 DEF wakeupLoop, AfterWakeup
  <2>2. /\ s \in SchedType /\ s.pstate = pstate /\ s.clockq = clockq /\ s.pprio = pprio
        /\ s.currpid = currpid /\ s.rdy = Sched.rdy /\ s.qkey = qkey
    <3>1. clockq # <<>> => clockq[1] \in Pid
      BY <1>3
    <3> QED BY <1>3, <3>1 DEF SchedType
  <2> HIDE DEF s
  <2>3. Good(s)
    BY <1>2, <1>3, <2>2
       DEF Good, SchedGood, ReadyListBut, OneCurrent, NullEligible, ClockListBut
  <2>4. /\ Near(s.pstate, pstate') /\ Fresh(Sched') /\ clockq' = s.clockq
        /\ \A q \in Pid : OnList(s.clockq, q) => qkey'[q] = s.qkey[q]
    BY <1>1, <2>1, <2>2, <2>3, ThroughResched DEF procVars
  <2> QED BY <1>1, <1>5, <2>1, <2>2, <2>4, EdgesFrom DEF DeltaKept, procVars
<1> QED BY <1>4, <1>5

(* The preemption counter after a tick: a fresh quantum, or one unit less. *)
LEMMA clpreemMoves ==
    ASSUME IInv, clpreem
    PROVE  /\ Edges /\ DeltaKept
           /\ \/ Fresh(Sched')
              \/ /\ ~ QuantumOver(preempt - 1) /\ preempt' = AtLeast(PreemptMin, preempt - 1)
                 /\ Contended(Sched') => Contended(Sched)
<1> DEFINE n == AtLeast(PreemptMin, preempt - 1)
           s == [Sched EXCEPT !.preempt = n]
<1>1. /\ SchedIs(IF QuantumOver(preempt - 1) THEN resched(s) ELSE s)
      /\ UNCHANGED <<procVars, due>>
  BY DEF clpreem
<1>2. Good(Sched) /\ Running(Sched)
  BY DEF IInv
<1>3. /\ Sched \in SchedType /\ Sched.pstate = pstate /\ Sched.clockq = clockq
      /\ Sched.currpid = currpid /\ Sched.pprio = pprio /\ Sched.qkey = qkey
      /\ preempt \in Int
  BY <1>2, SchedNow DEF Sched, SchedType
<1>4. n \in Int
  BY <1>3, KeptLow DEF PreemptMin
<1> HIDE DEF n
<1>5. /\ s \in SchedType /\ s.pstate = pstate /\ s.clockq = clockq /\ s.pprio = pprio
      /\ s.currpid = currpid /\ s.rdy = Sched.rdy /\ s.qkey = qkey /\ s.preempt = n
  BY <1>3, <1>4 DEF SchedType
<1> HIDE DEF s
<1>6. Good(s)
  BY <1>2, <1>3, <1>5
     DEF Good, SchedGood, ReadyListBut, OneCurrent, NullEligible, ClockListBut
<1>7. CASE QuantumOver(preempt - 1)
  <2>1. /\ Near(s.pstate, pstate') /\ Fresh(Sched') /\ clockq' = s.clockq
        /\ \A q \in Pid : OnList(s.clockq, q) => qkey'[q] = s.qkey[q]
    BY <1>1, <1>5, <1>6, <1>7, ThroughResched DEF procVars
  <2> QED BY <1>1, <1>5, <2>1, EdgesFrom DEF DeltaKept, procVars
<1>8. CASE ~ QuantumOver(preempt - 1)
  <2>1. SchedIs(s)
    BY <1>1, <1>8
  <2>2. Sched' = s /\ pstate' = pstate /\ preempt' = n /\ clockq' = clockq /\ qkey' = qkey
    BY <1>1, <1>5, <2>1, SchedNext DEF SchedIs, procVars
  <2>3. Contended(Sched') => Contended(Sched)
    BY <1>3, <1>5, <2>2 DEF Contended
  <2> QED BY <1>1, <1>8, <2>2, <2>3, EdgesFrom DEF DeltaKept, Near, procVars, n
<1> QED BY <1>7, <1>8

LEMMA strtclkMoves ==
    ASSUME IInv, strtclk
    PROVE  /\ Edges /\ DeltaKept
           /\ Rearmed \/ (UNCHANGED currpid /\ \E k : Goto(k) /\ k.op \in {"makeup", "strtclk"})
<1>1. UNCHANGED <<procVars, pstate, currpid, rdy, qkey, clockq, slnempty, sltop, due>>
  BY DEF strtclk
<1>2. Edges /\ DeltaKept
  BY <1>1, EdgesFrom DEF DeltaKept, Near, procVars
<1>3. CASE defclk - 1 > 0
  <2>1. UNCHANGED preempt
    BY <1>3 DEF strtclk
  <2>2. Rearmed
    BY <1>1, <2>1, StoodStill DEF schedVars, procVars
  <2> QED BY <1>2, <2>2
<1>4. CASE ~ (defclk - 1 > 0)
  <2> DEFINE k == IF slnempty THEN Kop("makeup", 1, clkdiff) ELSE Kop("strtclk", 0, 0)
  <2>1. Goto(k)
    BY <1>4 DEF strtclk
  <2>2. k.op \in {"makeup", "strtclk"}
    BY DEF Kop
  <2> QED BY <1>1, <1>2, <2>1, <2>2
<1> QED BY <1>3, <1>4

LEMMA strtclkFinishMoves ==
    ASSUME IInv, strtclkFinish
    PROVE  Edges /\ DeltaKept /\ (Fresh(Sched') \/ (preempt > 0 /\ UNCHANGED preempt))
<1>1. SchedIs(IF preempt <= 0 THEN resched(Sched) ELSE Sched) /\ UNCHANGED <<procVars, due>>
  BY DEF strtclkFinish
<1>2. preempt \in Int
  BY DEF IInv, Good, SchedGood, SchedType, Sched
<1>3. CASE preempt <= 0
  BY <1>1, <1>3, YieldMoves, EdgesFrom DEF procVars
<1>4. CASE ~ (preempt <= 0)
  <2>1. UNCHANGED schedVars /\ preempt > 0
    BY <1>1, <1>2, <1>4 DEF SchedIs, Sched, schedVars
  <2> QED BY <1>1, <2>1, tableMoves DEF schedVars
<1> QED BY <1>3, <1>4

(* The clock's deferred ticks are subtracted from the keys. *)
LEMMA makeupLoopMoves ==
    ASSUME IInv, makeupLoop
    PROVE  Edges /\ Rearmed /\ UNCHANGED <<clockq, due>>
<1>1. UNCHANGED <<procVars, pstate, currpid, rdy, preempt, clockq, slnempty, sltop, due>>
  BY DEF makeupLoop
<1>2. Rearmed
  BY <1>1 DEF Rearmed, Rearms, Contended, Sched, procVars
<1> QED BY <1>1, <1>2, EdgesFrom DEF Near, procVars
-----------------------------------------------------------------------------
(* kill() *)

LEMMA killMoves ==
    ASSUME IInv, NEW pid \in Pid, kill(pid)
    PROVE  /\ Edges /\ Rearmed
           /\ \/ DeltaKept
              \/ pnxtkin[pid] \in Pid /\ pstate[pnxtkin[pid]] = "PRTRECV" /\ Unslept(pnxtkin[pid])
<1>1. cont[currpid] = InUser /\ SendEffect(pnxtkin[pid], pid) /\ UNCHANGED pprio
  BY DEF kill, Call, Interruptible
<1> QED BY <1>1, SendMoves

LEMMA sendMoves ==
    ASSUME IInv, NEW pid \in Pid, NEW msg \in load.msgs, send(pid, msg)
    PROVE  /\ Edges /\ Rearmed
           /\ DeltaKept \/ (pstate[pid] = "PRTRECV" /\ Unslept(pid))
<1>1. cont[currpid] = InUser /\ SendEffect(pid, msg) /\ UNCHANGED pprio
  BY DEF send, Interruptible
<1> QED BY <1>1, SendMoves

(* The victim leaves the list it is on, and the processor if it has it. *)
LEMMA killFinishMoves ==
    ASSUME IInv, killFinish
    PROVE  LET pid == cont[currpid].a
           IN  /\ Edges /\ Rearmed /\ pid \in Pid /\ pid # NULLPROC
               /\ DeltaKept \/ (pstate[pid] \in Timed /\ Unslept(pid))
               /\ pstate[pid] = "PRFREE" \/ pstate'[pid] = "PRFREE"
<1> DEFINE pid == cont[currpid].a
<1>1. /\ cont[currpid].op = "kill" /\ SchedIs(UnlinkSched(pid))
      /\ due' = [due EXCEPT ![pid] = 0] /\ UNCHANGED procVars
  BY DEF killFinish, In
<1>2. /\ Good(Sched) /\ Running(Sched) /\ TableTypes /\ KillTargets /\ ClockView(Sched)
      /\ Highest(Sched)
  BY <1>1, CurrentParked DEF IInv, ParkedOps
<1>3. /\ Sched \in SchedType /\ Sched.pstate = pstate /\ Sched.clockq = clockq
      /\ Sched.currpid = currpid /\ Sched.pprio = pprio /\ Sched.qkey = qkey
      /\ currpid \in Pid /\ pstate \in [Pid -> States] /\ pstate[currpid] = "PRCURR"
      /\ \A q \in Pid : OnList(clockq, q) <=> pstate[q] \in Timed
  BY <1>2, SchedNow DEF Sched
<1>4. pid \in Pid /\ pid # NULLPROC
  <2>1. pid \in 1 .. NPROC - 1
    BY <1>1, <1>2, <1>3 DEF KillTargets
  <2> QED BY <2>1, KernelAssumption DEF Pid, NULLPROC
<1>5. /\ due \in [Pid -> Int] /\ \A q \in Pid : q # pid => due'[q] = due[q]
      /\ "PRFREE" \in States /\ "PRFREE" \notin Eligible /\ "PRFREE" \notin Timed
  BY <1>1, <1>2, <1>4 DEF TableTypes, States, Eligible, Timed
<1>6. SUFFICES /\ Near([pstate EXCEPT ![pid] = "PRFREE"], pstate') /\ Rearmed
               /\ DeltaKept \/ (pstate[pid] \in Timed /\ Unslept(pid))
  <2> HIDE DEF pid
  <2>1. ASSUME Near([pstate EXCEPT ![pid] = "PRFREE"], pstate')
        PROVE  Edges /\ pstate'[pid] = "PRFREE"
    <3>1. pstate'[pid] = "PRFREE" /\ \A q \in Pid : q # pid =>
             pstate'[q] = pstate[q] \/ (pstate[q] \in Eligible /\ pstate'[q] \in Eligible)
      BY <1>3, <1>4, <1>5, <2>1 DEF Near
    <3> QED BY <1>1, <3>1 DEF Edges, Edge, procVars, pid
  <2> QED BY <1>4, <2>1 DEF pid
<1> DEFINE m == Freed(pid)
           t == UnlinkSched(pid)
<1>7. Good(t) /\ t.pprio = pprio
  BY <1>2, <1>4, UnlinkSchedGood
<1>8. Sched' = t /\ pstate' = t.pstate /\ clockq' = t.clockq /\ qkey' = t.qkey
      /\ preempt' = t.preempt
  <2> HIDE DEF t, pid
  <2>1. SchedIs(t) /\ pprio' = t.pprio /\ t \in SchedType
    BY <1>1, <1>7 DEF Good, SchedGood, procVars, t
  <2> QED BY <2>1, SchedNext DEF SchedIs
<1> HIDE DEF pid
<1>9. CASE pstate[pid] = "PRCURR"
  <2>1. pid = currpid
    BY <1>2, <1>3, <1>4, <1>9 DEF Good, SchedGood, OneCurrent
  <2>2. t = resched([Sched EXCEPT !.pstate = [@ EXCEPT ![currpid] = "PRFREE"]])
    BY <1>9, <2>1 DEF UnlinkSched, Freed, Timed
  <2>3. SchedIs(resched([Sched EXCEPT !.pstate = [@ EXCEPT ![currpid] = "PRFREE"]]))
    BY <1>1, <2>2 DEF pid
  <2>4. currpid # NULLPROC /\ UNCHANGED pprio
    BY <1>1, <1>4, <2>1 DEF procVars
  <2>5. \A q \in Pid : OnList(clockq, q) => due'[q] = due[q]
    BY <1>3, <1>5, <2>1 DEF Timed
  <2>6. Near([pstate EXCEPT ![currpid] = "PRFREE"], pstate') /\ Rearmed /\ DeltaKept
    BY <1>2, <1>5, <2>3, <2>4, <2>5, BlockMoves
  <2> QED BY <2>1, <2>6
<1>10. CASE pstate[pid] = "PRREADY"
  <2>1. SchedIs(RemoveReady([Sched EXCEPT !.pstate = [@ EXCEPT ![pid] = "PRFREE"]], pid))
    BY <1>1, <1>10 DEF UnlinkSched, Freed, Timed, pid
  <2>2. UNCHANGED pprio /\ \A q \in Pid : OnList(clockq, q) => due'[q] = due[q]
    BY <1>1, <1>3, <1>5, <1>10 DEF Timed, procVars
  <2>3. pstate' = [pstate EXCEPT ![pid] = "PRFREE"] /\ Rearmed /\ DeltaKept
    BY <1>4, <1>5, <1>10, <2>1, <2>2, RemoveMoves
  <2> QED BY <2>3 DEF Near
<1>11. CASE pstate[pid] \notin Eligible
  <2>1. m = [Sched EXCEPT !.pstate = [@ EXCEPT ![pid] = "PRFREE"]]
    BY DEF Freed
  <2>2. /\ m.pstate = [pstate EXCEPT ![pid] = "PRFREE"] /\ m.clockq = clockq /\ m.qkey = qkey
        /\ m.pprio = pprio /\ m.currpid = currpid /\ m.preempt = preempt
    BY <1>3, <2>1 DEF Sched
  <2>3. t = IF pstate[pid] \in Timed THEN unsleep(m, pid) ELSE m
    BY <1>11 DEF UnlinkSched, Eligible
  <2> HIDE DEF m, t
  <2>4. /\ t.pstate = m.pstate /\ t.pprio = pprio /\ t.currpid = currpid /\ t.preempt = preempt
    BY <2>2, <2>3 DEF unsleep
  <2>5. Rearmed
    <3>1. \A q \in Pid : t.pstate[q] = "PRREADY" => pstate[q] = "PRREADY"
      BY <1>3, <1>4, <2>2, <2>4
    <3>2. Contended(t) => Contended(Sched)
      BY <1>3, <2>4, <3>1 DEF Contended
    <3>3. Sched.preempt = preempt
      BY DEF Sched
    <3> QED BY <1>8, <2>4, <3>2, <3>3 DEF Rearmed, Rearms
  <2>6. CASE pstate[pid] \in Timed
    <3>1. t.clockq = dequeue(clockq, pid) /\ t.qkey = unsleep(Sched, pid).qkey
      BY <1>3, <2>2, <2>3, <2>6 DEF unsleep
    <3>2. \A q \in Pid : OnList(clockq', q) => q # pid
      BY <1>2, <1>3, <1>4, <1>8, <3>1, DequeueFacts DEF Good, ClockListBut, SchedType
    <3>3. Unslept(pid)
      BY <1>5, <1>8, <3>1, <3>2 DEF Unslept
    <3> QED BY <1>8, <2>2, <2>4, <2>5, <2>6, <3>3 DEF Near
  <2>7. CASE pstate[pid] \notin Timed
    <3>1. t = m /\ \A q \in Pid : OnList(clockq, q) => q # pid
      BY <1>3, <2>3, <2>7
    <3>2. DeltaKept
      BY <1>5, <1>8, <2>2, <3>1 DEF DeltaKept
    <3> QED BY <1>8, <2>2, <2>4, <2>5, <3>2 DEF Near
  <2> QED BY <2>6, <2>7
<1> QED BY <1>9, <1>10, <1>11 DEF Eligible
-----------------------------------------------------------------------------
(* All steps together *)

LEMMA NextEdges ==
    ASSUME IInv, Next
    PROVE  Edges
<1>1. CASE KernelStep
  <2>1. ASSUME receiveFinish PROVE Edges
    BY <2>1, TakeMoves DEF receiveFinish, schedVars
  <2> QED BY <1>1, <2>1, killFinishMoves, signalnLoopMoves, flushLoopMoves, insertdLoopMoves,
          wakeupLoopMoves, clpreemMoves, makeupLoopMoves, strtclkFinishMoves DEF KernelStep
<1>2. CASE ProcessCall
  BY <1>2, createMoves, killMoves, suspendMoves, resumeMoves, chprioMoves, setnokMoves
     DEF ProcessCall
<1>3. CASE SemaphoreCall
  <2>1. ASSUME UNCHANGED <<schedVars, procVars, due>> PROVE Edges
    BY <2>1, tableMoves
  <2> QED BY <1>3, <2>1, waitMoves, signalMoves
          DEF SemaphoreCall, screate, sdelete, signaln, sreset
<1>4. CASE MessageCall
  <2>1. ASSUME recvclr PROVE Edges
    BY <2>1, TakeMoves DEF recvclr
  <2> QED BY <1>4, <2>1, sendMoves, sendfMoves, receiveMoves, recvtimMoves DEF MessageCall
<1>5. CASE ClockCall
  <2>1. ASSUME stopclk PROVE Edges
    BY <2>1, tableMoves DEF stopclk
  <2> QED BY <1>5, <2>1, sleep10Moves, tickMoves, strtclkMoves DEF ClockCall
<1> QED BY <1>1, <1>2, <1>3, <1>4, <1>5 DEF Next

Searching == {"insertdS", "insertdR"}
Looking == Searching \cup {"makeup"}

(* Nobody but the caller of sleep10() or recvtim() is in insertd()'s search,  *)
(* and nobody but the caller of strtclk() in its loop over the keys.          *)
LEMMA Entered ==
    ASSUME IInv, Next, cont'[currpid'].op \in Looking
    PROVE  /\ UNCHANGED currpid
           /\ \/ /\ cont'[currpid].op \in Searching
                 /\ insertdLoop \/ \E n \in load.delays : recvtim(n) \/ sleep10(n)
              \/ /\ cont'[currpid].op = "makeup"
                 /\ strtclk \/ makeupLoop
<1>1. /\ cont \in [Pid -> KopType] /\ currpid \in Pid /\ currpid' \in Pid /\ Parked
      /\ UNCHANGED load
  <2>1. IInv'
    BY NextKeeps
  <2> QED BY <2>1, SchedNow DEF IInv, TableTypes, Next, Good, SchedGood, SchedType, Sched
<1>2. \A p \in Pid : p # currpid => cont[p].op \notin Looking
  BY <1>1, OpsApart DEF Parked, Searching, Looking, LoopOps
<1> DEFINE Elsewhere == /\ cont[currpid].op \notin Looking
                        /\ \A p \in Pid : cont'[p] = cont[p] \/ cont'[p].op \notin Looking
<1>3. ~ Elsewhere
  BY <1>1, <1>2
<1>4. ASSUME NEW k, Goto(k)
      PROVE  /\ k.op \notin Looking =>
                  \A p \in Pid : cont'[p] = cont[p] \/ cont'[p].op \notin Looking
             /\ cont'[currpid] = k /\ \A p \in Pid : p # currpid => cont'[p] = cont[p]
  BY <1>1, <1>4 DEF Goto
<1>5. /\ InUser.op \notin Looking
      /\ \A a, n : \A op \in AllCalls : Kop(op, a, n).op = op /\ op \notin Looking
  BY DEF InUser, Kop, Searching, Looking, AllCalls
<1>6. cont[currpid] = InUser => cont[currpid].op \notin Looking
  BY <1>5
<1>7. CASE KernelStep
  <2>1. CASE insertdLoop
    <3>1. PICK k : /\ Goto(k) /\ cont[currpid].op \in Looking
                   /\ k.op \in Searching \/ k.op \notin Looking
      BY <2>1 DEF insertdLoop, In, Searching, Looking, InUser, Kop
    <3>2. currpid' = currpid
      <4>1. ASSUME currpid' # currpid PROVE FALSE
        BY <1>1, <1>2, <1>4, <3>1, <4>1
      <4> QED BY <4>1
    <3> QED BY <1>4, <2>1, <3>1, <3>2
  <2>2. CASE killFinish
    BY <1>1, <1>3, <1>5, <2>2 DEF killFinish, In, Searching, Looking
  <2>3. CASE signalnLoop \/ flushLoop
    BY <1>3, <1>4, <1>5, <2>3
       DEF signalnLoop, flushLoop, FlushOne, In, Searching, Looking, AllCalls
  <2>4. CASE receiveFinish \/ clpreem \/ strtclkFinish
    BY <1>3, <1>4, <1>5, <2>4 DEF receiveFinish, clpreem, strtclkFinish, In, Searching, Looking
  <2>5. CASE wakeupLoop
    BY <1>3, <1>4, <2>5 DEF wakeupLoop, WakeOne, In, Searching, Looking, Kop
  <2>6. CASE makeupLoop
    BY <1>1, <2>6 DEF makeupLoop, Goto, In, Searching, Looking, Kop
  <2> QED BY <1>7, <2>1, <2>2, <2>3, <2>4, <2>5, <2>6 DEF KernelStep
<1>8. CASE ProcessCall
  <2>1. CASE \E prio \in load.prios : create(prio)
    BY <1>1, <1>3, <1>5, <1>6, <2>1
       DEF create, Call, Interruptible, FillEntry, CreateFails
  <2>2. CASE \E pid \in Pid : kill(pid)
    BY <1>3, <1>4, <1>5, <1>6, <2>2 DEF kill, Call, Interruptible, AllCalls
  <2> QED BY <1>3, <1>6, <1>8, <2>1, <2>2
          DEF ProcessCall, suspend, resume, chprio, setnok, Call, Interruptible
<1>9. CASE SemaphoreCall
  BY <1>3, <1>4, <1>5, <1>6, <1>9
     DEF SemaphoreCall, screate, wait, signal, sdelete, signaln, sreset, Call, Interruptible,
         AllCalls
<1>10. CASE MessageCall
  <2>1. CASE \E n \in load.delays : recvtim(n)
    <3>1. currpid' = currpid
      BY <2>1 DEF recvtim, schedVars
    <3>2. cont'[currpid].op \in Searching
      BY <1>1, <1>6, <2>1, <3>1 DEF recvtim, Call, Interruptible, Goto, Kop, Searching
    <3> QED BY <2>1, <3>1, <3>2
  <2> QED BY <1>3, <1>4, <1>5, <1>6, <1>10, <2>1
          DEF MessageCall, send, sendf, receive, recvclr, Call, Interruptible, AllCalls
<1>11. CASE ClockCall
  <2>1. CASE \E n \in load.delays : sleep10(n)
    <3>1. PICK n \in load.delays : sleep10(n)
      BY <2>1
    <3>2. CASE n = 0
      BY <1>3, <1>6, <3>1, <3>2 DEF sleep10, Call, Interruptible
    <3>3. CASE n # 0
      BY <1>1, <3>1, <3>3 DEF sleep10, schedVars, Goto, Kop, Searching
    <3> QED BY <2>1, <3>2, <3>3
  <2>2. CASE strtclk
    <3>1. currpid' = currpid
      BY <2>2 DEF strtclk
    <3>2. cont'[currpid].op = "makeup"
      BY <1>1, <1>6, <2>2, <3>1 DEF strtclk, Call, Interruptible, Goto, Kop, Looking, Searching
    <3> QED BY <2>2, <3>1, <3>2
  <2> QED BY <1>3, <1>4, <1>6, <1>11, <2>1, <2>2
          DEF ClockCall, tick, stopclk, Interruptible, Call, Searching, Looking, Kop
<1> QED BY <1>7, <1>8, <1>9, <1>10, <1>11 DEF Next

-----------------------------------------------------------------------------
(* Messages *)

(* The caller of recvtim() has found no message, and none comes while it is  *)
(* looking for its place in the delta list.                                  *)
MessageInv == /\ BlockedMeansNoMessage
              /\ cont[currpid].op = "insertdR" => phasmsg[currpid] = 0

LEMMA MessageStep ==
    ASSUME IInv, MessageInv, Next
    PROVE  MessageInv'
<1>1. UNCHANGED load /\ Edges
  BY NextEdges DEF Next
<1>2. BlockedMeansNoMessage'
  <2> SUFFICES ASSUME NEW p \in Pid,
                      pstate'[p] = "PRRECV"
                        \/ (pstate'[p] = "PRTRECV" /\ "sendf" \notin load.calls)
               PROVE  phasmsg'[p] = 0
    BY <1>1 DEF BlockedMeansNoMessage
  <2>1. Edge(p)
    BY <1>1 DEF Edges
  <2> QED BY <2>1 DEF Edge, MessageInv, BlockedMeansNoMessage, Eligible
<1>3. ASSUME cont'[currpid'].op = "insertdR" PROVE phasmsg'[currpid'] = 0
  <2>1. /\ UNCHANGED currpid
        /\ insertdLoop \/ \E n \in load.delays : recvtim(n) \/ sleep10(n)
    <3>1. cont'[currpid'].op \in Looking /\ cont'[currpid'].op # "makeup"
      BY <1>3 DEF Searching, Looking
    <3> QED BY <3>1, Entered
  <2>2. cont \in [Pid -> KopType] /\ currpid \in Pid
    BY SchedNow DEF IInv, TableTypes
  <2>3. CASE insertdLoop
    <3>1. cont'[currpid].op = "insertdR" /\ UNCHANGED phasmsg
      BY <1>3, <2>1, <2>3 DEF insertdLoop, procVars
    <3>2. cont[currpid].op = "insertdR"
      BY <2>2, <2>3, <3>1 DEF insertdLoop, Goto, Kop, InUser
    <3> QED BY <2>1, <3>1, <3>2 DEF MessageInv
  <2>4. CASE \E n \in load.delays : recvtim(n)
    <3>1. cont[currpid] = InUser
      BY <2>4 DEF recvtim, Call, Interruptible
    <3>2. phasmsg[currpid] = 0 /\ UNCHANGED phasmsg
      BY <1>3, <2>1, <2>2, <2>4, <3>1 DEF recvtim, InUser, Kop
    <3> QED BY <2>1, <3>2
  <2>5. CASE \E n \in load.delays : sleep10(n)
    BY <1>3, <2>1, <2>2, <2>5 DEF sleep10, Call, Interruptible, Goto, Kop, InUser
  <2> QED BY <2>1, <2>3, <2>4, <2>5
<1> QED BY <1>2, <1>3 DEF MessageInv
LEMMA MessageInit == Init => MessageInv
<1> SUFFICES ASSUME Init PROVE MessageInv
  OBVIOUS
<1>1. currpid \in Pid /\ cont[currpid] = InUser
  BY InitGood DEF Init, IInv, Good, SchedGood, SchedType, Sched
<1> QED BY <1>1 DEF Init, MessageInv, BlockedMeansNoMessage, InUser, Kop

-----------------------------------------------------------------------------
(* Preemption *)

(* The steps on the way to a resched(), and strtclk(), may leave a contender *)
(* without an armed counter.                                                  *)
Disarming == RankStale \cup {"makeup", "strtclk"}

Armed(s) == Contended(s) => /\ s.preempt > PreemptMin
                            /\ load.board = "mio" => s.preempt > 0

ArmInv == cont[currpid].op \notin Disarming => Armed(Sched)

LEMMA ArmInit == Init => ArmInv
<1> SUFFICES ASSUME Init PROVE Armed(Sched)
  BY DEF ArmInv
<1> QED BY KernelAssumption DEF Init, Armed, Sched, PreemptMin

LEMMA FreshArmed ==
    ASSUME IInv, Fresh(Sched'), UNCHANGED load
    PROVE  Armed(Sched)'
  BY KernelAssumption DEF Fresh, Armed, Sched, PreemptMin

LEMMA RearmedArmed ==
    ASSUME IInv, ArmInv, cont[currpid].op \notin Disarming, Rearmed, UNCHANGED load
    PROVE  Armed(Sched)'
  BY FreshArmed DEF Rearmed, Rearms, ArmInv, Armed

LEMMA ArmStep ==
    ASSUME IInv, ArmInv, Next
    PROVE  ArmInv'
<1> SUFFICES ASSUME cont'[currpid'].op \notin Disarming
             PROVE  Armed(Sched)'
  BY DEF ArmInv
<1>1. UNCHANGED load /\ cont \in [Pid -> KopType] /\ currpid \in Pid
  BY SchedNow DEF Next, IInv, TableTypes
<1>2. cont[currpid] = InUser => cont[currpid].op \notin Disarming
  BY DEF InUser, Kop, Disarming, RankStale, ViewStale
<1>3. \A k : Goto(k) /\ UNCHANGED currpid => cont'[currpid'] = k
  BY <1>1 DEF Goto
<1>4. CASE KernelStep
  <2>1. CASE killFinish
    BY <1>1, <2>1, killFinishMoves, RearmedArmed
       DEF killFinish, In, Disarming, RankStale, ViewStale
  <2>2. CASE signalnLoop
    <3>1. cont[currpid].op \in Disarming
      BY <2>2 DEF signalnLoop, In, Disarming, RankStale
    <3>2. Fresh(Sched')
      BY <1>3, <2>2, signalnLoopMoves DEF Kop, Disarming, RankStale
    <3> QED BY <1>1, <3>2, FreshArmed
  <2>3. CASE flushLoop
    <3>1. cont[currpid].op \in Disarming
      BY <2>3 DEF flushLoop, In, Disarming, RankStale
    <3>2. Fresh(Sched')
      BY <2>3, <3>1, flushLoopMoves
    <3> QED BY <1>1, <3>2, FreshArmed
  <2>4. CASE receiveFinish
    <3>1. Rearmed
      BY <2>4, TakeMoves DEF receiveFinish, schedVars
    <3> QED BY <1>1, <2>4, <3>1, RearmedArmed
            DEF receiveFinish, In, Disarming, RankStale, ViewStale
  <2>5. CASE insertdLoop
    BY <1>1, <2>5, insertdLoopMoves, RearmedArmed
       DEF insertdLoop, In, Disarming, RankStale, ViewStale
  <2>6. CASE wakeupLoop
    <3>1. cont[currpid].op \in Disarming
      BY <2>6 DEF wakeupLoop, In, Disarming, RankStale, ViewStale
    <3>2. Fresh(Sched')
      BY <2>6, <3>1, wakeupLoopMoves
    <3> QED BY <1>1, <3>2, FreshArmed
  <2>7. CASE clpreem
    <3>1. Armed(Sched)
      BY <2>7 DEF clpreem, In, ArmInv, Disarming, RankStale, ViewStale
    <3>2. CASE Fresh(Sched')
      BY <1>1, <3>2, FreshArmed
    <3>3. CASE /\ ~ QuantumOver(preempt - 1) /\ preempt' = AtLeast(PreemptMin, preempt - 1)
               /\ Contended(Sched') => Contended(Sched)
      <4>1. preempt \in Int /\ Sched.preempt = preempt /\ Sched'.preempt = preempt'
        BY DEF IInv, Good, SchedGood, SchedType, Sched
      <4>2. load.board \in {"sun350", "mio"}
        BY KernelAssumption DEF IInv, TableTypes, Workload
      <4>3. CASE ~ Contended(Sched')
        BY <4>3 DEF Armed
      <4>4. CASE Contended(Sched)
        <5>1. preempt > -1 /\ (load.board = "mio" => preempt > 0)
          BY <3>1, <4>1, <4>4 DEF Armed, PreemptMin
        <5>2. preempt' > -1 /\ (load.board = "mio" => preempt' > 0)
          BY <3>3, <4>1, <4>2, <5>1 DEF QuantumOver, AtLeast, PreemptMin
        <5> QED BY <1>1, <4>1, <5>2 DEF Armed, PreemptMin
      <4> QED BY <3>3, <4>3, <4>4
    <3> QED BY <2>7, <3>2, <3>3, clpreemMoves
  <2>8. CASE makeupLoop
    <3>1. PICK k : Goto(k) /\ k.op \in {"makeup", "wakeupS"} /\ UNCHANGED currpid
      BY <2>8 DEF makeupLoop, Kop
    <3> QED BY <1>3, <3>1 DEF Disarming, RankStale, ViewStale
  <2>9. CASE strtclkFinish
    <3>1. CASE preempt > 0 /\ UNCHANGED preempt
      <4>1. preempt \in Int /\ Sched'.preempt = preempt
        BY <3>1 DEF IInv, Good, SchedGood, SchedType, Sched
      <4> QED BY <3>1, <4>1 DEF Armed, PreemptMin
    <3>2. CASE Fresh(Sched')
      BY <1>1, <3>2, FreshArmed
    <3> QED BY <2>9, <3>1, <3>2, strtclkFinishMoves
  <2> QED BY <1>4, <2>1, <2>2, <2>3, <2>4, <2>5, <2>6, <2>7, <2>8, <2>9 DEF KernelStep
<1>5. CASE ProcessCall
  BY <1>1, <1>2, <1>5, RearmedArmed,
     createMoves, killMoves, suspendMoves, resumeMoves, chprioMoves, setnokMoves
     DEF ProcessCall, create, kill, suspend, resume, chprio, setnok, Call, Interruptible
<1>6. CASE SemaphoreCall
  <2>1. cont[currpid] = InUser
    BY <1>6 DEF SemaphoreCall, screate, wait, signal, sdelete, signaln, sreset,
                Call, Interruptible
  <2>2. Rearmed
    <3>1. ASSUME UNCHANGED <<schedVars, procVars, due>> PROVE Rearmed
      BY <3>1, tableMoves
    <3> QED BY <1>6, <3>1, waitMoves, signalMoves
            DEF SemaphoreCall, screate, sdelete, signaln, sreset
  <2> QED BY <1>1, <1>2, <2>1, <2>2, RearmedArmed
<1>7. CASE MessageCall
  <2>1. cont[currpid] = InUser
    BY <1>7 DEF MessageCall, send, sendf, receive, recvclr, recvtim, Call, Interruptible
  <2>2. Rearmed
    <3>1. ASSUME recvclr PROVE Rearmed
      BY <3>1, TakeMoves DEF recvclr
    <3> QED BY <1>7, <3>1, sendMoves, sendfMoves, receiveMoves, recvtimMoves DEF MessageCall
  <2> QED BY <1>1, <1>2, <2>1, <2>2, RearmedArmed
<1>8. CASE ClockCall
  <2>1. cont[currpid] = InUser
    BY <1>8 DEF ClockCall, sleep10, tick, stopclk, strtclk, Call, Interruptible
  <2>2. Rearmed
    <3>1. ASSUME stopclk PROVE Rearmed
      BY <3>1, tableMoves DEF stopclk
    <3>2. ASSUME strtclk PROVE Rearmed
      <4>1. \A k : k.op \in {"makeup", "strtclk"} => k.op \in Disarming
        BY DEF Disarming
      <4> QED BY <1>3, <3>2, <4>1, strtclkMoves
    <3> QED BY <1>8, <3>1, <3>2, sleep10Moves, tickMoves DEF ClockCall
  <2> QED BY <1>1, <1>2, <2>1, <2>2, RearmedArmed
<1> QED BY <1>4, <1>5, <1>6, <1>7, <1>8 DEF Next
-----------------------------------------------------------------------------
(* Deaths *)

NoKin == \A p \in Pid : pnxtkin[p] = BADPID

(* Without a message to the next of kin, kill() is not interrupted in the    *)
(* middle: only the current process is in it, and its victim is still there. *)
DeathInv ==
    "setnok" \notin load.calls =>
        /\ NoKin
        /\ \A p \in Pid : cont[p].op = "kill" => p = currpid /\ pstate[cont[p].a] # "PRFREE"
        /\ NumprocCountsLive /\ StackFreedOnce

LEMMA LiveFinite == IsFiniteSet(Live) /\ Cardinality(Live) \in Nat
<1>1. IsFiniteSet(Pid)
  BY KernelAssumption, FS_Interval DEF Pid
<1>2. Live \in SUBSET Pid
  BY DEF Live
<1> QED BY <1>1, <1>2, FS_Subset, FS_CardinalityType

LEMMA DeathInit == Init => DeathInv
<1> SUFFICES ASSUME Init PROVE DeathInv
  OBVIOUS
<1>1. Live = {NPROC - 1}
  BY KernelAssumption DEF Init, Live, Pid, NULLPROC
<1>2. Killers = {}
  BY DEF Init, Killers, InUser, Kop
<1>3. Cardinality(Live) = 1 /\ Cardinality(Killers) = 0
  BY <1>1, <1>2, FS_Singleton, FS_EmptySet
<1>4. numproc = 1 /\ stkfree = load.stacks /\ load.stacks \in Nat
  BY KernelAssumption DEF Init, Workload
<1>5. NumprocCountsLive /\ StackFreedOnce
  BY <1>3, <1>4 DEF NumprocCountsLive, StackFreedOnce
<1> QED BY <1>5 DEF Init, DeathInv, NoKin, InUser, Kop

(* Steps in which nobody is born, dies or enters kill() *)
LEMMA NobodyDies ==
    ASSUME IInv, Edges, \A p \in Pid : cont[p].op # "kill",
           \A p \in Pid : cont'[p] = cont[p] \/ cont'[p].op # "kill",
           DeathInv, UNCHANGED <<load, numproc, stkfree, pnxtkin>>
    PROVE  DeathInv'
<1> SUFFICES ASSUME "setnok" \notin load.calls PROVE DeathInv'
  BY DEF DeathInv
<1>1. /\ currpid \in Pid /\ pstate \in [Pid -> States] /\ pstate[currpid] = "PRCURR"
      /\ numproc \in Int
  BY SchedNow DEF IInv, TableTypes
<1>2. \A p \in Pid : pstate'[p] = "PRFREE" <=> pstate[p] = "PRFREE"
  BY <1>1 DEF Edges, Edge, Eligible, Timed
<1>3. Live' = Live /\ Killers' = Killers
  BY <1>2 DEF Live, Killers
<1> QED BY <1>3 DEF DeathInv, NoKin, NumprocCountsLive, StackFreedOnce

LEMMA createDeaths ==
    ASSUME IInv, DeathInv, "setnok" \notin load.calls, NEW prio \in load.prios,
           create(prio), UNCHANGED load
    PROVE  DeathInv'
<1>1. /\ cont[currpid] = InUser /\ stkfree' = stkfree - 1 /\ UNCHANGED currpid
  BY DEF create, Call, Interruptible
<1>2. /\ currpid \in Pid /\ pstate \in [Pid -> States] /\ pnxtkin \in [Pid -> Int]
      /\ cont \in [Pid -> KopType] /\ numproc \in Int /\ stkfree \in Nat
  BY SchedNow DEF IInv, TableTypes
<1>3. \A p \in Pid : cont[p].op # "kill"
  BY <1>1 DEF DeathInv, InUser, Kop
<1>4. IsFiniteSet(Live) /\ Cardinality(Live) \in Nat
  BY LiveFinite
<1>5. CASE CreateFails(prio)
  <2>1. UNCHANGED <<numproc, pstate, pnxtkin, cont>>
    BY <1>5 DEF CreateFails, procVars
  <2>2. Live' = Live /\ Killers' = Killers /\ NoKin'
    BY <2>1 DEF Live, Killers, DeathInv, NoKin
  <2>3. StackFreedOnce' /\ NumprocCountsLive'
    <3>1. load.stacks \in Int
      BY KernelAssumption DEF IInv, TableTypes, Workload
    <3> QED BY <1>1, <1>2, <1>4, <2>1, <2>2, <3>1
            DEF DeathInv, StackFreedOnce, NumprocCountsLive
  <2> QED BY <1>3, <2>1, <2>2, <2>3 DEF DeathInv
<1>6. CASE FillEntry(prio)
  <2> DEFINE p == newpid
  <2>1. p \in Pid /\ pstate[p] = "PRFREE" /\ p # NULLPROC
    <3>1. p \in Pid /\ pstate[p] = "PRFREE"
      BY <1>6, NewpidFree DEF FillEntry, IInv, TableTypes
    <3>2. pstate[NULLPROC] # "PRFREE"
      BY DEF IInv, Good, SchedGood, NullEligible, Eligible, Sched
    <3> HIDE DEF p
    <3> QED BY <3>1, <3>2
  <2>2. /\ pstate' = [pstate EXCEPT ![p] = "PRSUSP"] /\ numproc' = numproc + 1
        /\ pnxtkin' = [pnxtkin EXCEPT ![p] = BADPID] /\ cont' = [cont EXCEPT ![p] = InUser]
    BY <1>6 DEF FillEntry
  <2> HIDE DEF p
  <2>3. Live' = Live \cup {p} /\ p \notin Live
    BY <1>2, <2>1, <2>2 DEF Live
  <2>4. \A q \in Pid : cont'[q].op # "kill"
    BY <1>2, <1>3, <2>1, <2>2 DEF InUser, Kop
  <2>5. Killers' = {} /\ Killers = {} /\ NoKin'
    BY <1>2, <1>3, <2>1, <2>2, <2>4 DEF Killers, DeathInv, NoKin
  <2>6. Cardinality(Live') = Cardinality(Live) + 1
    BY <1>4, <2>3, FS_AddElement
  <2>7. load.stacks \in Int /\ Cardinality({}) = 0
    BY KernelAssumption, FS_EmptySet DEF IInv, TableTypes, Workload
  <2>8. numproc = Cardinality(Live) - 0 /\ stkfree + Cardinality(Live) <= load.stacks + 1
    BY <2>5, <2>7 DEF DeathInv, NumprocCountsLive, StackFreedOnce
  <2>9. numproc' = Cardinality(Live') - 0 /\ stkfree' + Cardinality(Live') <= load.stacks + 1
    BY <1>1, <1>2, <1>4, <2>2, <2>6, <2>7, <2>8
  <2>10. NumprocCountsLive' /\ StackFreedOnce'
    BY <2>5, <2>7, <2>9 DEF NumprocCountsLive, StackFreedOnce
  <2> QED BY <2>4, <2>5, <2>10 DEF DeathInv
<1> QED BY <1>5, <1>6 DEF create

LEMMA killDeaths ==
    ASSUME IInv, DeathInv, "setnok" \notin load.calls, NEW pid \in Pid, kill(pid),
           UNCHANGED load
    PROVE  DeathInv'
<1>1. /\ cont[currpid] = InUser /\ numproc' = numproc - 1 /\ Goto(Kop("kill", pid, 0))
      /\ pstate[pid] # "PRFREE" /\ UNCHANGED <<pnxtkin, stkfree>>
      /\ SendEffect(BADPID, pid)
  BY DEF kill, Call, Interruptible, DeathInv, NoKin
<1>2. currpid \in Pid /\ cont \in [Pid -> KopType] /\ numproc \in Int
  BY SchedNow DEF IInv, TableTypes
<1>3. UNCHANGED <<pstate, currpid>>
  BY <1>1, KernelAssumption DEF SendEffect, Sendable, BADPID, schedVars
<1>4. \A p \in Pid : cont[p].op # "kill"
  BY <1>1 DEF DeathInv, InUser, Kop
<1>5. cont'[currpid] = Kop("kill", pid, 0) /\ \A p \in Pid : p # currpid => cont'[p] = cont[p]
  BY <1>1, <1>2 DEF Goto
<1>6. Live' = Live /\ Killers = {} /\ Killers' = {currpid}
  BY <1>2, <1>3, <1>4, <1>5 DEF Live, Killers, Kop
<1>7. Cardinality(Killers) = 0 /\ Cardinality(Killers') = 1 /\ Cardinality(Live) \in Nat
  BY <1>6, FS_EmptySet, FS_Singleton, LiveFinite
<1>8. NumprocCountsLive' /\ StackFreedOnce'
  BY <1>1, <1>2, <1>6, <1>7 DEF NumprocCountsLive, StackFreedOnce, DeathInv
<1> QED BY <1>1, <1>3, <1>4, <1>5, <1>8 DEF DeathInv, NoKin, Kop

LEMMA killFinishDeaths ==
    ASSUME IInv, DeathInv, "setnok" \notin load.calls, killFinish, UNCHANGED load
    PROVE  DeathInv'
<1> DEFINE pid == cont[currpid].a
<1>1. /\ cont[currpid].op = "kill" /\ stkfree' = stkfree + 1 /\ UNCHANGED <<pnxtkin, numproc>>
      /\ cont' = [cont EXCEPT ![currpid] = InUser, ![pid] = InUser]
  BY DEF killFinish, In, procVars
<1>2. /\ currpid \in Pid /\ cont \in [Pid -> KopType] /\ numproc \in Int /\ stkfree \in Nat
      /\ pstate \in [Pid -> States] /\ pstate[currpid] = "PRCURR"
  BY SchedNow DEF IInv, TableTypes
<1>3. pid \in Pid /\ pid # NULLPROC /\ Edges /\ pstate[pid] # "PRFREE"
  BY <1>1, <1>2, killFinishMoves DEF DeathInv
<1>4. pstate'[pid] = "PRFREE"
  BY <1>3, killFinishMoves
<1>5. Live' = Live \ {pid} /\ pid \in Live
  <2> HIDE DEF pid
  <2>1. \A q \in Pid : q # pid => (pstate'[q] = "PRFREE" <=> pstate[q] = "PRFREE")
    BY <1>1, <1>2, <1>3 DEF Edges, Edge, Eligible, Timed, pid
  <2> QED BY <1>3, <1>4, <2>1 DEF Live
<1>6. \A q \in Pid : cont'[q].op # "kill"
  <2> HIDE DEF pid
  <2>1. \A q \in Pid : q # currpid => cont[q].op # "kill"
    BY DEF DeathInv
  <2>2. cont'[currpid] = InUser /\ \A q \in Pid : q # currpid => cont'[q] \in {cont[q], InUser}
    BY <1>1, <1>2, <1>3
  <2> QED BY <2>1, <2>2 DEF InUser, Kop
<1>7. Killers' = {} /\ Killers = {currpid}
  BY <1>1, <1>2, <1>6 DEF Killers, DeathInv
<1>8. /\ Cardinality(Killers) = 1 /\ Cardinality(Killers') = 0
      /\ Cardinality(Live) \in Nat /\ Cardinality(Live') = Cardinality(Live) - 1
  BY <1>5, <1>7, FS_EmptySet, FS_Singleton, LiveFinite, FS_RemoveElement
<1>9. load.stacks \in Int
  BY KernelAssumption DEF IInv, TableTypes, Workload
<1>10. NumprocCountsLive' /\ StackFreedOnce'
  <2>1. numproc = Cardinality(Live) - 1 /\ stkfree + Cardinality(Live) <= load.stacks + 1
    BY <1>8 DEF NumprocCountsLive, StackFreedOnce, DeathInv
  <2>2. numproc' = Cardinality(Live') - 0 /\ stkfree' + Cardinality(Live') <= load.stacks + 1
    BY <1>1, <1>2, <1>8, <1>9, <2>1
  <2> QED BY <1>8, <2>2 DEF NumprocCountsLive, StackFreedOnce
<1> QED BY <1>1, <1>6, <1>10 DEF DeathInv, NoKin
LEMMA DeathStep ==
    ASSUME IInv, DeathInv, Next
    PROVE  DeathInv'
<1>1. /\ UNCHANGED load /\ Edges /\ currpid \in Pid /\ cont \in [Pid -> KopType]
  BY NextEdges, SchedNow DEF Next, IInv, TableTypes
<1> SUFFICES ASSUME "setnok" \notin load.calls PROVE DeathInv'
  BY <1>1 DEF DeathInv
<1> DEFINE Uneventful ==
             /\ \A p \in Pid : cont'[p] = cont[p] \/ cont'[p].op # "kill"
             /\ UNCHANGED <<numproc, stkfree, pnxtkin>>
<1>2. cont[currpid].op # "kill" /\ Uneventful => DeathInv'
  <2>1. cont[currpid].op # "kill" => \A p \in Pid : cont[p].op # "kill"
    BY DEF DeathInv
  <2> QED BY <1>1, <2>1, NobodyDies
<1>3. ASSUME NEW k, Goto(k), k.op # "kill"
      PROVE  \A p \in Pid : cont'[p] = cont[p] \/ cont'[p].op # "kill"
  BY <1>1, <1>3 DEF Goto
<1> DEFINE Elsewhere == \A p \in Pid : cont'[p] = cont[p] \/ cont'[p].op # "kill"
<1>4. UNCHANGED cont => Elsewhere
  OBVIOUS
<1>4a. \A op, a, n : op # "kill" /\ Goto(Kop(op, a, n)) => Elsewhere
  BY <1>3 DEF Kop
<1>5. CASE KernelStep
  <2>1. CASE killFinish
    BY <1>1, <2>1, killFinishDeaths
  <2>2. CASE ~ killFinish
    <3>1. cont[currpid].op # "kill"
      BY <1>5, <2>2 DEF KernelStep, signalnLoop, flushLoop, receiveFinish, insertdLoop,
                        wakeupLoop, clpreem, makeupLoop, strtclkFinish, In
    <3>2. UNCHANGED <<numproc, stkfree, pnxtkin>>
      BY <1>5, <2>2 DEF KernelStep, signalnLoop, flushLoop, receiveFinish, insertdLoop,
                        wakeupLoop, clpreem, makeupLoop, strtclkFinish, procVars, allocVars
    <3>3. CASE UNCHANGED cont
      BY <1>2, <3>1, <3>2, <3>3
    <3>4. CASE \E k : Goto(k) /\ k.op # "kill"
      BY <1>2, <1>3, <3>1, <3>2, <3>4
    <3>5. CASE insertdLoop
      <4>1. PICK k : Goto(k) /\ k.op # "kill"
        BY <3>5 DEF insertdLoop, In, Kop, InUser
      <4> QED BY <3>4, <4>1
    <3>6. CASE signalnLoop \/ flushLoop
      <4>1. UNCHANGED cont \/ \E k : Goto(k) /\ k.op # "kill"
        BY <3>6 DEF signalnLoop, flushLoop, FlushOne, Kop, InUser
      <4> QED BY <3>3, <3>4, <4>1
    <3>7. CASE receiveFinish \/ clpreem \/ strtclkFinish
      <4>1. \E k : Goto(k) /\ k.op # "kill"
        BY <3>7 DEF receiveFinish, clpreem, strtclkFinish, Kop, InUser
      <4> QED BY <3>4, <4>1
    <3>8. CASE wakeupLoop \/ makeupLoop
      <4>1. UNCHANGED cont \/ \E k : Goto(k) /\ k.op # "kill"
        BY <3>8 DEF wakeupLoop, WakeOne, makeupLoop, Kop
      <4> QED BY <3>3, <3>4, <4>1
    <3> QED BY <1>5, <2>2, <3>5, <3>6, <3>7, <3>8 DEF KernelStep
  <2> QED BY <2>1, <2>2
<1>6. cont[currpid] = InUser => cont[currpid].op # "kill"
  BY DEF InUser, Kop
<1>7. CASE ProcessCall
  <2>1. ASSUME NEW pid \in Pid, suspend(pid) \/ resume(pid) PROVE DeathInv'
    BY <1>2, <1>4, <1>6, <2>1 DEF suspend, resume, Call, Interruptible, procVars, allocVars
  <2>2. ASSUME NEW pid \in Pid, NEW prio \in load.prios, chprio(pid, prio) PROVE DeathInv'
    BY <1>2, <1>4, <1>6, <2>2 DEF chprio, Call, Interruptible, allocVars
  <2>3. ASSUME NEW pid \in Pid, NEW nok \in load.kin, setnok(nok, pid) PROVE FALSE
    BY <2>3 DEF setnok, Call, Interruptible
  <2> QED BY <1>1, <1>7, <2>1, <2>2, <2>3, createDeaths, killDeaths DEF ProcessCall
<1>8. CASE SemaphoreCall
  <2>1. cont[currpid] = InUser /\ UNCHANGED <<numproc, stkfree, pnxtkin>>
    BY <1>8 DEF SemaphoreCall, screate, wait, signal, sdelete, signaln, sreset,
                Call, Interruptible, procVars, allocVars, msgVars
  <2>2. Elsewhere
    <3> HIDE DEF Elsewhere
    <3> QED BY <1>4, <1>4a, <1>8 DEF SemaphoreCall, screate, wait, signal, sdelete, signaln, sreset
  <2> QED BY <1>2, <1>6, <2>1, <2>2
<1>9. CASE MessageCall
  <2>1. cont[currpid] = InUser /\ UNCHANGED <<numproc, stkfree, pnxtkin>>
    BY <1>9 DEF MessageCall, send, sendf, receive, recvclr, recvtim, Call, Interruptible,
                allocVars
  <2>2. Elsewhere
    <3> HIDE DEF Elsewhere
    <3> QED BY <1>4, <1>4a, <1>9 DEF MessageCall, send, sendf, receive, recvclr, recvtim
  <2> QED BY <1>2, <1>6, <2>1, <2>2
<1>10. CASE ClockCall
  <2>1. cont[currpid] = InUser /\ UNCHANGED <<numproc, stkfree, pnxtkin>>
    BY <1>10 DEF ClockCall, sleep10, tick, stopclk, strtclk, Call, Interruptible,
                 procVars, allocVars
  <2>2. Elsewhere
    <3> HIDE DEF Elsewhere
    <3> QED BY <1>4, <1>4a, <1>10 DEF ClockCall, sleep10, tick, stopclk, strtclk
  <2> QED BY <1>2, <1>6, <2>1, <2>2
<1> QED BY <1>5, <1>7, <1>8, <1>9, <1>10 DEF Next

-----------------------------------------------------------------------------
(* Accepted messages *)

(* The property MessageKept, step by step *)
Kept == \A p \in Pid : phasmsg[p] # 0 /\ p # currpid /\ pstate[p] # "PRFREE"
                       /\ "sendf" \notin load.calls
                          => phasmsg'[p] # 0 /\ pmsg'[p] = pmsg[p]

LEMMA MessageKeptStep ==
    ASSUME IInv, [Next]_vars
    PROVE  Kept
<1>1. UNCHANGED msgVars => Kept
  BY DEF msgVars, Kept
<1>2. phasmsg \in [Pid -> Int] /\ pmsg \in [Pid -> Int] /\ currpid \in Pid
  BY SchedNow DEF IInv, TableTypes
<1>3. TakeMessage /\ UNCHANGED pmsg => Kept
  BY <1>2 DEF TakeMessage, Kept
<1>4. CASE UNCHANGED vars
  BY <1>1, <1>4 DEF vars, procVars, msgVars
<1>5. CASE KernelStep
  <2>1. UNCHANGED msgVars \/ (TakeMessage /\ UNCHANGED pmsg)
    BY <1>5 DEF KernelStep, killFinish, signalnLoop, flushLoop, receiveFinish, insertdLoop,
                wakeupLoop, clpreem, makeupLoop, strtclkFinish, procVars, msgVars
  <2> QED BY <1>1, <1>3, <2>1
<1>6. CASE ProcessCall
  <2>1. ASSUME NEW prio \in load.prios, create(prio) PROVE Kept
    <3>1. CASE CreateFails(prio)
      BY <1>1, <3>1 DEF CreateFails, procVars, msgVars
    <3>2. CASE FillEntry(prio)
      <4>1. pstate[newpid] = "PRFREE"
        BY <3>2, NewpidFree DEF FillEntry, IInv, TableTypes
      <4>2. UNCHANGED pmsg /\ phasmsg' = [phasmsg EXCEPT ![newpid] = 0]
        BY <3>2 DEF FillEntry
      <4> QED BY <1>2, <4>1, <4>2 DEF Kept
    <3> QED BY <2>1, <3>1, <3>2 DEF create
  <2>2. ASSUME NEW pid \in Pid, kill(pid) PROVE Kept
    <3>1. cont[currpid] = InUser /\ SendEffect(pnxtkin[pid], pid) /\ UNCHANGED pprio
      BY <2>2 DEF kill, Call, Interruptible
    <3>2. \A q \in Pid : phasmsg[q] # 0 => phasmsg'[q] = phasmsg[q] /\ pmsg'[q] = pmsg[q]
      BY <3>1, SendMoves
    <3> QED BY <3>2 DEF Kept
  <2> QED BY <1>1, <1>6, <2>1, <2>2
          DEF ProcessCall, suspend, resume, chprio, setnok, procVars, msgVars
<1>7. CASE SemaphoreCall
  BY <1>1, <1>7 DEF SemaphoreCall, screate, wait, signal, sdelete, signaln, sreset,
                    procVars, msgVars
<1>8. CASE MessageCall
  <2>1. ASSUME NEW pid \in Pid, NEW m \in load.msgs, send(pid, m) PROVE Kept
    <3>1. cont[currpid] = InUser /\ SendEffect(pid, m) /\ UNCHANGED pprio
      BY <2>1 DEF send, Interruptible
    <3>2. \A q \in Pid : phasmsg[q] # 0 => phasmsg'[q] = phasmsg[q] /\ pmsg'[q] = pmsg[q]
      BY <3>1, SendMoves
    <3> QED BY <3>2 DEF Kept
  <2>2. ASSUME NEW pid \in Pid, NEW m \in load.msgs, sendf(pid, m) PROVE Kept
    BY <2>2 DEF sendf, Call, Interruptible, Kept
  <2>3. ASSUME receive \/ recvclr PROVE Kept
    BY <1>1, <1>3, <2>3 DEF receive, recvclr, msgVars
  <2>4. ASSUME NEW n \in load.delays, recvtim(n) PROVE Kept
    BY <1>1, <1>3, <2>4 DEF recvtim, msgVars
  <2> QED BY <1>8, <2>1, <2>2, <2>3, <2>4 DEF MessageCall
<1>9. CASE ClockCall
  BY <1>1, <1>9 DEF ClockCall, sleep10, tick, stopclk, strtclk, procVars, msgVars
<1> QED BY <1>4, <1>5, <1>6, <1>7, <1>8, <1>9 DEF Next
-----------------------------------------------------------------------------
(* The delta list: V gives every member of l the sum of the keys up to it,   *)
(* stated from one member to the next, which no recursive sum is needed for.  *)

Before(l, V, i) == IF i = 1 THEN 0 ELSE V[l[i - 1]]
Fits(l, key, V) == \A i \in 1 .. Len(l) : V[l[i]] = key[l[i]] + Before(l, V, i)

LEMMA Positions ==
    ASSUME NEW n \in Nat, NEW j \in 1 .. n - 1, NEW k \in 1 .. n
    PROVE  /\ j \in 1 .. n /\ j + 1 \in 1 .. n /\ j \in Nat /\ k \in Nat
           /\ j + 1 # 1 /\ (j + 1) - 1 = j
           /\ j # 1 => j - 1 \in 1 .. n /\ j - 1 \in 1 .. n - 1 /\ (j - 1) + 1 = j
           /\ j < k => j # k + 1 /\ (j # 1 => j - 1 < k)
           /\ j = k => k < n /\ (j # 1 => j - 1 < k)
           /\ j > k => ~ (j < k) /\ j # 1 /\ ~ (j - 1 < k) /\ k + 1 \in 1 .. n /\ k + 1 # j + 1
  OBVIOUS

LEMMA FitsSame ==
    ASSUME NEW l \in Seq(Pid), NEW key, NEW V, NEW key2, NEW V2, Fits(l, key, V),
           \A q \in Pid : OnList(l, q) => key2[q] = key[q] /\ V2[q] = V[q]
    PROVE  Fits(l, key2, V2)
<1> SUFFICES ASSUME NEW i \in 1 .. Len(l)
             PROVE  V2[l[i]] = key2[l[i]] + Before(l, V2, i)
  BY DEF Fits
<1>1. V2[l[i]] = V[l[i]] /\ key2[l[i]] = key[l[i]]
  BY DEF OnList
<1>2. Before(l, V2, i) = Before(l, V, i)
  <2>1. i # 1 => i - 1 \in 1 .. Len(l)
    OBVIOUS
  <2> QED BY <2>1 DEF Before, OnList
<1> QED BY <1>1, <1>2 DEF Fits

(* A tick, or a whole run of them, shortens every wait by as much. *)
LEMMA FitsShift ==
    ASSUME NEW l \in Seq(Pid), NoDup(l), l # <<>>, NEW d \in Int,
           NEW key \in [Pid -> Int], NEW V \in [Pid -> Int], Fits(l, key, V),
           NEW key2, key2[l[1]] = key[l[1]] + d,
           \A q \in Pid : OnList(l, q) /\ q # l[1] => key2[q] = key[q],
           NEW V2, \A q \in Pid : OnList(l, q) => V2[q] = V[q] + d
    PROVE  Fits(l, key2, V2)
<1> SUFFICES ASSUME NEW i \in 1 .. Len(l)
             PROVE  V2[l[i]] = key2[l[i]] + Before(l, V2, i)
  BY DEF Fits
<1>1. 1 \in 1 .. Len(l) /\ l[1] \in Pid /\ l[i] \in Pid /\ OnList(l, l[i])
  BY DEF OnList
<1>2. V2[l[i]] = V[l[i]] + d /\ V[l[i]] = key[l[i]] + Before(l, V, i)
      /\ V[l[i]] \in Int /\ key[l[i]] \in Int
  BY <1>1 DEF Fits
<1>3. CASE i = 1
  BY <1>2, <1>3 DEF Before
<1>4. CASE i # 1
  <2>1. i - 1 \in 1 .. Len(l) /\ l[i] # l[1]
    BY <1>1, <1>4 DEF NoDup
  <2>2. l[i - 1] \in Pid /\ OnList(l, l[i - 1])
    BY <2>1 DEF OnList
  <2>3. V2[l[i - 1]] = V[l[i - 1]] + d /\ V[l[i - 1]] \in Int /\ key2[l[i]] = key[l[i]]
    BY <1>1, <2>1, <2>2
  <2> QED BY <1>2, <1>4, <2>3 DEF Before
<1> QED BY <1>3, <1>4

(* The first member leaves with its key: the others' sums start behind it. *)
LEMMA FitsTail ==
    ASSUME NEW l \in Seq(Pid), l # <<>>,
           NEW key \in [Pid -> Int], NEW V \in [Pid -> Int], Fits(l, key, V),
           NEW V2, \A q \in Pid : OnList(l, q) => V2[q] = V[q] - key[l[1]]
    PROVE  Fits(Tail(l), key, V2)
<1>1. /\ Len(Tail(l)) = Len(l) - 1 /\ \A j \in 1 .. Len(l) - 1 : Tail(l)[j] = l[j + 1]
      /\ 1 \in 1 .. Len(l) /\ l[1] \in Pid
  OBVIOUS
<1> SUFFICES ASSUME NEW i \in 1 .. Len(l) - 1
             PROVE  V2[l[i + 1]] = key[l[i + 1]] + Before(Tail(l), V2, i)
  BY <1>1 DEF Fits
<1>2. /\ i + 1 \in 1 .. Len(l) /\ i \in 1 .. Len(l) /\ l[i + 1] \in Pid /\ l[i] \in Pid
      /\ (i + 1) - 1 = i /\ i + 1 # 1
  OBVIOUS
<1>3. /\ V2[l[i + 1]] = V[l[i + 1]] - key[l[1]] /\ V2[l[i]] = V[l[i]] - key[l[1]]
      /\ V[l[i + 1]] = key[l[i + 1]] + V[l[i]]
      /\ V[l[i + 1]] \in Int /\ V[l[i]] \in Int /\ key[l[i + 1]] \in Int /\ key[l[1]] \in Int
  BY <1>1, <1>2 DEF Fits, Before, OnList
<1>4. CASE i = 1
  <2>1. V[l[1]] = key[l[1]] + 0
    BY <1>1 DEF Fits, Before
  <2>2. Before(Tail(l), V2, i) = 0 /\ l[i] = l[1]
    BY <1>4 DEF Before
  <2>3. V[l[1]] = key[l[1]]
    BY <1>3, <2>1
  <2>4. V2[l[i + 1]] = key[l[i + 1]]
    BY <1>3, <2>2, <2>3
  <2>5. V2[l[i + 1]] = key[l[i + 1]] + 0
    BY <1>3, <2>4
  <2> QED BY <2>2, <2>5
<1>5. CASE i # 1
  <2>1. i - 1 \in 1 .. Len(l) - 1 /\ (i - 1) + 1 = i
    BY <1>5
  <2>2. Before(Tail(l), V2, i) = V2[l[i]]
    BY <1>1, <1>5, <2>1 DEF Before
  <2> DEFINE a == V[l[i + 1]]
             b == V[l[i]]
             c == key[l[1]]
             d == key[l[i + 1]]
  <2>3. a \in Int /\ b \in Int /\ c \in Int /\ d \in Int /\ a = d + b
    BY <1>3
  <2>4. V2[l[i + 1]] = a - c /\ V2[l[i]] = b - c
    BY <1>3
  <2>5. SUFFICES a - c = d + (b - c)
    BY <2>2, <2>4
  <2> HIDE DEF a, b, c, d
  <2> QED BY <2>3
<1> QED BY <1>4, <1>5

(* One that leaves early passes its key on to its successor. *)
LEMMA FitsRemove ==
    ASSUME NEW l \in Seq(Pid), NoDup(l), NEW p \in Pid, OnList(l, p),
           NEW key \in [Pid -> Int], NEW V \in [Pid -> Int], Fits(l, key, V),
           NEW key2,
           \A q \in Pid : OnList(dequeue(l, p), q) =>
              key2[q] = LET i == IndexOf(l, p)
                        IN  IF i < Len(l) /\ q = l[i + 1] THEN key[q] + key[p] ELSE key[q]
    PROVE  Fits(dequeue(l, p), key2, V)
<1> DEFINE k == IndexOf(l, p)
           m == dequeue(l, p)
<1>1. k \in 1 .. Len(l) /\ l[k] = p
  <2>1. \E i \in 1 .. Len(l) : l[i] = p
    BY DEF OnList
  <2> QED BY <2>1 DEF IndexOf
<1>2. /\ m \in Seq(Pid) /\ Len(m) = Len(l) - 1
      /\ \A j \in 1 .. Len(l) - 1 : m[j] = IF j < k THEN l[j] ELSE l[j + 1]
  <2>1. m = RemoveAt(l, k)
    BY DEF dequeue
  <2> HIDE DEF k, m
  <2> QED BY <1>1, <2>1, RemoveAtElements
<1>3. \A q \in Pid : OnList(m, q) =>
         key2[q] = IF k < Len(l) /\ q = l[k + 1] THEN key[q] + key[p] ELSE key[q]
  OBVIOUS
<1>4. \A i \in 1 .. Len(l) : V[l[i]] = key[l[i]] + Before(l, V, i)
  BY DEF Fits
<1> HIDE DEF k, m
<1> SUFFICES ASSUME NEW j \in 1 .. Len(l) - 1
             PROVE  V[m[j]] = key2[m[j]] + Before(m, V, j)
  BY <1>2 DEF Fits, m
<1>5. Len(l) \in Nat
  OBVIOUS
<1>6. /\ j \in 1 .. Len(l) /\ j + 1 \in 1 .. Len(l) /\ j \in Nat /\ k \in Nat
      /\ j + 1 # 1 /\ (j + 1) - 1 = j
      /\ j # 1 => j - 1 \in 1 .. Len(l) /\ j - 1 \in 1 .. Len(l) - 1 /\ (j - 1) + 1 = j
      /\ j < k => j # k + 1 /\ (j # 1 => j - 1 < k)
      /\ j = k => k < Len(l) /\ (j # 1 => j - 1 < k)
      /\ j > k => ~ (j < k) /\ j # 1 /\ ~ (j - 1 < k) /\ k + 1 \in 1 .. Len(l) /\ k + 1 # j + 1
  BY <1>1, <1>5, Positions
<1>7. m[j] = IF j < k THEN l[j] ELSE l[j + 1]
  BY <1>2
<1>8. l[j] \in Pid /\ l[j + 1] \in Pid /\ m[j] \in Pid /\ OnList(m, m[j])
  <2>1. l[j] \in Pid /\ l[j + 1] \in Pid
    <3>1. \A x \in 1 .. Len(l) : l[x] \in Pid
      OBVIOUS
    <3>2. j \in 1 .. Len(l) /\ j + 1 \in 1 .. Len(l)
      BY <1>6
    <3> QED BY <3>1, <3>2
  <2>2. j \in 1 .. Len(m)
    BY <1>2
  <2> QED BY <1>7, <2>1, <2>2 DEF OnList
<1>9. j # 1 => m[j - 1] = IF j - 1 < k THEN l[j - 1] ELSE l[j]
  <2>1. ASSUME j # 1 PROVE m[j - 1] = IF j - 1 < k THEN l[j - 1] ELSE l[(j - 1) + 1]
    BY <1>2, <1>6, <2>1
  <2> QED BY <1>6, <2>1
<1>10. V[l[j + 1]] = key[l[j + 1]] + V[l[j]] /\ V[l[j]] = key[l[j]] + Before(l, V, j)
  BY <1>4, <1>6 DEF Before
<1>11. CASE j < k
  <2>1. m[j] = l[j]
    BY <1>11, <1>7
  <2>2. ~ (k < Len(l) /\ l[j] = l[k + 1])
    <3>1. k < Len(l) => k + 1 \in 1 .. Len(l)
      BY <1>1, <1>5
    <3> QED BY <1>11, <1>6, <3>1 DEF NoDup
  <2>3. Before(m, V, j) = Before(l, V, j)
    BY <1>11, <1>6, <1>9 DEF Before
  <2>4. key2[m[j]] = key[l[j]]
    BY <1>3, <1>8, <2>1, <2>2
  <2> QED BY <1>10, <2>1, <2>3, <2>4
<1>12. CASE j = k
  <2>1. ~ (j < k)
    BY <1>12, <1>6
  <2>2. m[j] = l[j + 1] /\ k < Len(l) /\ l[j] = p
    BY <1>1, <1>12, <1>6, <1>7, <2>1
  <2>3. key2[m[j]] = key[l[j + 1]] + key[p]
    BY <1>3, <1>8, <1>12, <2>2
  <2>4. Before(m, V, j) = Before(l, V, j)
    BY <1>12, <1>6, <1>9 DEF Before
  <2>5. Before(l, V, j) \in Int
    <3>1. \A x \in 1 .. Len(l) : V[l[x]] \in Int
      OBVIOUS
    <3>2. j # 1 => j - 1 \in 1 .. Len(l)
      BY <1>6
    <3> QED BY <3>1, <3>2 DEF Before
  <2>6. key[l[j + 1]] \in Int /\ key[p] \in Int
    BY <1>8
  <2> QED BY <1>10, <2>2, <2>3, <2>4, <2>5, <2>6
<1>13. CASE j > k
  <2>1. m[j] = l[j + 1]
    BY <1>13, <1>6, <1>7
  <2>2. l[j + 1] # l[k + 1]
    BY <1>13, <1>6 DEF NoDup
  <2>3. key2[m[j]] = key[l[j + 1]]
    BY <1>3, <1>8, <2>1, <2>2
  <2>4. Before(m, V, j) = V[l[j]]
    BY <1>13, <1>6, <1>9 DEF Before
  <2> QED BY <1>10, <2>1, <2>3, <2>4
<1> QED BY <1>1, <1>11, <1>12, <1>13, <1>6

(* A new member takes its key out of its successor's. *)
LEMMA FitsInsert ==
    ASSUME NEW l \in Seq(Pid), NoDup(l), NEW c \in Pid, ~ OnList(l, c),
           NEW i \in 1 .. Len(l) + 1, NEW k \in Int,
           NEW key \in [Pid -> Int], NEW V \in [Pid -> Int], Fits(l, key, V),
           NEW key2, key2[c] = k,
           \A q \in Pid : OnList(l, q) =>
              key2[q] = IF i <= Len(l) /\ q = l[i] THEN key[q] - k ELSE key[q],
           NEW V2, V2[c] = Before(l, V, i) + k, \A q \in Pid : q # c => V2[q] = V[q]
    PROVE  Fits(InsertAt(l, i, c), key2, V2)
<1> DEFINE m == InsertAt(l, i, c)
<1>1. /\ Len(m) = Len(l) + 1
      /\ \A j \in 1 .. Len(l) + 1 :
            m[j] = IF j < i THEN l[j] ELSE IF j = i THEN c ELSE l[j - 1]
  BY InsertAtElements DEF Inserted
<1>2. \A j \in 1 .. Len(l) : /\ l[j] \in Pid /\ OnList(l, l[j]) /\ l[j] # c
                             /\ V2[l[j]] = V[l[j]] /\ V[l[j]] \in Int /\ key[l[j]] \in Int
                             /\ V[l[j]] = key[l[j]] + Before(l, V, j)
  BY DEF Fits, OnList
<1>3. \A j \in 1 .. Len(l) + 1 : Before(l, V, j) \in Int
  BY <1>2 DEF Before
<1> HIDE DEF m
<1> SUFFICES ASSUME NEW j \in 1 .. Len(l) + 1
             PROVE  V2[m[j]] = key2[m[j]] + Before(m, V2, j)
  BY <1>1 DEF Fits, m
<1>4. CASE j < i
  <2>1. j \in 1 .. Len(l) /\ m[j] = l[j] /\ (i <= Len(l) => l[j] # l[i])
    BY <1>1, <1>4 DEF NoDup
  <2>2. Before(m, V2, j) = Before(l, V, j)
    <3>1. j # 1 => j - 1 \in 1 .. Len(l) /\ j - 1 < i /\ j - 1 \in 1 .. Len(l) + 1
      BY <1>4
    <3> QED BY <1>1, <1>2, <3>1 DEF Before
  <2>3. key2[l[j]] = key[l[j]]
    BY <1>2, <2>1
  <2> QED BY <1>2, <2>1, <2>2, <2>3
<1>5. CASE j = i
  <2>1. m[j] = c
    BY <1>1, <1>5
  <2>2. Before(m, V2, j) = Before(l, V, j)
    <3>1. j # 1 => j - 1 \in 1 .. Len(l) /\ j - 1 < i /\ j - 1 \in 1 .. Len(l) + 1
      BY <1>5
    <3> QED BY <1>1, <1>2, <3>1 DEF Before
  <2>3. Before(l, V, i) \in Int
    BY <1>3
  <2> QED BY <1>5, <2>1, <2>2, <2>3
<1>6. CASE j > i
  <2> DEFINE x == j - 1
  <2>1. x \in 1 .. Len(l) /\ x >= i /\ j # 1 /\ x \in 1 .. Len(l) + 1 /\ x \in Nat
        /\ i \in Nat /\ Len(l) \in Nat
    BY <1>6
  <2>2. m[j] = l[x] /\ Before(m, V2, j) = V2[m[x]]
    BY <1>1, <1>6, <2>1 DEF Before
  <2> HIDE DEF x
  <2>3. V[l[x]] = key[l[x]] + Before(l, V, x) /\ V2[l[x]] = V[l[x]]
        /\ V[l[x]] \in Int /\ key[l[x]] \in Int
    BY <1>2, <2>1
  <2>4. CASE x = i
    <3>1. m[x] = c /\ key2[l[x]] = key[l[x]] - k
      BY <1>1, <1>2, <2>1, <2>4
    <3>2. Before(l, V, i) \in Int
      BY <1>3
    <3> QED BY <2>2, <2>3, <2>4, <3>1, <3>2
  <2>5. CASE x > i
    <3>1. x \in Int /\ i \in Int /\ Len(l) \in Int /\ 1 <= x /\ x <= Len(l) /\ 1 <= i
      BY <2>1
    <3>2. x - 1 \in 1 .. Len(l) /\ x # 1 /\ ~ (x < i) /\ x # i
      BY <2>5, <3>1
    <3>3. m[x] = IF x < i THEN l[x] ELSE IF x = i THEN c ELSE l[x - 1]
      BY <1>1, <2>1
    <3>4. m[x] = l[x - 1] /\ x - 1 \in 1 .. Len(l) /\ x # 1
      BY <3>2, <3>3
    <3>5. l[x] # l[i]
      <4>1. i \in 1 .. Len(l) /\ x # i
        BY <2>1, <2>5
      <4> QED BY <2>1, <4>1 DEF NoDup
    <3>6. key2[l[x]] = key[l[x]] /\ V2[l[x - 1]] = V[l[x - 1]]
      BY <1>2, <2>1, <3>4, <3>5
    <3> QED BY <2>2, <2>3, <3>4, <3>6 DEF Before
  <2> QED BY <2>1, <2>4, <2>5
<1> QED BY <1>4, <1>5, <1>6
-----------------------------------------------------------------------------
(* What the steps do to the delta list: how its members' sums V move on *)

LEMMA DeltaNow ==
    ASSUME IInv
    PROVE  /\ clockq \in Seq(Pid) /\ NoDup(clockq) /\ qkey \in [Pid -> Int] /\ due \in [Pid -> Int]
           /\ currpid \in Pid /\ pstate[currpid] = "PRCURR" /\ ~ OnList(clockq, currpid)
           /\ cont \in [Pid -> KopType] /\ load \in Workload
           /\ \A q \in Pid : OnList(clockq, q) <=> pstate[q] \in Timed
<1>1. Good(Sched) /\ Running(Sched) /\ TableTypes
  BY DEF IInv
<1>2. NoDup(clockq) /\ qkey \in [Pid -> Int]
  BY <1>1 DEF Good, SchedGood, SchedType, ClockListBut, Sched
<1>3. load \in Workload
  BY <1>1, KernelAssumption DEF TableTypes
<1> QED BY <1>1, <1>2, <1>3, SchedNow DEF TableTypes, Timed

LEMMA UnsleptFits ==
    ASSUME IInv, NEW p \in Pid, pstate[p] \in Timed, Unslept(p),
           NEW V \in [Pid -> Int], Fits(clockq, qkey, V),
           NEW W, \A q \in Pid : OnList(clockq, q) /\ q # p => W[q] = V[q]
    PROVE  Fits(clockq', qkey', W)
<1>1. /\ OnList(clockq, p) /\ clockq' = dequeue(clockq, p)
      /\ clockq \in Seq(Pid) /\ NoDup(clockq) /\ qkey \in [Pid -> Int]
  BY DeltaNow DEF Unslept
<1>2. /\ dequeue(clockq, p) \in Seq(Pid)
      /\ \A q \in Pid : OnList(dequeue(clockq, p), q) <=> OnList(clockq, q) /\ q # p
  BY <1>1, DequeueFacts
<1>3. \A q \in Pid : OnList(dequeue(clockq, p), q) =>
         qkey'[q] = LET i == IndexOf(clockq, p)
                    IN  IF i < Len(clockq) /\ q = clockq[i + 1] THEN qkey[q] + qkey[p] ELSE qkey[q]
  <2> SUFFICES ASSUME NEW q \in Pid, OnList(dequeue(clockq, p), q)
               PROVE  qkey'[q] = LET i == IndexOf(clockq, p)
                                 IN  IF i < Len(clockq) /\ q = clockq[i + 1]
                                       THEN qkey[q] + qkey[p] ELSE qkey[q]
    OBVIOUS
  <2> DEFINE i == IndexOf(clockq, p)
             keys == IF i < Len(clockq) THEN [qkey EXCEPT ![clockq[i + 1]] = @ + qkey[p]] ELSE qkey
  <2>1. qkey'[q] = unsleep(Sched, p).qkey[q] /\ q # p
    BY <1>1, <1>2 DEF Unslept
  <2>2. unsleep(Sched, p).qkey = [keys EXCEPT ![p] = 0]
    BY DEF unsleep, Sched
  <2>3. i \in 1 .. Len(clockq)
    BY <1>1 DEF IndexOf, OnList
  <2> HIDE DEF i
  <2>4. i < Len(clockq) => i + 1 \in 1 .. Len(clockq)
    BY <1>1, <2>3
  <2>5. i < Len(clockq) => clockq[i + 1] \in Pid
    BY <1>1, <2>4
  <2>6. keys \in [Pid -> Int]
    BY <1>1, <2>5
  <2>7. qkey'[q] = keys[q]
    BY <2>1, <2>2, <2>6
  <2> QED BY <1>1, <2>7 DEF i
<1>4. Fits(clockq', qkey', V)
  BY <1>1, <1>3, FitsRemove
<1> QED BY <1>1, <1>2, <1>4, FitsSame

LEMMA WokenFits ==
    ASSUME IInv, Woken, NEW V \in [Pid -> Int], Fits(clockq, qkey, V),
           NEW W, \A q \in Pid : OnList(clockq, q) /\ q # clockq[1] => W[q] = V[q] - qkey[clockq[1]]
    PROVE  Fits(clockq', qkey', W)
<1>1. /\ clockq \in Seq(Pid) /\ NoDup(clockq) /\ qkey \in [Pid -> Int]
      /\ clockq # <<>> /\ clockq' = Tail(clockq)
  BY DeltaNow DEF Woken
<1>2. /\ Tail(clockq) \in Seq(Pid)
      /\ \A q \in Pid : OnList(Tail(clockq), q) <=> OnList(clockq, q) /\ q # clockq[1]
  BY <1>1, TailFacts
<1> DEFINE V2 == [q \in Pid |-> V[q] - qkey[clockq[1]]]
<1>3. Fits(Tail(clockq), qkey, V2)
  <2>1. \A q \in Pid : OnList(clockq, q) => V2[q] = V[q] - qkey[clockq[1]]
    OBVIOUS
  <2> HIDE DEF V2
  <2> QED BY <1>1, <2>1, FitsTail
<1>4. \A q \in Pid : OnList(Tail(clockq), q) => qkey'[q] = qkey[q] /\ W[q] = V2[q]
  BY <1>2 DEF Woken
<1> HIDE DEF V2
<1> QED BY <1>1, <1>2, <1>3, <1>4, FitsSame

LEMMA LinkedFits ==
    ASSUME IInv, Linked, cont[currpid].op \in Searching,
           NEW V \in [Pid -> Int], Fits(clockq, qkey, V),
           NEW W, W[currpid] = Before(clockq, V, cont[currpid].a) + cont[currpid].n,
           \A q \in Pid : q # currpid => W[q] = V[q]
    PROVE  Fits(clockq', qkey', W)
<1> DEFINE i == cont[currpid].a
           k == cont[currpid].n
<1>1. /\ clockq \in Seq(Pid) /\ NoDup(clockq) /\ qkey \in [Pid -> Int]
      /\ currpid \in Pid /\ ~ OnList(clockq, currpid) /\ k \in Int /\ i \in 1 .. Len(clockq) + 1
      /\ clockq' = InsertAt(clockq, i, currpid)
  BY DeltaNow DEF Linked, IInv, LoopState, KopType, Searching
<1>2. \A q \in Pid : OnList(clockq', q) => qkey'[q] = LinkDelta(Sched, i, k).qkey[q]
  BY DEF Linked
<1>3. \A q \in Pid : OnList(clockq', q) <=> OnList(clockq, q) \/ q = currpid
  <2> HIDE DEF i, k
  <2> QED BY <1>1, LinkFacts
<1>4. LinkDelta(Sched, i, k).qkey = IF i <= Len(clockq)
                                     THEN [qkey EXCEPT ![currpid] = k, ![clockq[i]] = @ - k]
                                     ELSE [qkey EXCEPT ![currpid] = k]
  BY DEF LinkDelta, Sched
<1> HIDE DEF i, k
<1>5. i <= Len(clockq) => i \in 1 .. Len(clockq) /\ clockq[i] # currpid /\ clockq[i] \in Pid
  <2>1. i <= Len(clockq) => i \in 1 .. Len(clockq)
    BY <1>1
  <2> QED BY <1>1, <2>1 DEF OnList
<1>6. qkey'[currpid] = k
  BY <1>1, <1>2, <1>3, <1>4, <1>5
<1>7. \A q \in Pid : OnList(clockq, q) =>
         qkey'[q] = IF i <= Len(clockq) /\ q = clockq[i] THEN qkey[q] - k ELSE qkey[q]
  BY <1>1, <1>2, <1>3, <1>4, <1>5
<1>8. W[currpid] = Before(clockq, V, i) + k
  BY DEF i, k
<1> QED BY <1>1, <1>6, <1>7, <1>8, FitsInsert

(* The tick takes one off the key of the first waiter, down to KeyMin. *)
LEMMA TickFits ==
    ASSUME IInv, tick, ~ Deferred, NEW V \in [Pid -> Int], Fits(clockq, qkey, V),
           clockq # <<>>,
           NEW W, \A q \in Pid : OnList(clockq, q) =>
                     W[q] = V[q] + (AtLeast(KeyMin, qkey[clockq[1]] - 1) - qkey[clockq[1]])
    PROVE  Fits(clockq', qkey', W)
<1>1. /\ clockq \in Seq(Pid) /\ NoDup(clockq) /\ qkey \in [Pid -> Int] /\ clockq[1] \in Pid
      /\ clockq' = clockq /\ qkey' = TickedKeys
  BY DeltaNow, tickMoves
<1>2. ClockView(Sched)
  BY UserFacts DEF tick, Interruptible
<1>3. slnempty /\ sltop = clockq[1]
  BY <1>2 DEF ClockView, Sched
<1> DEFINE n == AtLeast(KeyMin, qkey[clockq[1]] - 1)
<1>4. n \in Int
  <2>1. qkey[clockq[1]] - 1 \in Int /\ KeyMin \in Int
    BY <1>1 DEF KeyMin
  <2> QED BY <2>1, KeptLow
<1>5. qkey' = [qkey EXCEPT ![clockq[1]] = n]
  BY <1>1, <1>3 DEF TickedKeys
<1> HIDE DEF n
<1>6. n - qkey[clockq[1]] \in Int /\ qkey'[clockq[1]] = qkey[clockq[1]] + (n - qkey[clockq[1]])
  BY <1>1, <1>4, <1>5
<1>7. \A q \in Pid : OnList(clockq, q) /\ q # clockq[1] => qkey'[q] = qkey[q]
  BY <1>1, <1>5
<1>8. \A q \in Pid : OnList(clockq, q) => W[q] = V[q] + (n - qkey[clockq[1]])
  BY DEF n
<1> QED BY <1>1, <1>6, <1>7, <1>8, FitsShift
(* A search begins at the first waiter with the whole delay, or goes past one. *)
LEMMA SearchMoves ==
    ASSUME IInv, Next, cont'[currpid'].op \in Searching
    PROVE  /\ UNCHANGED currpid
           /\ \/ /\ insertdLoop /\ GoesOn /\ UNCHANGED <<schedVars, due>>
                 /\ cont[currpid].op \in Searching
                 /\ cont'[currpid].a = cont[currpid].a + 1
                 /\ cont'[currpid].n = cont[currpid].n - qkey[clockq[cont[currpid].a]]
              \/ /\ DeltaKept /\ cont[currpid] = InUser
                 /\ \E n \in load.delays : /\ cont'[currpid].a = 1 /\ cont'[currpid].n = n
                                           /\ due' = [due EXCEPT ![currpid] = n]
<1>1. /\ UNCHANGED currpid
      /\ insertdLoop \/ \E n \in load.delays : recvtim(n) \/ sleep10(n)
  <2>1. cont'[currpid'].op \in Looking /\ cont'[currpid'].op # "makeup"
    BY DEF Searching, Looking
  <2> QED BY <2>1, Entered
<1>2. cont \in [Pid -> KopType] /\ currpid \in Pid
  BY DeltaNow
<1>3. \A k : Goto(k) => cont'[currpid] = k
  BY <1>2 DEF Goto
<1>4. CASE insertdLoop
  <2>1. GoesOn
    <3>1. ASSUME ~ GoesOn PROVE cont'[currpid].op \notin Searching
      BY <1>2, <1>4, <3>1 DEF insertdLoop, GoesOn, Goto, InUser, Kop, Searching
    <3> QED BY <1>1, <3>1
  <2>2. Goto(Kop(cont[currpid].op, cont[currpid].a + 1,
                 cont[currpid].n - qkey[clockq[cont[currpid].a]]))
        /\ cont[currpid].op \in Searching
    BY <1>4, <2>1 DEF insertdLoop, GoesOn, In, Searching
  <2>3. UNCHANGED <<schedVars, due>>
    BY <1>4, <2>1, insertdLoopMoves
  <2> QED BY <1>1, <1>3, <1>4, <2>1, <2>2, <2>3 DEF Kop
<1>5. ASSUME NEW n \in load.delays, recvtim(n)
      PROVE  /\ DeltaKept /\ cont[currpid] = InUser
             /\ cont'[currpid].a = 1 /\ cont'[currpid].n = n
             /\ due' = [due EXCEPT ![currpid] = n]
  <2>1. DeltaKept /\ cont[currpid] = InUser
    BY <1>5, recvtimMoves DEF recvtim, Call, Interruptible
  <2>2. ~ (phasmsg[currpid] # 0)
    <3>1. ASSUME phasmsg[currpid] # 0 PROVE cont'[currpid] = InUser
      BY <1>5, <2>1, <3>1 DEF recvtim
    <3> QED BY <1>1, <3>1 DEF InUser, Kop, Searching
  <2> QED BY <1>3, <1>5, <2>1, <2>2 DEF recvtim, Kop
<1>6. ASSUME NEW n \in load.delays, sleep10(n)
      PROVE  /\ DeltaKept /\ cont[currpid] = InUser
             /\ cont'[currpid].a = 1 /\ cont'[currpid].n = n
             /\ due' = [due EXCEPT ![currpid] = n]
  <2>1. DeltaKept /\ cont[currpid] = InUser
    BY <1>6, sleep10Moves DEF sleep10, Call, Interruptible
  <2>2. n # 0
    <3>1. ASSUME n = 0 PROVE cont'[currpid] = InUser
      BY <1>6, <2>1, <3>1 DEF sleep10
    <3> QED BY <1>1, <3>1 DEF InUser, Kop, Searching
  <2> QED BY <1>3, <1>6, <2>1, <2>2 DEF sleep10, Kop
<1> QED BY <1>1, <1>4, <1>5, <1>6

(* The other steps *)
LEMMA DeltaMoves ==
    ASSUME IInv, Next, cont'[currpid'].op \notin Searching
    PROVE  \/ DeltaKept /\ (cont[currpid].op \notin ViewStale \/ (wakeupLoop /\ ~ ExpiredHead))
           \/ insertdLoop /\ ~ GoesOn /\ Linked /\ UNCHANGED due
           \/ \E p \in Pid : /\ pstate[p] \in Timed /\ Unslept(p)
                             /\ cont[currpid].op \notin ViewStale
           \/ wakeupLoop /\ ExpiredHead /\ Woken /\ UNCHANGED <<cont, currpid>>
           \/ tick
           \/ makeupLoop
<1>1. cont[currpid] = InUser => cont[currpid].op \notin ViewStale
  BY DEF InUser, Kop, ViewStale
<1> DEFINE Still == DeltaKept /\ cont[currpid].op \notin ViewStale
           Left == \E p \in Pid : /\ pstate[p] \in Timed /\ Unslept(p)
                                  /\ cont[currpid].op \notin ViewStale
<1>2. CASE KernelStep
  <2>1. CASE killFinish
    <3>1. cont[currpid].op \notin ViewStale
      BY <2>1 DEF killFinish, In, ViewStale
    <3> QED BY <2>1, <3>1, killFinishMoves
  <2>2. CASE signalnLoop
    BY <2>2, signalnLoopMoves DEF signalnLoop, In, ViewStale
  <2>3. CASE flushLoop
    BY <2>3, flushLoopMoves DEF flushLoop, In, ViewStale
  <2>4. CASE receiveFinish
    BY <2>4, TakeMoves DEF receiveFinish, In, ViewStale, schedVars
  <2>5. CASE insertdLoop
    <3>1. ASSUME GoesOn PROVE cont'[currpid'].op \in Searching
      <4>1. UNCHANGED schedVars /\ cont \in [Pid -> KopType] /\ currpid \in Pid
        BY <2>5, <3>1, insertdLoopMoves, DeltaNow
      <4> QED BY <2>5, <3>1, <4>1
              DEF insertdLoop, In, GoesOn, Goto, Kop, Searching, schedVars
    <3> QED BY <2>5, <3>1, insertdLoopMoves
  <2>6. CASE wakeupLoop
    BY <2>6, wakeupLoopMoves
  <2>7. CASE clpreem
    BY <2>7, clpreemMoves DEF clpreem, In, ViewStale
  <2>8. CASE strtclkFinish
    BY <2>8, strtclkFinishMoves DEF strtclkFinish, In, ViewStale
  <2> QED BY <1>2, <2>1, <2>2, <2>3, <2>4, <2>5, <2>6, <2>7, <2>8 DEF KernelStep
<1>3. CASE ProcessCall
  <2>1. ASSUME NEW pid \in Pid, kill(pid) PROVE Still \/ Left
    BY <1>1, <2>1, killMoves DEF kill, Call, Interruptible, Timed
  <2>2. CASE \E prio \in load.prios : create(prio)
    BY <1>1, <2>2, createMoves DEF create, Call, Interruptible
  <2>3. CASE \E pid \in Pid : suspend(pid) \/ resume(pid)
    BY <1>1, <2>3, suspendMoves, resumeMoves DEF suspend, resume, Call, Interruptible
  <2>4. CASE \E pid \in Pid, prio \in load.prios : chprio(pid, prio)
    BY <1>1, <2>4, chprioMoves DEF chprio, Call, Interruptible
  <2>5. CASE \E pid \in Pid, nok \in load.kin : setnok(nok, pid)
    BY <1>1, <2>5, setnokMoves DEF setnok, Call, Interruptible
  <2> QED BY <1>3, <2>1, <2>2, <2>3, <2>4, <2>5 DEF ProcessCall
<1>4. CASE SemaphoreCall
  <2>1. ASSUME UNCHANGED <<schedVars, procVars, due>>, cont[currpid] = InUser PROVE Still
    BY <1>1, <2>1, tableMoves
  <2>2. ASSUME NEW sem \in Sem, wait(sem) \/ signal(sem) PROVE Still
    BY <1>1, <2>2, waitMoves, signalMoves DEF wait, signal, Call, Interruptible
  <2> QED BY <1>4, <2>1, <2>2
          DEF SemaphoreCall, screate, sdelete, signaln, sreset, Call, Interruptible
<1>5. CASE MessageCall
  <2>1. ASSUME NEW pid \in Pid, NEW m \in load.msgs, send(pid, m) PROVE Still \/ Left
    BY <1>1, <2>1, sendMoves DEF send, Interruptible, Timed
  <2>2. ASSUME NEW pid \in Pid, NEW m \in load.msgs, sendf(pid, m) PROVE Still
    BY <1>1, <2>2, sendfMoves DEF sendf, Call, Interruptible
  <2>3. ASSUME recvclr PROVE Still
    BY <1>1, <2>3, TakeMoves DEF recvclr, Call, Interruptible
  <2>4. ASSUME receive PROVE Still
    BY <1>1, <2>4, receiveMoves DEF receive, Call, Interruptible
  <2>5. ASSUME NEW n \in load.delays, recvtim(n) PROVE Still
    BY <1>1, <2>5, recvtimMoves DEF recvtim, Call, Interruptible
  <2> QED BY <1>5, <2>1, <2>2, <2>3, <2>4, <2>5 DEF MessageCall
<1>6. CASE ClockCall
  <2>1. ASSUME NEW n \in load.delays, sleep10(n) PROVE Still
    BY <1>1, <2>1, sleep10Moves DEF sleep10, Call, Interruptible
  <2>2. ASSUME stopclk PROVE Still
    BY <1>1, <2>2, tableMoves DEF stopclk, Call, Interruptible
  <2>3. ASSUME strtclk PROVE Still
    BY <1>1, <2>3, strtclkMoves DEF strtclk, Call, Interruptible
  <2> QED BY <1>6, <2>1, <2>2, <2>3 DEF ClockCall
<1> QED BY <1>2, <1>3, <1>4, <1>5, <1>6 DEF Next

(* What is left of a wait never goes below 0. *)
DueInv == \A p \in Pid : due[p] >= 0

LEMMA DueStep ==
    ASSUME IInv, DueInv, Next
    PROVE  DueInv'
<1>1. /\ due \in [Pid -> Int] /\ currpid \in Pid /\ \A n \in load.delays : n \in Nat
      /\ cont \in [Pid -> KopType]
  BY DeltaNow DEF Workload
<1>2. SUFFICES ASSUME due' # due PROVE DueInv'
  BY DEF DueInv
<1>3. ASSUME NEW p, NEW n \in Nat, due' = [due EXCEPT ![p] = n] PROVE DueInv'
  BY <1>1, <1>3 DEF DueInv
<1>4. CASE KernelStep
  <2>1. CASE killFinish
    BY <1>3, <2>1 DEF killFinish
  <2>2. CASE wakeupLoop
    BY <1>2, <1>3, <2>2 DEF wakeupLoop, WakeOne
  <2> QED BY <1>2, <1>4, <2>1, <2>2
          DEF KernelStep, signalnLoop, flushLoop, receiveFinish, insertdLoop, clpreem,
              makeupLoop, strtclkFinish
<1>5. CASE ProcessCall
  <2>1. ASSUME NEW pid \in Pid, kill(pid) PROVE DueInv'
    BY <1>2, <1>3, <2>1 DEF kill, SendEffect
  <2> QED BY <1>2, <1>5, <2>1
          DEF ProcessCall, create, suspend, resume, chprio, setnok
<1>6. CASE SemaphoreCall
  BY <1>2, <1>6 DEF SemaphoreCall, screate, wait, signal, sdelete, signaln, sreset
<1>7. CASE MessageCall
  <2>1. ASSUME NEW pid \in Pid, NEW m \in load.msgs, send(pid, m) PROVE DueInv'
    BY <1>2, <1>3, <2>1 DEF send, SendEffect
  <2>2. ASSUME NEW n \in load.delays, recvtim(n) PROVE DueInv'
    BY <1>1, <1>2, <1>3, <2>2 DEF recvtim
  <2> QED BY <1>2, <1>7, <2>1, <2>2 DEF MessageCall, sendf, receive, recvclr
<1>8. CASE ClockCall
  <2>1. ASSUME NEW n \in load.delays, sleep10(n) PROVE DueInv'
    BY <1>1, <1>2, <1>3, <2>1 DEF sleep10
  <2>2. ASSUME tick PROVE DueInv'
    BY <1>1, <2>2 DEF tick, TickedDue, AtLeast, DueInv
  <2> QED BY <1>2, <1>8, <2>1, <2>2 DEF ClockCall, stopclk, strtclk
<1> QED BY <1>4, <1>5, <1>6, <1>7, <1>8 DEF Next

(* Without stopclk(), or on the mio board, no tick is ever put off. *)
QuietClock ==
    /\ "stopclk" \notin load.calls => defclk = 0 /\ cont[currpid].op # "makeup"
    /\ "stopclk" \notin load.calls \/ load.board = "mio" => clkdiff = 0

LEMMA QuietStep ==
    ASSUME IInv, QuietClock, Next
    PROVE  QuietClock'
<1>1. UNCHANGED load /\ cont \in [Pid -> KopType] /\ currpid \in Pid /\ defclk \in Nat
  BY DeltaNow DEF Next, IInv, TableTypes
<1>2. "stopclk" \notin load.calls => defclk' = 0
  <2> SUFFICES ASSUME "stopclk" \notin load.calls PROVE defclk' = 0
    OBVIOUS
  <2>1. defclk = 0 /\ ~ stopclk /\ ~ strtclk
    BY DEF QuietClock, stopclk, strtclk, Call, Interruptible
  <2>2. UNCHANGED defclk
    BY <2>1 DEF Next, KernelStep, ProcessCall, SemaphoreCall, MessageCall, ClockCall,
          killFinish, signalnLoop, flushLoop, receiveFinish, insertdLoop, wakeupLoop, clpreem,
          makeupLoop, strtclkFinish, create, kill, suspend, resume, chprio, setnok,
          screate, wait, signal, sdelete, signaln, sreset, send, sendf, receive, recvclr,
          recvtim, sleep10, tick, deferVars
  <2> QED BY <2>1, <2>2
<1>3. "stopclk" \notin load.calls \/ load.board = "mio" => clkdiff' = 0
  <2> SUFFICES ASSUME "stopclk" \notin load.calls \/ load.board = "mio" PROVE clkdiff' = 0
    OBVIOUS
  <2>1. clkdiff = 0 /\ ~ Deferred
    BY DEF QuietClock, Deferred
  <2>2. clkdiff' = clkdiff \/ clkdiff' = 0
    BY <2>1 DEF Next, KernelStep, ProcessCall, SemaphoreCall, MessageCall, ClockCall,
          killFinish, signalnLoop, flushLoop, receiveFinish, insertdLoop, wakeupLoop, clpreem,
          makeupLoop, strtclkFinish, create, kill, suspend, resume, chprio, setnok,
          screate, wait, signal, sdelete, signaln, sreset, send, sendf, receive, recvclr,
          recvtim, sleep10, tick, stopclk, strtclk, deferVars
  <2> QED BY <2>1, <2>2
<1>4. ASSUME cont'[currpid'].op = "makeup"
      PROVE  "stopclk" \in load.calls
  <2>1. UNCHANGED currpid /\ (strtclk \/ makeupLoop)
    <3>1. cont'[currpid'].op \in Looking /\ cont'[currpid'].op \notin Searching
      BY <1>4 DEF Looking, Searching
    <3> QED BY <3>1, Entered
  <2>2. CASE strtclk
    BY <1>1, <2>2 DEF QuietClock, strtclk
  <2>3. CASE makeupLoop
    BY <2>3 DEF QuietClock, makeupLoop, In
  <2> QED BY <2>1, <2>2, <2>3
<1> QED BY <1>1, <1>2, <1>3, <1>4 DEF QuietClock
-----------------------------------------------------------------------------
(* No wait ends early: the sums D of the keys never fall below what is due,   *)
(* and what the search of insertd() has passed and kept adds up to the delay. *)

Covers(D) ==
    /\ Fits(clockq, qkey, D)
    /\ \A p \in Pid : OnList(clockq, p) => due[p] <= 0 \/ due[p] <= D[p]
    /\ cont[currpid].op \in Searching =>
          due[currpid] <= Before(clockq, D, cont[currpid].a) + cont[currpid].n

DelayInv == "stopclk" \notin load.calls => \E D \in [Pid -> Int] : Covers(D)

LEMMA DelayInit == Init => DueInv /\ QuietClock /\ DelayInv
<1> SUFFICES ASSUME Init PROVE DueInv /\ QuietClock /\ DelayInv
  OBVIOUS
<1>1. cont[currpid].op = "user" /\ clockq = <<>> /\ due = [p \in Pid |-> 0]
  <2>1. currpid \in Pid
    BY InitGood, DeltaNow
  <2> QED BY <2>1 DEF Init, InUser, Kop
<1>2. [p \in Pid |-> 0] \in [Pid -> Int] /\ Covers([p \in Pid |-> 0])
  BY <1>1 DEF Covers, Fits, OnList, Searching
<1> QED BY <1>1, <1>2 DEF DueInv, QuietClock, DelayInv, Init

LEMMA DelayStep ==
    ASSUME IInv, DueInv, QuietClock, DelayInv, Next
    PROVE  DelayInv'
<1>1. UNCHANGED load
  BY DEF Next
<1> SUFFICES ASSUME "stopclk" \notin load.calls
             PROVE  \E D \in [Pid -> Int] : Covers(D)'
  BY <1>1 DEF DelayInv
<1>2. PICK D \in [Pid -> Int] : Covers(D)
  BY DEF DelayInv
<1>3. /\ clockq \in Seq(Pid) /\ NoDup(clockq) /\ qkey \in [Pid -> Int] /\ due \in [Pid -> Int]
      /\ currpid \in Pid /\ ~ OnList(clockq, currpid) /\ cont \in [Pid -> KopType]
  BY DeltaNow
<1>4. Fits(clockq, qkey, D)
  BY <1>2 DEF Covers
<1>5. ASSUME DeltaKept PROVE Fits(clockq', qkey', D)
  BY <1>3, <1>4, <1>5, FitsSame DEF DeltaKept
<1>6. CASE cont'[currpid'].op \in Searching
  <2>1. currpid' = currpid
    BY <1>6, SearchMoves
  <2>2. CASE DeltaKept /\ \E n \in load.delays :
                 /\ cont'[currpid].a = 1 /\ cont'[currpid].n = n
                 /\ due' = [due EXCEPT ![currpid] = n]
    <3>1. Fits(clockq', qkey', D)
      BY <1>5, <2>2
    <3>2. \A p \in Pid : OnList(clockq', p) => due'[p] <= 0 \/ due'[p] <= D[p]
      BY <1>2, <2>2 DEF Covers, DeltaKept
    <3>3. due'[currpid] <= Before(clockq', D, cont'[currpid].a) + cont'[currpid].n
      <4>1. PICK n \in load.delays : cont'[currpid].n = n /\ due'[currpid] = n
        BY <1>3, <2>2
      <4>2. n \in Nat /\ Before(clockq', D, cont'[currpid].a) = 0
        BY <2>2, DeltaNow DEF Before, Workload
      <4> QED BY <4>1, <4>2
    <3> QED BY <2>1, <3>1, <3>2, <3>3 DEF Covers
  <2>3. CASE /\ insertdLoop /\ GoesOn /\ UNCHANGED <<schedVars, due>>
             /\ cont[currpid].op \in Searching
             /\ cont'[currpid].a = cont[currpid].a + 1
             /\ cont'[currpid].n = cont[currpid].n - qkey[clockq[cont[currpid].a]]
    <3> DEFINE i == cont[currpid].a
               n == cont[currpid].n
    <3>1. /\ UNCHANGED <<clockq, qkey, due>> /\ i \in 1 .. Len(clockq) /\ n \in Int
          /\ clockq[i] \in Pid
      <4>1. i \in 1 .. Len(clockq) + 1 /\ i <= Len(clockq)
        BY <2>3 DEF IInv, LoopState, Searching, GoesOn
      <4>2. i \in 1 .. Len(clockq) /\ n \in Int
        BY <1>3, <4>1 DEF KopType
      <4> HIDE DEF i, n
      <4> QED BY <1>3, <2>3, <4>2 DEF schedVars
    <3>2. due[currpid] <= Before(clockq, D, i) + n
      BY <1>2, <2>3 DEF Covers
    <3>3. cont'[currpid].a = i + 1 /\ cont'[currpid].n = n - qkey[clockq[i]]
      BY <2>3
    <3> HIDE DEF i, n
    <3>4. D[clockq[i]] = qkey[clockq[i]] + Before(clockq, D, i)
      BY <1>4, <3>1 DEF Fits
    <3>5. D[clockq[i]] \in Int /\ qkey[clockq[i]] \in Int /\ due[currpid] \in Int
      BY <1>3, <3>1
    <3>6. Before(clockq, D, i) \in Int
      <4>1. i # 1 => i - 1 \in 1 .. Len(clockq)
        BY <3>1
      <4> QED BY <1>3, <4>1 DEF Before
    <3>7. Before(clockq, D, i + 1) = D[clockq[i]]
      <4>1. i + 1 # 1 /\ (i + 1) - 1 = i
        BY <3>1
      <4> QED BY <4>1 DEF Before
    <3>8. due[currpid] <= Before(clockq, D, i + 1) + (n - qkey[clockq[i]])
      BY <3>1, <3>2, <3>4, <3>5, <3>6, <3>7
    <3>9. due'[currpid] <= Before(clockq', D, cont'[currpid].a) + cont'[currpid].n
      BY <3>1, <3>3, <3>8
    <3> QED BY <1>2, <2>1, <3>1, <3>9 DEF Covers
  <2> QED BY <1>6, <2>2, <2>3, SearchMoves
<1>7. CASE cont'[currpid'].op \notin Searching
  <2>1. ASSUME NEW W \in [Pid -> Int], Fits(clockq', qkey', W),
               \A p \in Pid : OnList(clockq', p) => due'[p] <= 0 \/ due'[p] <= W[p]
        PROVE  \E V \in [Pid -> Int] : Covers(V)'
    BY <1>7, <2>1 DEF Covers
  <2>2. CASE DeltaKept
    <3>1. Fits(clockq', qkey', D)
      BY <1>5, <2>2
    <3>2. \A p \in Pid : OnList(clockq', p) => due'[p] <= 0 \/ due'[p] <= D[p]
      BY <1>2, <2>2 DEF Covers, DeltaKept
    <3> QED BY <2>1, <3>1, <3>2
  <2>3. CASE insertdLoop /\ ~ GoesOn /\ Linked /\ UNCHANGED due
    <3> DEFINE i == cont[currpid].a
               n == cont[currpid].n
               W == [D EXCEPT ![currpid] = Before(clockq, D, i) + n]
    <3>1. cont[currpid].op \in Searching
      BY <2>3 DEF insertdLoop, In, Searching
    <3>2. /\ i \in 1 .. Len(clockq) + 1 /\ n \in Int
          /\ clockq' = InsertAt(clockq, i, currpid)
      BY <1>3, <2>3, <3>1 DEF IInv, LoopState, Searching, KopType, Linked
    <3>3. due[currpid] <= Before(clockq, D, i) + n
      BY <1>2, <3>1 DEF Covers
    <3>4. Before(clockq, D, i) \in Int
      <4> HIDE DEF i
      <4>1. i # 1 => i - 1 \in 1 .. Len(clockq)
        BY <3>2
      <4> QED BY <1>3, <4>1 DEF Before
    <3>5. /\ W \in [Pid -> Int] /\ W[currpid] = Before(clockq, D, i) + n
          /\ \A q \in Pid : q # currpid => W[q] = D[q]
      BY <1>3, <3>2, <3>4
    <3> HIDE DEF W
    <3>6. Fits(clockq', qkey', W)
      BY <1>4, <2>3, <3>1, <3>5, LinkedFits
    <3>7. \A q \in Pid : OnList(clockq', q) <=> OnList(clockq, q) \/ q = currpid
      <4> HIDE DEF i
      <4> QED BY <1>3, <3>2, LinkFacts
    <3>8. \A p \in Pid : OnList(clockq', p) => due'[p] <= 0 \/ due'[p] <= W[p]
      BY <1>2, <2>3, <3>3, <3>5, <3>7 DEF Covers
    <3> QED BY <2>1, <3>5, <3>6, <3>8
  <2>4. CASE \E p \in Pid : pstate[p] \in Timed /\ Unslept(p)
    <3>1. PICK p \in Pid : pstate[p] \in Timed /\ Unslept(p)
      BY <2>4
    <3>2. Fits(clockq', qkey', D)
      BY <1>4, <3>1, UnsleptFits
    <3>3. \A q \in Pid : OnList(clockq', q) => OnList(clockq, q) /\ due'[q] = due[q]
      BY <1>3, <3>1, DequeueFacts DEF Unslept
    <3> QED BY <1>2, <2>1, <3>2, <3>3 DEF Covers
  <2>5. CASE wakeupLoop /\ ExpiredHead /\ Woken
    <3> DEFINE k == qkey[clockq[1]]
               W == [q \in Pid |-> D[q] - k]
    <3>1. clockq # <<>> /\ clockq[1] \in Pid /\ k \in Int /\ k <= 0
      BY <1>3, <2>5 DEF ExpiredHead
    <3>2. /\ W \in [Pid -> Int] /\ \A q \in Pid : W[q] = D[q] - k /\ W[q] >= D[q]
      <4> HIDE DEF k
      <4> QED BY <3>1
    <3> HIDE DEF W
    <3>3. Fits(clockq', qkey', W)
      BY <1>4, <2>5, <3>2, WokenFits
    <3>4. \A q \in Pid : OnList(clockq', q) => OnList(clockq, q) /\ due'[q] = due[q]
      BY <1>3, <2>5, <3>1, TailFacts DEF Woken
    <3>5. \A q \in Pid : OnList(clockq', q) => due'[q] <= 0 \/ due'[q] <= W[q]
      BY <1>2, <1>3, <3>2, <3>4 DEF Covers
    <3> QED BY <2>1, <3>2, <3>3, <3>5
  <2>6. CASE tick
    <3>1. ~ Deferred /\ clockq' = clockq /\ due' = TickedDue
      BY <2>6, tickMoves DEF QuietClock, Deferred
    <3>2. CASE clockq = <<>>
      <4>1. Fits(clockq', qkey', D) /\ \A q \in Pid : ~ OnList(clockq', q)
        BY <3>1, <3>2 DEF Fits, OnList
      <4> QED BY <2>1, <4>1
    <3>3. CASE clockq # <<>>
      <4> DEFINE k == qkey[clockq[1]]
                 d == AtLeast(KeyMin, k - 1) - k
                 W == [q \in Pid |-> D[q] + d]
      <4>1. k \in Int
        BY <1>3, <3>3
      <4>2. d \in Int /\ d >= -1
        <5> HIDE DEF k
        <5> QED BY <4>1 DEF AtLeast, KeyMin
      <4>3. W \in [Pid -> Int] /\ \A q \in Pid : W[q] = D[q] + d
        <5> HIDE DEF d
        <5> QED BY <4>2
      <4> HIDE DEF W
      <4>4. Fits(clockq', qkey', W)
        BY <1>4, <2>6, <3>1, <3>3, <4>3, TickFits
      <4> HIDE DEF d
      <4>5. ASSUME NEW q \in Pid, OnList(clockq', q) PROVE due'[q] <= 0 \/ due'[q] <= W[q]
        <5>1. due'[q] = AtLeast(0, due[q] - 1) /\ due[q] \in Int /\ D[q] \in Int
          BY <1>3, <3>1 DEF TickedDue
        <5>2. due[q] <= 0 \/ due[q] <= D[q]
          BY <1>2, <3>1, <4>5 DEF Covers
        <5>3. W[q] = D[q] + d
          BY <4>3
        <5> QED BY <4>2, <5>1, <5>2, <5>3 DEF AtLeast
      <4> QED BY <2>1, <4>3, <4>4, <4>5
    <3> QED BY <3>2, <3>3
  <2>7. CASE makeupLoop
    BY <2>7 DEF QuietClock, makeupLoop, In
  <2> QED BY <1>7, <2>2, <2>3, <2>4, <2>5, <2>6, <2>7, DeltaMoves
<1> QED BY <1>6, <1>7
-----------------------------------------------------------------------------
(* On the mio board the keys are exact: each waiter's sum is what it is due. *)

LEMMA SortedSame ==
    ASSUME NEW l \in Seq(Pid), NEW V, NEW W, SortedBy(l, V),
           \A q \in Pid : OnList(l, q) => W[q] = V[q]
    PROVE  SortedBy(l, W)
  BY DEF SortedBy, OnList

LEMMA SortedTail ==
    ASSUME NEW l \in Seq(Pid), NoDup(l), l # <<>>, NEW V \in [Pid -> Int], SortedBy(l, V)
    PROVE  SortedBy(Tail(l), V)
<1>1. Len(Tail(l)) = Len(l) - 1 /\ \A j \in 1 .. Len(l) - 1 : Tail(l)[j] = l[j + 1]
  OBVIOUS
<1> SUFFICES ASSUME NEW i \in 1 .. Len(l) - 1, NEW j \in 1 .. Len(l) - 1, i < j
             PROVE  V[l[i + 1]] <= V[l[j + 1]]
  BY <1>1 DEF SortedBy
<1>2. i + 1 \in 1 .. Len(l) /\ j + 1 \in 1 .. Len(l) /\ i + 1 < j + 1
  OBVIOUS
<1> QED BY <1>2 DEF SortedBy

(* Where a new member belongs *)
LEMMA SortedLink ==
    ASSUME NEW l \in Seq(Pid), NoDup(l), NEW c \in Pid, ~ OnList(l, c),
           NEW i \in 1 .. Len(l) + 1, NEW V \in [Pid -> Int], SortedBy(l, V),
           i # 1 => V[l[i - 1]] <= V[c],
           i <= Len(l) => V[c] <= V[l[i]]
    PROVE  SortedBy(InsertAt(l, i, c), V)
<1> DEFINE m == InsertAt(l, i, c)
           n == Len(l)
<1>1. /\ Len(m) = n + 1 /\ n \in Nat
      /\ \A j \in 1 .. n + 1 :
            m[j] = IF j < i THEN l[j] ELSE IF j = i THEN c ELSE l[j - 1]
  <2>1. /\ Len(m) = Len(l) + 1
        /\ \A j \in 1 .. Len(l) + 1 :
              m[j] = IF j < i THEN l[j] ELSE IF j = i THEN c ELSE l[j - 1]
    BY InsertAtElements DEF Inserted
  <2>2. Len(l) \in Nat
    OBVIOUS
  <2> HIDE DEF m
  <2> QED BY <2>1, <2>2
<1>2. \A j \in 1 .. n : V[l[j]] \in Int
  OBVIOUS
<1>3. \A j, k \in 1 .. n : j < k => V[l[j]] <= V[l[k]]
  BY DEF SortedBy
<1>4. \A j \in 1 .. n : j < i => V[l[j]] <= V[c]
  <2> SUFFICES ASSUME NEW j \in 1 .. n, j < i PROVE V[l[j]] <= V[c]
    OBVIOUS
  <2> HIDE DEF n
  <2>1. i - 1 \in 1 .. n /\ i # 1 /\ (j = i - 1 \/ j < i - 1)
    BY <1>1 DEF n
  <2>2. V[l[j]] <= V[l[i - 1]]
    <3>1. CASE j = i - 1
      BY <1>2, <2>1, <3>1
    <3>2. CASE j < i - 1
      BY <1>3, <2>1, <3>2
    <3> QED BY <2>1, <3>1, <3>2
  <2>3. V[l[j]] \in Int /\ V[l[i - 1]] \in Int /\ V[c] \in Int /\ V[l[i - 1]] <= V[c]
    BY <1>2, <2>1
  <2> QED BY <2>2, <2>3
<1>5. \A j \in 1 .. n : j >= i => V[c] <= V[l[j]]
  <2> SUFFICES ASSUME NEW j \in 1 .. n, j >= i PROVE V[c] <= V[l[j]]
    OBVIOUS
  <2>1. i \in 1 .. n /\ i <= n /\ (i = j \/ i < j)
    BY <1>1
  <2>2. V[l[i]] <= V[l[j]]
    <3>1. CASE i = j
      BY <1>2, <2>1, <3>1
    <3>2. CASE i < j
      BY <1>3, <2>1, <3>2
    <3> QED BY <2>1, <3>1, <3>2
  <2>3. V[l[j]] \in Int /\ V[l[i]] \in Int /\ V[c] \in Int /\ V[c] <= V[l[i]]
    BY <1>2, <2>1
  <2> QED BY <2>2, <2>3
<1> HIDE DEF m, n
<1> SUFFICES ASSUME NEW j \in 1 .. n + 1, NEW k \in 1 .. n + 1, j < k
             PROVE  V[m[j]] <= V[m[k]]
  BY <1>1 DEF SortedBy, m
<1>6. /\ m[j] = IF j < i THEN l[j] ELSE IF j = i THEN c ELSE l[j - 1]
      /\ m[k] = IF k < i THEN l[k] ELSE IF k = i THEN c ELSE l[k - 1]
  BY <1>1
<1>7. i \in 1 .. n + 1
  BY DEF n
<1>8. CASE k < i
  <2>1. j \in 1 .. n /\ k \in 1 .. n /\ j < i
    BY <1>1, <1>7, <1>8
  <2> QED BY <1>3, <1>6, <1>8, <2>1
<1>9. CASE k = i
  <2>1. j \in 1 .. n /\ j < i /\ ~ (k < i)
    BY <1>1, <1>7, <1>9
  <2> QED BY <1>4, <1>6, <1>9, <2>1
<1>10. CASE k > i
  <2>1. k - 1 \in 1 .. n /\ k - 1 >= i /\ ~ (k < i) /\ k # i
    BY <1>1, <1>7, <1>10
  <2>2. CASE j < i
    <3>1. j \in 1 .. n /\ j < k - 1
      BY <1>1, <1>7, <2>1, <2>2
    <3> QED BY <1>3, <1>6, <2>1, <2>2, <3>1
  <2>3. CASE j = i
    BY <1>5, <1>6, <1>7, <2>1, <2>3
  <2>4. CASE j > i
    <3>1. j - 1 \in 1 .. n /\ j - 1 < k - 1 /\ ~ (j < i) /\ j # i
      BY <1>1, <1>7, <2>1, <2>4
    <3> QED BY <1>3, <1>6, <2>1, <3>1
  <2> QED BY <1>7, <2>2, <2>3, <2>4
<1> QED BY <1>7, <1>8, <1>9, <1>10

ExactCase == load.board = "mio" /\ 0 \notin load.delays

ExactList ==
    /\ Fits(clockq, qkey, due) /\ SortedBy(clockq, due)
    /\ \A p \in Pid : OnList(clockq, p) =>
          due[p] >= 0 /\ (cont[currpid].op \notin ViewStale => due[p] >= 1)

ExactInv ==
    ExactCase =>
        /\ ExactList
        /\ cont[currpid].op \in Searching =>
              /\ cont[currpid].n >= 1
              /\ due[currpid] = Before(clockq, due, cont[currpid].a) + cont[currpid].n
        /\ cont[currpid].op = "makeup" => cont[currpid].n = 0

LEMMA ExactInit == Init => ExactInv
<1> SUFFICES ASSUME Init PROVE ExactInv
  OBVIOUS
<1>1. cont[currpid].op = "user" /\ clockq = <<>>
  <2>1. currpid \in Pid
    BY InitGood, DeltaNow
  <2> QED BY <2>1 DEF Init, InUser, Kop
<1> QED BY <1>1 DEF ExactInv, ExactList, Fits, SortedBy, OnList, Searching

(* The first waiter's key is what it is due, and no key is negative. *)
LEMMA ExactKeys ==
    ASSUME IInv, ExactList
    PROVE  /\ clockq # <<>> => clockq[1] \in Pid /\ OnList(clockq, clockq[1])
                               /\ qkey[clockq[1]] = due[clockq[1]]
           /\ \A p \in Pid : OnList(clockq, p) => clockq # <<>> /\ due[clockq[1]] <= due[p]
           /\ \A i \in 1 .. Len(clockq) : qkey[clockq[i]] >= 0
<1>1. clockq \in Seq(Pid) /\ qkey \in [Pid -> Int] /\ due \in [Pid -> Int]
  BY DeltaNow
<1>2. \A i \in 1 .. Len(clockq) : /\ clockq[i] \in Pid /\ OnList(clockq, clockq[i])
                                  /\ due[clockq[i]] = qkey[clockq[i]] + Before(clockq, due, i)
                                  /\ due[clockq[i]] >= 0
  BY <1>1 DEF ExactList, Fits, OnList
<1>3. clockq # <<>> => 1 \in 1 .. Len(clockq)
  BY <1>1
<1>4. clockq # <<>> => clockq[1] \in Pid /\ OnList(clockq, clockq[1])
                       /\ qkey[clockq[1]] = due[clockq[1]]
  BY <1>1, <1>2, <1>3 DEF Before
<1>5. ASSUME NEW p \in Pid, OnList(clockq, p) PROVE clockq # <<>> /\ due[clockq[1]] <= due[p]
  <2>1. PICK i \in 1 .. Len(clockq) : clockq[i] = p
    BY <1>5 DEF OnList
  <2>2. clockq # <<>> /\ 1 \in 1 .. Len(clockq) /\ (i = 1 \/ 1 < i)
    BY <1>1
  <2>3. CASE i = 1
    BY <1>1, <2>1, <2>2, <2>3
  <2>4. CASE 1 < i
    BY <2>1, <2>2, <2>4 DEF ExactList, SortedBy
  <2> QED BY <2>2, <2>3, <2>4
<1>6. ASSUME NEW i \in 1 .. Len(clockq) PROVE qkey[clockq[i]] >= 0
  <2>1. CASE i = 1
    BY <1>1, <1>2, <2>1 DEF Before
  <2>2. CASE i # 1
    <3>1. i - 1 \in 1 .. Len(clockq) /\ i - 1 < i
      BY <2>2
    <3>2. due[clockq[i - 1]] <= due[clockq[i]]
      BY <3>1 DEF ExactList, SortedBy
    <3>3. due[clockq[i]] = qkey[clockq[i]] + due[clockq[i - 1]]
      BY <1>2, <2>2 DEF Before
    <3>4. due[clockq[i]] \in Int /\ due[clockq[i - 1]] \in Int /\ qkey[clockq[i]] \in Int
      BY <1>1, <1>2, <3>1
    <3> QED BY <3>2, <3>3, <3>4
  <2> QED BY <2>1, <2>2
<1> QED BY <1>4, <1>5, <1>6
LEMMA ExactStep ==
    ASSUME IInv, QuietClock, ExactInv, Next
    PROVE  ExactInv'
<1>1. UNCHANGED load
  BY DEF Next
<1> SUFFICES ASSUME ExactCase
             PROVE  /\ ExactList'
                    /\ cont'[currpid'].op \in Searching =>
                          /\ cont'[currpid'].n >= 1
                          /\ due'[currpid'] = Before(clockq', due', cont'[currpid'].a)
                                              + cont'[currpid'].n
                    /\ cont'[currpid'].op = "makeup" => cont'[currpid'].n = 0
  BY <1>1 DEF ExactInv, ExactCase
<1>2. /\ ExactList /\ Fits(clockq, qkey, due) /\ SortedBy(clockq, due)
      /\ \A p \in Pid : OnList(clockq, p) =>
            due[p] >= 0 /\ (cont[currpid].op \notin ViewStale => due[p] >= 1)
  BY DEF ExactInv, ExactList
<1>3. /\ clockq \in Seq(Pid) /\ NoDup(clockq) /\ qkey \in [Pid -> Int] /\ due \in [Pid -> Int]
      /\ currpid \in Pid /\ ~ OnList(clockq, currpid) /\ cont \in [Pid -> KopType]
  BY DeltaNow
<1>4. /\ clockq # <<>> => clockq[1] \in Pid /\ OnList(clockq, clockq[1])
                          /\ qkey[clockq[1]] = due[clockq[1]]
      /\ \A p \in Pid : OnList(clockq, p) => clockq # <<>> /\ due[clockq[1]] <= due[p]
      /\ \A i \in 1 .. Len(clockq) : qkey[clockq[i]] >= 0
  BY <1>2, ExactKeys
<1>5. due' \in [Pid -> Int] /\ clockq' \in Seq(Pid)
  <2>1. IInv'
    BY NextKeeps
  <2> QED BY <2>1, SchedNow DEF IInv, TableTypes, Good, SchedGood, SchedType, Sched
<1>6. ASSUME DeltaKept PROVE Fits(clockq', qkey', due') /\ SortedBy(clockq', due')
  <2>1. \A q \in Pid : OnList(clockq, q) => qkey'[q] = qkey[q] /\ due'[q] = due[q]
    BY <1>6 DEF DeltaKept
  <2>2. Fits(clockq, qkey', due')
    BY <1>2, <1>3, <2>1, FitsSame
  <2>3. SortedBy(clockq, due')
    <3>1. \A q \in Pid : OnList(clockq, q) => due'[q] = due[q]
      BY <2>1
    <3> QED BY <1>2, <1>3, <3>1, SortedSame
  <2> QED BY <1>6, <2>2, <2>3 DEF DeltaKept
<1>7. CASE cont'[currpid'].op \in Searching
  <2>1. currpid' = currpid /\ cont'[currpid'].op \notin ViewStale /\ cont'[currpid'].op # "makeup"
    BY <1>7, SearchMoves DEF Searching, ViewStale
  <2>2. CASE DeltaKept /\ cont[currpid] = InUser /\ \E n \in load.delays :
                 /\ cont'[currpid].a = 1 /\ cont'[currpid].n = n
                 /\ due' = [due EXCEPT ![currpid] = n]
    <3>1. \A p \in Pid : OnList(clockq', p) => due'[p] >= 1
      <4>1. cont[currpid].op \notin ViewStale
        BY <2>2 DEF InUser, Kop, ViewStale
      <4> QED BY <1>2, <1>3, <2>2, <4>1 DEF DeltaKept
    <3>2. /\ cont'[currpid].n >= 1
          /\ due'[currpid] = Before(clockq', due', cont'[currpid].a) + cont'[currpid].n
      <4>1. PICK n \in load.delays : cont'[currpid].n = n /\ due'[currpid] = n
        BY <1>3, <2>2
      <4>2. n \in Nat /\ n >= 1 /\ Before(clockq', due', cont'[currpid].a) = 0
        BY <2>2, DeltaNow DEF Before, Workload, ExactCase
      <4> QED BY <4>1, <4>2
    <3>3. \A p \in Pid : OnList(clockq', p) => due'[p] >= 0 /\ due'[p] >= 1
      BY <1>5, <3>1
    <3> QED BY <1>6, <2>1, <2>2, <3>2, <3>3 DEF ExactList
  <2>3. CASE /\ insertdLoop /\ GoesOn /\ UNCHANGED <<schedVars, due>>
             /\ cont[currpid].op \in Searching
             /\ cont'[currpid].a = cont[currpid].a + 1
             /\ cont'[currpid].n = cont[currpid].n - qkey[clockq[cont[currpid].a]]
    <3> DEFINE i == cont[currpid].a
               n == cont[currpid].n
    <3>1. /\ UNCHANGED <<clockq, qkey, due>> /\ i \in 1 .. Len(clockq) /\ n \in Int
          /\ clockq[i] \in Pid /\ qkey[clockq[i]] < n
      <4>1. i \in 1 .. Len(clockq) + 1 /\ i <= Len(clockq) /\ qkey[clockq[i]] < n
        BY <2>3 DEF IInv, LoopState, Searching, GoesOn
      <4>2. i \in 1 .. Len(clockq) /\ n \in Int
        BY <1>3, <4>1 DEF KopType
      <4>3. UNCHANGED <<clockq, qkey, due>>
        BY <2>3 DEF schedVars
      <4> HIDE DEF i, n
      <4> QED BY <1>3, <4>1, <4>2, <4>3
    <3>2. due[currpid] = Before(clockq, due, i) + n
      BY <2>3 DEF ExactInv
    <3>3. cont'[currpid].a = i + 1 /\ cont'[currpid].n = n - qkey[clockq[i]]
      BY <2>3
    <3>4. cont[currpid].op \notin ViewStale
      BY <2>3 DEF Searching, ViewStale
    <3> HIDE DEF i, n
    <3>5. due[clockq[i]] = qkey[clockq[i]] + Before(clockq, due, i)
      BY <1>2, <3>1 DEF Fits
    <3>6. due[clockq[i]] \in Int /\ qkey[clockq[i]] \in Int /\ due[currpid] \in Int
      BY <1>3, <3>1
    <3>7. Before(clockq, due, i) \in Int
      <4>1. i # 1 => i - 1 \in 1 .. Len(clockq)
        BY <3>1
      <4> QED BY <1>3, <4>1 DEF Before
    <3>8. Before(clockq, due, i + 1) = due[clockq[i]]
      <4>1. i + 1 # 1 /\ (i + 1) - 1 = i
        BY <3>1
      <4> QED BY <4>1 DEF Before
    <3>9. /\ due[currpid] = Before(clockq, due, i + 1) + (n - qkey[clockq[i]])
          /\ n - qkey[clockq[i]] >= 1
      BY <3>1, <3>2, <3>5, <3>6, <3>7, <3>8
    <3>10. /\ cont'[currpid].n >= 1
           /\ due'[currpid] = Before(clockq', due', cont'[currpid].a) + cont'[currpid].n
      BY <3>1, <3>3, <3>9
    <3>11. ExactList'
      BY <1>2, <3>1, <3>4 DEF ExactList
    <3> QED BY <2>1, <3>10, <3>11
  <2> QED BY <1>7, <2>2, <2>3, SearchMoves
<1>8. CASE cont'[currpid'].op \notin Searching
  <2>1. cont'[currpid'].op = "makeup" => cont'[currpid'].n = 0
    <3> SUFFICES ASSUME cont'[currpid'].op = "makeup" PROVE cont'[currpid'].n = 0
      OBVIOUS
    <3>1. UNCHANGED currpid /\ (strtclk \/ makeupLoop)
      <4>1. cont'[currpid'].op \in Looking
        BY DEF Looking
      <4> QED BY <1>8, <4>1, Entered
    <3>2. CASE strtclk
      <4>1. cont'[currpid] = Kop("makeup", 1, clkdiff)
        BY <1>3, <3>1, <3>2 DEF strtclk, Call, Interruptible, Goto, InUser, Kop
      <4> QED BY <3>1, <4>1 DEF QuietClock, ExactCase, Kop
    <3>3. CASE makeupLoop
      <4> DEFINE i == cont[currpid].a
      <4>1. cont[currpid].op = "makeup" /\ cont[currpid].n = 0 /\ i \in Nat /\ i >= 1
        BY <3>3 DEF makeupLoop, In, ExactInv, IInv, LoopState
      <4>2. ~ (i <= Len(clockq) /\ qkey[clockq[i]] < 0)
        <5> HIDE DEF i
        <5> SUFFICES ASSUME i <= Len(clockq) PROVE ~ (qkey[clockq[i]] < 0)
          OBVIOUS
        <5>1. i \in 1 .. Len(clockq)
          BY <1>3, <4>1
        <5> QED BY <1>3, <1>4, <5>1
      <4>3. Goto(Kop("wakeupS", 0, 0))
        BY <3>3, <4>1, <4>2 DEF makeupLoop
      <4> QED BY <1>3, <3>1, <4>3 DEF Goto, Kop
    <3> QED BY <3>1, <3>2, <3>3
  <2>2. SUFFICES /\ Fits(clockq', qkey', due') /\ SortedBy(clockq', due')
                 /\ \A p \in Pid : OnList(clockq', p) =>
                       /\ due'[p] >= 0
                       /\ cont'[currpid'].op \notin ViewStale => due'[p] >= 1
    BY <1>8, <2>1 DEF ExactList
  <2>3. CASE DeltaKept /\ (cont[currpid].op \notin ViewStale \/ (wakeupLoop /\ ~ ExpiredHead))
    <3>1. \A p \in Pid : OnList(clockq, p) => due[p] >= 1
      <4>1. CASE cont[currpid].op \notin ViewStale
        BY <1>2, <4>1
      <4>2. CASE ~ ExpiredHead
        <5> SUFFICES ASSUME NEW p \in Pid, OnList(clockq, p) PROVE due[p] >= 1
          OBVIOUS
        <5>1. clockq # <<>> /\ due[clockq[1]] <= due[p] /\ clockq[1] \in Pid
              /\ qkey[clockq[1]] = due[clockq[1]]
          BY <1>4
        <5>2. ~ (qkey[clockq[1]] <= 0)
          BY <4>2, <5>1 DEF ExpiredHead
        <5>3. due[clockq[1]] \in Int /\ due[p] \in Int
          BY <1>3, <5>1
        <5> QED BY <5>1, <5>2, <5>3
      <4> QED BY <2>3, <4>1, <4>2
    <3>2. \A p \in Pid : OnList(clockq', p) => due'[p] >= 0 /\ due'[p] >= 1
      BY <1>3, <2>3, <3>1 DEF DeltaKept
    <3> QED BY <1>6, <2>3, <3>2
  <2>4. CASE insertdLoop /\ ~ GoesOn /\ Linked /\ UNCHANGED due
    <3> DEFINE i == cont[currpid].a
               n == cont[currpid].n
    <3>1. cont[currpid].op \in Searching /\ cont[currpid].op \notin ViewStale
      BY <2>4 DEF insertdLoop, In, Searching, ViewStale
    <3>2. /\ i \in 1 .. Len(clockq) + 1 /\ n \in Int
          /\ clockq' = InsertAt(clockq, i, currpid)
      BY <1>3, <2>4, <3>1 DEF IInv, LoopState, Searching, KopType, Linked
    <3>3. due[currpid] = Before(clockq, due, i) + n /\ n >= 1
      BY <3>1 DEF ExactInv
    <3>4. Fits(clockq', qkey', due)
      BY <1>2, <1>3, <2>4, <3>1, <3>3, LinkedFits
    <3>5. i <= Len(clockq) => ~ (qkey[clockq[i]] < n)
      BY <2>4 DEF GoesOn
    <3> HIDE DEF i, n
    <3>6. /\ i # 1 => i - 1 \in 1 .. Len(clockq)
          /\ i <= Len(clockq) => i \in 1 .. Len(clockq)
      BY <1>3, <3>2
    <3>7. i # 1 => /\ clockq[i - 1] \in Pid /\ due[clockq[i - 1]] \in Int
                   /\ due[clockq[i - 1]] >= 1 /\ Before(clockq, due, i) = due[clockq[i - 1]]
      BY <1>2, <1>3, <3>1, <3>6 DEF Before, OnList
    <3>8. /\ Before(clockq, due, i) \in Int /\ due[currpid] \in Int /\ due[currpid] >= 1
          /\ i # 1 => due[clockq[i - 1]] <= due[currpid]
      <4>1. CASE i = 1
        BY <1>3, <3>2, <3>3, <4>1 DEF Before
      <4>2. CASE i # 1
        BY <1>3, <3>2, <3>3, <3>7, <4>2
      <4> QED BY <4>1, <4>2
    <3>9. i <= Len(clockq) => due[currpid] <= due[clockq[i]]
      <4> SUFFICES ASSUME i <= Len(clockq) PROVE due[currpid] <= due[clockq[i]]
        OBVIOUS
      <4>1. due[clockq[i]] = qkey[clockq[i]] + Before(clockq, due, i)
        BY <1>2, <3>6 DEF Fits
      <4>2. qkey[clockq[i]] \in Int /\ ~ (qkey[clockq[i]] < n)
        BY <1>3, <3>5, <3>6
      <4> QED BY <3>2, <3>3, <3>8, <4>1, <4>2
    <3>10. SortedBy(clockq', due)
      BY <1>2, <1>3, <3>2, <3>8, <3>9, SortedLink
    <3>11. \A q \in Pid : OnList(clockq', q) => OnList(clockq, q) \/ q = currpid
      BY <1>3, <3>2, LinkFacts
    <3>12. \A q \in Pid : OnList(clockq', q) => due[q] >= 0 /\ due[q] >= 1
      BY <1>2, <3>1, <3>8, <3>11
    <3> QED BY <2>4, <3>4, <3>10, <3>12
  <2>5. CASE \E p \in Pid : /\ pstate[p] \in Timed /\ Unslept(p)
                            /\ cont[currpid].op \notin ViewStale
    <3>1. PICK p \in Pid : pstate[p] \in Timed /\ Unslept(p)
      BY <2>5
    <3>2. \A q \in Pid : OnList(clockq', q) => OnList(clockq, q) /\ q # p /\ due'[q] = due[q]
      BY <1>3, <3>1, DequeueFacts DEF Unslept
    <3>3. SortedBy(clockq', due)
      BY <1>2, <1>3, <3>1, DequeueFacts DEF Unslept
    <3>4. SortedBy(clockq', due')
      BY <1>5, <3>2, <3>3, SortedSame
    <3>5. Fits(clockq', qkey', due)
      BY <1>2, <1>3, <3>1, UnsleptFits
    <3>6. Fits(clockq', qkey', due')
      BY <1>5, <3>2, <3>5, FitsSame
    <3> QED BY <1>2, <2>5, <3>2, <3>4, <3>6
  <2>6. CASE wakeupLoop /\ ExpiredHead /\ Woken /\ UNCHANGED <<cont, currpid>>
    <3>1. /\ clockq # <<>> /\ clockq[1] \in Pid /\ qkey[clockq[1]] = due[clockq[1]]
          /\ qkey[clockq[1]] <= 0 /\ due[clockq[1]] >= 0 /\ clockq' = Tail(clockq)
      BY <1>2, <1>4, <2>6 DEF ExpiredHead, Woken
    <3>2. qkey[clockq[1]] = 0
      BY <1>3, <3>1
    <3>3. \A q \in Pid : OnList(clockq', q) => OnList(clockq, q) /\ q # clockq[1]
      BY <1>3, <3>1, TailFacts
    <3>4. \A q \in Pid : OnList(clockq, q) /\ q # clockq[1] => due'[q] = due[q]
      BY <2>6 DEF Woken
    <3>5. \A q \in Pid : OnList(clockq, q) /\ q # clockq[1] => due'[q] = due[q] - qkey[clockq[1]]
      BY <1>3, <3>2, <3>4
    <3>6. Fits(clockq', qkey', due')
      BY <1>2, <1>3, <2>6, <3>5, WokenFits
    <3>7. SortedBy(clockq', due)
      BY <1>2, <1>3, <3>1, SortedTail
    <3>8. SortedBy(clockq', due')
      <4>1. \A q \in Pid : OnList(clockq', q) => due'[q] = due[q]
        BY <3>3, <3>4
      <4> QED BY <1>5, <3>7, <4>1, SortedSame
    <3>9. cont'[currpid'].op \in ViewStale
      BY <2>6 DEF wakeupLoop, In, ViewStale
    <3> QED BY <1>2, <3>3, <3>4, <3>6, <3>8, <3>9
  <2>7. CASE tick
    <3>1. ~ Deferred /\ clockq' = clockq /\ due' = TickedDue /\ cont[currpid] = InUser
      BY <2>7, tickMoves DEF ExactCase, Deferred, tick, Interruptible
    <3>2. cont[currpid].op \notin ViewStale
      BY <3>1 DEF InUser, Kop, ViewStale
    <3>3. \A q \in Pid : OnList(clockq, q) => due'[q] = due[q] - 1 /\ due'[q] >= 0
      BY <1>2, <1>3, <3>1, <3>2 DEF TickedDue, AtLeast
    <3>4. CASE clockq = <<>>
      <4>1. \A q \in Pid : ~ OnList(clockq', q)
        BY <3>1, <3>4 DEF OnList
      <4>2. Fits(clockq', qkey', due') /\ SortedBy(clockq', due')
        BY <3>1, <3>4 DEF Fits, SortedBy
      <4> QED BY <4>1, <4>2
    <3>5. CASE clockq # <<>>
      <4> DEFINE k == qkey[clockq[1]]
      <4>1. /\ k \in Int /\ k = due[clockq[1]] /\ k >= 1 /\ clockq[1] \in Pid
            /\ OnList(clockq, clockq[1])
        BY <1>2, <1>3, <1>4, <3>2, <3>5
      <4>2. AtLeast(KeyMin, k - 1) = k - 1
        <5> HIDE DEF k
        <5> QED BY <4>1 DEF AtLeast, KeyMin
      <4>3. \A q \in Pid : OnList(clockq, q) => due'[q] = due[q] + (AtLeast(KeyMin, k - 1) - k)
        <5> HIDE DEF k
        <5>1. AtLeast(KeyMin, k - 1) - k = -1
          BY <4>1, <4>2
        <5>2. \A q \in Pid : due[q] + (-1) = due[q] - 1
          BY <1>3
        <5> QED BY <3>3, <5>1, <5>2
      <4>4. Fits(clockq', qkey', due')
        BY <1>2, <1>3, <2>7, <3>1, <3>5, <4>3, TickFits
      <4>5. SortedBy(clockq', due')
        <5> SUFFICES ASSUME NEW i \in 1 .. Len(clockq), NEW j \in 1 .. Len(clockq), i < j
                     PROVE  due'[clockq[i]] <= due'[clockq[j]]
          BY <3>1 DEF SortedBy
        <5>1. due[clockq[i]] <= due[clockq[j]]
          BY <1>2 DEF SortedBy
        <5>2. /\ clockq[i] \in Pid /\ clockq[j] \in Pid
              /\ OnList(clockq, clockq[i]) /\ OnList(clockq, clockq[j])
          BY <1>3 DEF OnList
        <5>3. /\ due'[clockq[i]] = due[clockq[i]] - 1 /\ due'[clockq[j]] = due[clockq[j]] - 1
              /\ due[clockq[i]] \in Int /\ due[clockq[j]] \in Int
          BY <1>3, <3>3, <5>2
        <5> QED BY <5>1, <5>3
      <4>6. ASSUME cont'[currpid'].op \notin ViewStale, NEW p \in Pid, OnList(clockq', p)
            PROVE  due'[p] >= 1
        <5>1. ~ Expired
          <6>1. Goto(IF Expired THEN Kop("wakeupC", 0, 0) ELSE Kop("clpreem", 0, 0))
                /\ UNCHANGED currpid
            BY <2>7, <3>1 DEF tick
          <6> QED BY <1>3, <4>6, <6>1 DEF Goto, Kop, ViewStale
        <5>2. slnempty /\ sltop = clockq[1] /\ load.board # "sun350"
          <6>1. ClockView(Sched)
            BY <3>1, UserFacts
          <6> QED BY <3>5, <6>1 DEF ClockView, Sched, ExactCase
        <5>3. TickedKeys[sltop] = k - 1
          BY <1>3, <4>1, <4>2, <5>2 DEF TickedKeys
        <5>4. k - 1 # 0
          BY <5>1, <5>2, <5>3 DEF Expired
        <5>5. due[clockq[1]] <= due[p] /\ due'[p] = due[p] - 1
          BY <1>4, <3>1, <3>3, <4>6
        <5>6. due[p] \in Int
          BY <1>3
        <5> HIDE DEF k
        <5> QED BY <4>1, <5>4, <5>5, <5>6
      <4> QED BY <3>1, <3>3, <4>4, <4>5, <4>6
    <3> QED BY <3>4, <3>5
  <2>8. CASE makeupLoop
    <3> DEFINE i == cont[currpid].a
    <3>1. /\ cont[currpid].op = "makeup" /\ cont[currpid].n = 0 /\ i \in Nat /\ i >= 1
          /\ UNCHANGED <<clockq, due>>
      BY <2>8 DEF makeupLoop, In, ExactInv, IInv, LoopState
    <3>2. i <= Len(clockq) => /\ ~ (qkey[clockq[i]] < 0) /\ clockq[i] \in Pid
                              /\ qkey[clockq[i]] - 0 = qkey[clockq[i]]
      <4> HIDE DEF i
      <4> SUFFICES ASSUME i <= Len(clockq)
                   PROVE  /\ ~ (qkey[clockq[i]] < 0) /\ clockq[i] \in Pid
                          /\ qkey[clockq[i]] - 0 = qkey[clockq[i]]
        OBVIOUS
      <4>1. i \in 1 .. Len(clockq)
        BY <1>3, <3>1
      <4> QED BY <1>3, <1>4, <4>1
    <3>3. qkey' = IF i <= Len(clockq) THEN [qkey EXCEPT ![clockq[i]] = @ - 0] ELSE qkey
      BY <2>8, <3>1, <3>2 DEF makeupLoop
    <3>4. qkey' = qkey
      <4> HIDE DEF i
      <4> QED BY <1>3, <3>2, <3>3
    <3>5. cont[currpid].op \notin ViewStale
      BY <3>1 DEF ViewStale
    <3> QED BY <1>2, <3>1, <3>4, <3>5
  <2> QED BY <1>8, <2>3, <2>4, <2>5, <2>6, <2>7, <2>8, DeltaMoves
<1> QED BY <1>7, <1>8
-----------------------------------------------------------------------------
(* Theorems *)

(* The process state diagram: every step of the kernel takes every process   *)
(* along an edge of Edge; only the current process blocks, only the clock     *)
(* or a message ends a timed wait, and only kill() frees an entry.            *)
THEOREM StateDiagram == Spec => [][Edges]_vars
<1>1. IInv /\ [Next]_vars => [Edges]_vars
  BY NextEdges
<1> QED BY <1>1, Invariance, PTL DEF Spec

(* A process blocked in receive() has no message: send() always wakes it, and *)
(* recvtim() looks for a message and joins the delta list with no step of     *)
(* another process in between.                                                *)
THEOREM NoMessageWhileBlocked == Spec => []BlockedMeansNoMessage
<1>1. Init => IInv /\ MessageInv
  BY InitGood, MessageInit
<1>2. IInv /\ MessageInv /\ [Next]_vars => (IInv /\ MessageInv)'
  <2> SUFFICES ASSUME IInv, MessageInv, [Next]_vars PROVE IInv' /\ MessageInv'
    OBVIOUS
  <2>1. IInv'
    BY NextKeeps
  <2>2. CASE Next
    BY <2>1, <2>2, MessageStep
  <2>3. CASE UNCHANGED vars
    BY <2>1, <2>3
       DEF vars, procVars, schedVars, allocVars, deferVars, semVars,
           MessageInv, BlockedMeansNoMessage
  <2> QED BY <2>2, <2>3
<1>3. MessageInv => BlockedMeansNoMessage
  BY DEF MessageInv
<1> QED BY <1>1, <1>2, <1>3, PTL DEF Spec

(* An accepted message stays until its receiver takes it or dies: no second  *)
(* send() overwrites it, no wakeup of another process takes it.              *)
THEOREM MessagesStay == Spec => MessageKept
<1>1. IInv /\ [Next]_vars => Kept
  BY MessageKeptStep
<1> QED BY <1>1, Invariance, PTL DEF Spec, MessageKept, Kept

(* Round robin: in user code, a ready process of the same priority faces a   *)
(* preemption counter that will still reach the value its handler tests.     *)
THEOREM RoundRobinArmed == Spec => []PreemptionArmed
<1>1. Init => IInv /\ ArmInv
  BY InitGood, ArmInit
<1>2. IInv /\ ArmInv /\ [Next]_vars => (IInv /\ ArmInv)'
  <2> SUFFICES ASSUME IInv, ArmInv, [Next]_vars PROVE IInv' /\ ArmInv'
    OBVIOUS
  <2>1. IInv'
    BY NextKeeps
  <2>2. CASE Next
    BY <2>1, <2>2, ArmStep
  <2>3. CASE UNCHANGED vars
    BY <2>1, <2>3
       DEF vars, procVars, schedVars, allocVars, deferVars, semVars,
           ArmInv, Armed, Contended, Sched
  <2> QED BY <2>2, <2>3
<1>3. ArmInv => PreemptionArmed
  <2> SUFFICES ASSUME ArmInv, cont[currpid] = InUser PROVE PreemptionArmed
    BY DEF PreemptionArmed
  <2>1. Armed(Sched)
    BY DEF ArmInv, InUser, Kop, Disarming, RankStale, ViewStale
  <2> QED BY <2>1 DEF Armed, Contended, Sched, PreemptionArmed
<1> QED BY <1>1, <1>2, <1>3, PTL DEF Spec

(* Without a next of kin, kill() counts every death once and frees no stack  *)
(* twice, however a process dies: killed, or ended by itself.                *)
THEOREM DeathsCounted == Spec => []DeathAccounted
<1>1. Init => IInv /\ DeathInv
  BY InitGood, DeathInit
<1>2. IInv /\ DeathInv /\ [Next]_vars => (IInv /\ DeathInv)'
  <2> SUFFICES ASSUME IInv, DeathInv, [Next]_vars PROVE IInv' /\ DeathInv'
    OBVIOUS
  <2>1. IInv'
    BY NextKeeps
  <2>2. CASE Next
    BY <2>1, <2>2, DeathStep
  <2>3. CASE UNCHANGED vars
    BY <2>1, <2>3
       DEF vars, procVars, schedVars, allocVars, deferVars, semVars,
           DeathInv, NoKin, Live, Killers, NumprocCountsLive, StackFreedOnce
  <2> QED BY <2>2, <2>3
<1>3. DeathInv => DeathAccounted
  BY DEF DeathInv, DeathAccounted
<1> QED BY <1>1, <1>2, <1>3, PTL DEF Spec

(* A process woken by the clock has waited at least the ticks it asked for. *)
LEMMA NoneEarly ==
    ASSUME IInv, DueInv, DelayInv, [Next]_vars, "stopclk" \notin load.calls,
           NEW p \in Pid, pstate[p] \in Timed, pstate'[p] \in {"PRREADY", "PRCURR"},
           phasmsg'[p] = 0
    PROVE  due[p] = 0
<1>1. Next
  BY DEF Timed, vars, schedVars
<1>2. TimeIsUp(p)
  <2>1. Edge(p)
    BY <1>1, NextEdges DEF Edges
  <2> QED BY <2>1 DEF Edge, Timed, Eligible
<1>3. /\ clockq # <<>> /\ p = clockq[1] /\ qkey[p] <= 0
      /\ clockq \in Seq(Pid) /\ qkey \in [Pid -> Int] /\ due \in [Pid -> Int]
  BY <1>2, DeltaNow DEF TimeIsUp, ExpiredHead
<1>4. PICK D \in [Pid -> Int] : Covers(D)
  BY DEF DelayInv
<1>5. 1 \in 1 .. Len(clockq) /\ OnList(clockq, p)
  BY <1>3 DEF OnList
<1>6. D[p] = qkey[p] + 0 /\ (due[p] <= 0 \/ due[p] <= D[p])
  BY <1>3, <1>4, <1>5 DEF Covers, Fits, Before
<1>7. due[p] \in Int /\ due[p] >= 0 /\ qkey[p] \in Int
  BY <1>3 DEF DueInv
<1> QED BY <1>3, <1>6, <1>7

(* sleep10(n) and the timeout of recvtim(n) take at least n ticks, through   *)
(* every insertion before it, wakeup, message and death on the delta list.   *)
THEOREM DelaysLast == Spec => NoEarlyWakeup
<1> DEFINE Inv == IInv /\ DueInv /\ QuietClock /\ DelayInv
<1>1. Init => Inv
  BY InitGood, DelayInit
<1>2. Inv /\ [Next]_vars => Inv'
  <2> SUFFICES ASSUME Inv, [Next]_vars PROVE Inv'
    OBVIOUS
  <2>1. IInv'
    BY NextKeeps
  <2>2. CASE Next
    BY <2>1, <2>2, DueStep, QuietStep, DelayStep
  <2>3. CASE UNCHANGED vars
    BY <2>1, <2>3
       DEF vars, procVars, schedVars, allocVars, deferVars, semVars,
           DueInv, QuietClock, DelayInv, Covers
  <2> QED BY <2>2, <2>3
<1>3. Inv /\ [Next]_vars => [\A p \in Pid :
          pstate[p] \in Timed /\ pstate'[p] \in {"PRREADY", "PRCURR"} /\ phasmsg'[p] = 0
             /\ "stopclk" \notin load.calls => due[p] = 0]_vars
  BY NoneEarly
<1> HIDE DEF Inv
<1> QED BY <1>1, <1>2, <1>3, PTL DEF Spec, NoEarlyWakeup

(* On the mio board the keys of the delta list say exactly how much longer   *)
(* each waiter has to wait than the one before it.                           *)
THEOREM DeltaKeysExact == Spec => []DeltaListExact
<1> DEFINE Inv == IInv /\ QuietClock /\ ExactInv
<1>1. Init => Inv
  BY InitGood, DelayInit, ExactInit
<1>2. Inv /\ [Next]_vars => Inv'
  <2> SUFFICES ASSUME Inv, [Next]_vars PROVE Inv'
    OBVIOUS
  <2>1. IInv'
    BY NextKeeps
  <2>2. CASE Next
    BY <2>1, <2>2, QuietStep, ExactStep
  <2>3. CASE UNCHANGED vars
    BY <2>1, <2>3
       DEF vars, procVars, schedVars, allocVars, deferVars, semVars,
           QuietClock, ExactInv, ExactList, ExactCase
  <2> QED BY <2>2, <2>3
<1>3. Inv => DeltaListExact
  BY DEF ExactInv, ExactCase, ExactList, Fits, Before, DeltaListExact
<1> HIDE DEF Inv
<1> QED BY <1>1, <1>2, <1>3, PTL DEF Spec
=============================================================================
