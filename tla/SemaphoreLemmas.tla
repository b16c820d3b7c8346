--------------------------- MODULE SemaphoreLemmas ---------------------------
(* Lemmas about the semaphore table for every number of processes and        *)
(* semaphores: what each call keeps of it, and how it changes the number of  *)
(* passages that a semaphore has promised.                                   *)
EXTENDS Semaphores, TLAPS, SequenceTheorems, FiniteSetTheorems, WellFoundedInduction

SemRec == [used : BOOLEAN, cnt : Int, queue : Seq(Proc)]

(* The processes that wait at a semaphore, and those that wait at none. *)
Waiting(t, s) == {t[s].queue[i] : i \in 1 .. Len(t[s].queue)}
Unqueued(t) == {p \in Proc : \A s \in Sem : p \notin Waiting(t, s)}

(* The length that sem's count says its queue has. *)
QueueLength(cnt) == IF cnt < 0 THEN - cnt ELSE 0

(* A semaphore that is not used is free; a negative count is the length of  *)
(* the queue; and nobody is queued twice.                                   *)
TableOK(t) ==
    /\ t \in [Sem -> SemRec]
    /\ \A s \in Sem : ~ t[s].used => t[s] = FreeSem
    /\ \A s \in Sem : Len(t[s].queue) = QueueLength(t[s].cnt)
    /\ \A s, u \in Sem : \A i \in 1 .. Len(t[s].queue), j \in 1 .. Len(t[u].queue) :
          t[s].queue[i] = t[u].queue[j] => s = u /\ i = j

(* What semaphore s has promised to the processes K that come for it: the   *)
(* passages that its count allows, and those of K that were let through.    *)
Promise(t, s, K) == Positive(t[s].cnt) + Cardinality(K \cap Unqueued(t))

-----------------------------------------------------------------------------
(* Sets with one element more or less *)

(* Cardinalities of a set and the set with one element more, or less. *)
LEMMA OneMore ==
    ASSUME NEW S, IsFiniteSet(S), NEW x, x \notin S
    PROVE  IsFiniteSet(S \cup {x}) /\ Cardinality(S \cup {x}) = Cardinality(S) + 1
           /\ Cardinality(S) \in Nat
BY FS_AddElement, FS_CardinalityType

LEMMA OneLess ==
    ASSUME NEW S, IsFiniteSet(S), NEW x \in S
    PROVE  IsFiniteSet(S \ {x}) /\ Cardinality(S \ {x}) = Cardinality(S) - 1
           /\ Cardinality(S) \in Nat
BY FS_RemoveElement, FS_CardinalityType

(* Every set of processes is finite. *)
LEMMA ProcFinite ==
    ASSUME NEW K, K \subseteq Proc
    PROVE  IsFiniteSet(K) /\ Cardinality(K) \in Nat
BY FS_Subset, FS_CardinalityType, SemaphoresAssumption

-----------------------------------------------------------------------------
(* RemoveAt of the community modules, element by element. *)
LEMMA RemoveAtElements ==
    ASSUME NEW S, NEW l \in Seq(S), NEW i \in 1 .. Len(l)
    PROVE  /\ RemoveAt(l, i) \in Seq(S)
           /\ Len(RemoveAt(l, i)) = Len(l) - 1
           /\ \A j \in 1 .. Len(l) - 1 :
                 RemoveAt(l, i)[j] = IF j < i THEN l[j] ELSE l[j + 1]
<1> DEFINE a == SubSeq(l, 1, i - 1)
           b == SubSeq(l, i + 1, Len(l))
<1>1. /\ a \in Seq(S)
      /\ Len(a) = i - 1
      /\ \A j \in 1 .. i - 1 : a[j] = l[j]
  BY SubSeqProperties
<1>2. /\ b \in Seq(S)
      /\ Len(b) = Len(l) - i
      /\ \A j \in 1 .. Len(l) - i : b[j] = l[i + j]
  <2>1. i + 1 \in 1 .. Len(l) + 1 /\ Len(l) \in (i + 1) - 1 .. Len(l)
    BY LenProperties
  <2> QED BY <2>1, SubSeqProperties
<1>3. RemoveAt(l, i) = a \o b
  BY DEF RemoveAt
<1> HIDE DEF a, b
<1>4. /\ a \o b \in Seq(S)
      /\ Len(a \o b) = Len(a) + Len(b)
      /\ \A j \in 1 .. Len(a) + Len(b) :
            (a \o b)[j] = IF j <= Len(a) THEN a[j] ELSE b[j - Len(a)]
  BY <1>1, <1>2, ConcatProperties
<1>5. Len(l) \in Nat /\ Len(a) + Len(b) = Len(l) - 1
  BY <1>1, <1>2
<1>6. ASSUME NEW j \in 1 .. Len(l) - 1
      PROVE  (a \o b)[j] = IF j < i THEN l[j] ELSE l[j + 1]
  <2>1. CASE j < i
    BY <2>1, <1>1, <1>4, <1>5
  <2>2. CASE j >= i
    <3>1. j - (i - 1) \in 1 .. Len(l) - i /\ i + (j - (i - 1)) = j + 1
      BY <2>2, <1>5
    <3>2. (a \o b)[j] = b[j - Len(a)]
      <4>1. j \in 1 .. Len(a) + Len(b) /\ ~ j <= Len(a)
        BY <2>2, <1>1, <1>5
      <4> QED BY <4>1, <1>4
    <3>3. b[j - (i - 1)] = l[j + 1]
      BY <3>1, <1>2
    <3>4. b[j - Len(a)] = b[j - (i - 1)]
      BY <1>1
    <3>5. (a \o b)[j] = l[j + 1] /\ ~ j < i
      BY <2>2, <3>2, <3>3, <3>4
    <3> QED BY <3>5
  <2>3. j < i \/ j >= i
    BY <1>5
  <2> QED BY <2>1, <2>2, <2>3
<1> QED BY <1>3, <1>4, <1>5, <1>6

-----------------------------------------------------------------------------
(* The change of one slot *)

SlotFits(t, s, r) ==
    /\ r \in SemRec
    /\ r.used \/ r = FreeSem
    /\ Len(r.queue) = QueueLength(r.cnt)
    /\ \A i, j \in 1 .. Len(r.queue) : r.queue[i] = r.queue[j] => i = j
    /\ \A i \in 1 .. Len(r.queue) : r.queue[i] \in Waiting(t, s) \cup Unqueued(t)

Changed(t, t2, s, r) ==
    /\ t2 \in [Sem -> SemRec]
    /\ t2[s] = r
    /\ \A u \in Sem \ {s} : t2[u] = t[u]

(* A change of one semaphore that fits the table keeps the table. *)
LEMMA SlotChange ==
    ASSUME NEW t, TableOK(t), NEW s \in Sem, NEW r, SlotFits(t, s, r),
           NEW t2, Changed(t, t2, s, r)
    PROVE  /\ TableOK(t2)
           /\ t2[s] = r
           /\ \A u \in Sem \ {s} : t2[u] = t[u] /\ Waiting(t2, u) = Waiting(t, u)
           /\ Unqueued(t2) = (Unqueued(t) \cup Waiting(t, s)) \ Waiting(t2, s)
<1>1. /\ t2 \in [Sem -> SemRec]
      /\ t2[s] = r
      /\ \A u \in Sem \ {s} : t2[u] = t[u]
  BY DEF Changed
<1>2. \A u \in Sem \ {s} : Waiting(t2, u) = Waiting(t, u)
  BY <1>1 DEF Waiting
<1>3. Waiting(t2, s) \subseteq Waiting(t, s) \cup Unqueued(t)
  BY <1>1 DEF Waiting, SlotFits
<1>4. \A u \in Sem \ {s} : Waiting(t, s) \cap Waiting(t, u) = {}
  BY DEF TableOK, Waiting
<1>5. \A u \in Sem \ {s} : Waiting(t2, s) \cap Waiting(t2, u) = {}
  BY <1>2, <1>3, <1>4 DEF Unqueued
<1>6. \A u, v \in Sem : \A i \in 1 .. Len(t2[u].queue), j \in 1 .. Len(t2[v].queue) :
          t2[u].queue[i] = t2[v].queue[j] => u = v /\ i = j
  <2> SUFFICES ASSUME NEW u \in Sem, NEW v \in Sem,
                      NEW i \in 1 .. Len(t2[u].queue), NEW j \in 1 .. Len(t2[v].queue),
                      t2[u].queue[i] = t2[v].queue[j]
               PROVE  u = v /\ i = j
    OBVIOUS
  <2>1. t2[u].queue[i] \in Waiting(t2, u) \cap Waiting(t2, v)
    BY DEF Waiting
  <2>2. CASE u = s /\ v = s
    BY <2>2, <1>1 DEF SlotFits
  <2>3. CASE u = s /\ v # s
    BY <2>1, <2>3, <1>5
  <2>4. CASE u # s /\ v = s
    BY <2>1, <2>4, <1>5
  <2>5. CASE u # s /\ v # s
    BY <2>5, <1>1 DEF TableOK
  <2> QED BY <2>2, <2>3, <2>4, <2>5
<1>7. \A u \in Sem : /\ ~ t2[u].used => t2[u] = FreeSem
                     /\ Len(t2[u].queue) = QueueLength(t2[u].cnt)
  BY <1>1 DEF TableOK, SlotFits
<1>8. TableOK(t2)
  BY <1>1, <1>6, <1>7 DEF TableOK
<1>9. Waiting(t, s) \subseteq Proc
  BY DEF Waiting, TableOK, SemRec
<1>10. Unqueued(t2) = (Unqueued(t) \cup Waiting(t, s)) \ Waiting(t2, s)
  BY <1>2, <1>4, <1>9 DEF Unqueued
<1> QED BY <1>1, <1>2, <1>8, <1>10

-----------------------------------------------------------------------------
(* The calls *)

(* wait(): the count goes down, and a process that finds none left is queued. *)
LEMMA WaitEffect ==
    ASSUME NEW t, TableOK(t), NEW s \in Sem, t[s].used, NEW p \in Unqueued(t),
           NEW t2, t2 = wait(t, s, p)
    PROVE  /\ TableOK(t2)
           /\ t2[s].used /\ t2[s].cnt = t[s].cnt - 1
           /\ \A u \in Sem \ {s} : t2[u] = t[u] /\ Waiting(t2, u) = Waiting(t, u)
           /\ t[s].cnt > 0 => Unqueued(t2) = Unqueued(t) /\ Waiting(t2, s) = {}
           /\ t[s].cnt <= 0 => /\ Unqueued(t2) = Unqueued(t) \ {p}
                               /\ Waiting(t2, s) = Waiting(t, s) \cup {p}
<1> DEFINE q == t[s].queue
           r == [used |-> TRUE, cnt |-> t[s].cnt - 1,
                 queue |-> IF t[s].cnt <= 0 THEN Append(q, p) ELSE q]
<1>1. /\ t[s] \in SemRec
      /\ Len(q) = QueueLength(t[s].cnt)
      /\ q \in Seq(Proc)
      /\ t[s].cnt \in Int
      /\ \A i, j \in 1 .. Len(q) : q[i] = q[j] => i = j
      /\ p \in Proc
      /\ p \notin Waiting(t, s)
  BY DEF TableOK, SemRec, Unqueued
<1>2. /\ t2 \in [Sem -> SemRec]
      /\ t2[s] = r
      /\ \A u \in Sem \ {s} : t2[u] = t[u]
  <2>1. t \in [Sem -> SemRec] /\ t2 = [t EXCEPT ![s].cnt = @ - 1,
                   ![s].queue = IF t[s].cnt <= 0 THEN Append(@, p) ELSE @]
    BY DEF wait, Used, TableOK
  <2>2. /\ \A u \in Sem \ {s} : t2[u] = t[u]
        /\ t2[s] = [t[s] EXCEPT !.cnt = @ - 1, !.queue = IF t[s].cnt <= 0 THEN Append(q, p) ELSE q]
        /\ t2 = [u \in Sem |-> t2[u]]
    BY <2>1
  <2>3. t2[s] = r
    BY <2>2, <1>1 DEF SemRec
  <2>4. r \in SemRec
    BY <1>1 DEF SemRec
  <2> HIDE DEF r
  <2>5. \A u \in Sem : t2[u] \in SemRec
    BY <2>1, <2>2, <2>3, <2>4
  <2> QED BY <2>2, <2>3, <2>5
<1>3. /\ r \in SemRec
      /\ r.used
      /\ r.cnt = t[s].cnt - 1
      /\ r.queue = IF t[s].cnt <= 0 THEN Append(q, p) ELSE q
  BY <1>1 DEF SemRec
<1>4. /\ Len(Append(q, p)) = Len(q) + 1
      /\ \A i \in 1 .. Len(q) : Append(q, p)[i] = q[i]
      /\ Append(q, p)[Len(q) + 1] = p
      /\ Len(q) \in Nat
  BY <1>1, AppendProperties
<1>5. Len(r.queue) = QueueLength(r.cnt)
  BY <1>1, <1>3, <1>4 DEF QueueLength
<1>6. \A i \in 1 .. Len(q) : q[i] # p
  BY <1>1 DEF Waiting
<1>7. \A i, j \in 1 .. Len(r.queue) : r.queue[i] = r.queue[j] => i = j
  <2>1. CASE t[s].cnt > 0
    BY <2>1, <1>1, <1>3
  <2>2. CASE t[s].cnt <= 0
    <3> SUFFICES ASSUME NEW i \in 1 .. Len(q) + 1, NEW j \in 1 .. Len(q) + 1,
                        Append(q, p)[i] = Append(q, p)[j]
                 PROVE  i = j
      BY <2>2, <1>3, <1>4
    <3> QED BY <1>1, <1>4, <1>6
  <2> QED BY <2>1, <2>2, <1>1
<1>8. /\ t[s].cnt > 0 => \A i \in 1 .. Len(r.queue) : FALSE
      /\ t[s].cnt <= 0 => {r.queue[i] : i \in 1 .. Len(r.queue)} = Waiting(t, s) \cup {p}
  <2>1. CASE t[s].cnt > 0
    BY <2>1, <1>1, <1>3 DEF QueueLength
  <2>2. CASE t[s].cnt <= 0
    <3>1. r.queue = Append(q, p)
      BY <2>2, <1>3
    <3> HIDE DEF r
    <3>2. Waiting(t, s) = {q[i] : i \in 1 .. Len(q)}
      BY DEF Waiting
    <3> HIDE DEF q
    <3> QED BY <2>2, <3>1, <3>2, <1>1, <1>4
  <2> QED BY <2>1, <2>2, <1>1
<1> HIDE DEF r, q
<1>9. \A i \in 1 .. Len(r.queue) : r.queue[i] \in Waiting(t, s) \cup Unqueued(t)
  BY <1>1, <1>8
<1>10. /\ TableOK(t2)
       /\ t2[s] = r
       /\ \A u \in Sem \ {s} : t2[u] = t[u] /\ Waiting(t2, u) = Waiting(t, u)
       /\ Unqueued(t2) = (Unqueued(t) \cup Waiting(t, s)) \ Waiting(t2, s)
  <2>1. Changed(t, t2, s, r)
    BY <1>2 DEF Changed
  <2>2. SlotFits(t, s, r)
    BY <1>3, <1>5, <1>7, <1>9 DEF SlotFits
  <2> QED BY <2>1, <2>2, SlotChange
<1>11. /\ t[s].cnt > 0 => Waiting(t2, s) = {} /\ Waiting(t, s) = {}
       /\ t[s].cnt <= 0 => Waiting(t2, s) = Waiting(t, s) \cup {p}
  <2>1. Waiting(t2, s) = {r.queue[i] : i \in 1 .. Len(r.queue)}
    BY <1>10 DEF Waiting
  <2>2. t[s].cnt > 0 => \A i \in 1 .. Len(q) : FALSE
    BY <1>1 DEF QueueLength
  <2>3. Waiting(t, s) = {q[i] : i \in 1 .. Len(q)}
    BY DEF Waiting, q
  <2> QED BY <2>1, <2>2, <2>3, <1>8
<1>12. Waiting(t, s) \cap Unqueued(t) = {}
  BY DEF Unqueued
<1> QED BY <1>3, <1>10, <1>11, <1>12

(* signal() lets the first of the queue go, if there is one. *)
LEMMA SignalEffect ==
    ASSUME NEW t, TableOK(t), NEW s \in Sem, t[s].used,
           NEW t2, t2 = signal(t, s)
    PROVE  /\ TableOK(t2)
           /\ t2[s].used /\ t2[s].cnt = t[s].cnt + 1
           /\ \A u \in Sem \ {s} : t2[u] = t[u] /\ Waiting(t2, u) = Waiting(t, u)
           /\ t[s].cnt >= 0 => Unqueued(t2) = Unqueued(t) /\ Waiting(t2, s) = Waiting(t, s)
           /\ t[s].cnt < 0 => \E h \in Waiting(t, s) :
                 /\ Unqueued(t2) = Unqueued(t) \cup {h}
                 /\ Waiting(t2, s) = Waiting(t, s) \ {h}
<1> DEFINE q == t[s].queue
           r == [used |-> TRUE, cnt |-> t[s].cnt + 1,
                 queue |-> IF t[s].cnt < 0 THEN Tail(q) ELSE q]
<1>1. /\ t[s] \in SemRec
      /\ Len(q) = QueueLength(t[s].cnt)
      /\ q \in Seq(Proc)
      /\ Len(q) \in Nat
      /\ t[s].cnt \in Int
      /\ \A i, j \in 1 .. Len(q) : q[i] = q[j] => i = j
      /\ Waiting(t, s) = {q[i] : i \in 1 .. Len(q)}
  BY DEF TableOK, SemRec, Waiting
<1>3. t[s].cnt < 0 => /\ q # <<>>
                      /\ Tail(q) \in Seq(Proc)
                      /\ Len(Tail(q)) = Len(q) - 1
                      /\ \A i \in 1 .. Len(q) - 1 : Tail(q)[i] = q[i + 1]
  BY <1>1 DEF QueueLength
<1>4. /\ r \in SemRec
      /\ r.used
      /\ r.cnt = t[s].cnt + 1
      /\ r.queue = IF t[s].cnt < 0 THEN Tail(q) ELSE q
  BY <1>1, <1>3 DEF SemRec
<1>2. /\ t2 \in [Sem -> SemRec]
      /\ t2[s] = r
      /\ \A u \in Sem \ {s} : t2[u] = t[u]
  <2>1. t \in [Sem -> SemRec] /\ t2 = [t EXCEPT ![s].cnt = @ + 1,
                   ![s].queue = IF t[s].cnt < 0 THEN Tail(@) ELSE @]
    BY DEF signal, Used, TableOK
  <2>2. /\ \A u \in Sem \ {s} : t2[u] = t[u]
        /\ t2[s] = [t[s] EXCEPT !.cnt = @ + 1, !.queue = IF t[s].cnt < 0 THEN Tail(q) ELSE q]
        /\ t2 = [u \in Sem |-> t2[u]]
    BY <2>1
  <2>3. t2[s] = r
    BY <2>2, <1>1 DEF SemRec
  <2>4. r \in SemRec
    BY <1>1, <1>3 DEF SemRec
  <2> HIDE DEF r
  <2>5. \A u \in Sem : t2[u] \in SemRec
    BY <2>1, <2>2, <2>3, <2>4
  <2> QED BY <2>2, <2>3, <2>5
<1> HIDE DEF r, q
<1>5. Len(r.queue) = QueueLength(r.cnt)
  BY <1>1, <1>3, <1>4 DEF QueueLength
<1>6. \A i, j \in 1 .. Len(r.queue) : r.queue[i] = r.queue[j] => i = j
  <2>1. CASE t[s].cnt >= 0
    BY <2>1, <1>1, <1>4
  <2>2. CASE t[s].cnt < 0
    <3> SUFFICES ASSUME NEW i \in 1 .. Len(q) - 1, NEW j \in 1 .. Len(q) - 1,
                        Tail(q)[i] = Tail(q)[j]
                 PROVE  i = j
      BY <2>2, <1>3, <1>4
    <3>1. q[i + 1] = q[j + 1] /\ i + 1 \in 1 .. Len(q) /\ j + 1 \in 1 .. Len(q)
      BY <2>2, <1>1, <1>3
    <3> QED BY <3>1, <1>1
  <2> QED BY <2>1, <2>2, <1>1
<1>7. t[s].cnt < 0 => /\ q[1] \in Waiting(t, s)
                      /\ {r.queue[i] : i \in 1 .. Len(r.queue)} = Waiting(t, s) \ {q[1]}
  <2> SUFFICES ASSUME t[s].cnt < 0
               PROVE  /\ q[1] \in Waiting(t, s)
                      /\ {r.queue[i] : i \in 1 .. Len(r.queue)} = Waiting(t, s) \ {q[1]}
    OBVIOUS
  <2>1. Len(q) >= 1 /\ 1 \in 1 .. Len(q)
    BY <1>1 DEF QueueLength
  <2>2. r.queue = Tail(q) /\ Len(r.queue) = Len(q) - 1
    BY <1>3, <1>4
  <2>3. ASSUME NEW i \in 1 .. Len(q) - 1
        PROVE  r.queue[i] \in Waiting(t, s) \ {q[1]}
    <3>1. i + 1 \in 1 .. Len(q) /\ i + 1 # 1 /\ r.queue[i] = q[i + 1]
      BY <2>1, <2>2, <1>1, <1>3
    <3> QED BY <3>1, <2>1, <1>1
  <2>4. ASSUME NEW i \in 1 .. Len(q), q[i] # q[1]
        PROVE  q[i] \in {r.queue[j] : j \in 1 .. Len(r.queue)}
    <3>1. i - 1 \in 1 .. Len(q) - 1 /\ (i - 1) + 1 = i
      BY <2>4, <2>1, <1>1
    <3> QED BY <3>1, <2>2, <1>3
  <2> QED BY <2>1, <2>2, <2>3, <2>4, <1>1
<1>8. \A i \in 1 .. Len(r.queue) : r.queue[i] \in Waiting(t, s) \cup Unqueued(t)
  BY <1>1, <1>4, <1>7
<1>9. /\ TableOK(t2)
      /\ t2[s] = r
      /\ \A u \in Sem \ {s} : t2[u] = t[u] /\ Waiting(t2, u) = Waiting(t, u)
      /\ Unqueued(t2) = (Unqueued(t) \cup Waiting(t, s)) \ Waiting(t2, s)
  <2>1. Changed(t, t2, s, r)
    BY <1>2 DEF Changed
  <2>2. SlotFits(t, s, r)
    BY <1>4, <1>5, <1>6, <1>8 DEF SlotFits
  <2> QED BY <2>1, <2>2, SlotChange
<1>10. Waiting(t2, s) = {r.queue[i] : i \in 1 .. Len(r.queue)}
  BY <1>9 DEF Waiting
<1>11. Waiting(t, s) \cap Unqueued(t) = {} 
  BY DEF Unqueued
<1>12. CASE t[s].cnt >= 0
  <2>1. Waiting(t2, s) = Waiting(t, s)
    BY <1>12, <1>1, <1>4, <1>10
  <2>2. Unqueued(t2) = Unqueued(t)
    BY <2>1, <1>9, <1>11
  <2>3. ~ t[s].cnt < 0
    BY <1>12, <1>1
  <2>4. t2[s].used /\ t2[s].cnt = t[s].cnt + 1
    BY <1>4, <1>9
  <2> QED BY <2>1, <2>2, <2>3, <2>4, <1>9
<1>13. CASE t[s].cnt < 0
  <2>1. Waiting(t2, s) = Waiting(t, s) \ {q[1]} /\ q[1] \in Waiting(t, s)
    BY <1>13, <1>7, <1>10
  <2>2. Unqueued(t2) = Unqueued(t) \cup {q[1]}
    BY <2>1, <1>9, <1>11
  <2>3. ~ t[s].cnt >= 0
    BY <1>13, <1>1
  <2>4. t2[s].used /\ t2[s].cnt = t[s].cnt + 1
    BY <1>4, <1>9
  <2> QED BY <2>1, <2>2, <2>3, <2>4, <1>9
<1>14. t[s].cnt >= 0 \/ t[s].cnt < 0
  BY <1>1
<1> QED BY <1>12, <1>13, <1>14

(* sreset, sdelete and screate leave nobody at the semaphore. *)
LEMMA EmptiedEffect ==
    ASSUME NEW t, TableOK(t), NEW s \in Sem, NEW r \in SemRec,
           r.used \/ r = FreeSem, r.queue = <<>>, r.cnt >= 0,
           NEW t2, Changed(t, t2, s, r)
    PROVE  /\ TableOK(t2)
           /\ t2[s] = r /\ Waiting(t2, s) = {}
           /\ \A u \in Sem \ {s} : t2[u] = t[u] /\ Waiting(t2, u) = Waiting(t, u)
           /\ Unqueued(t2) = Unqueued(t) \cup Waiting(t, s)
<1>1. Len(r.queue) = 0 /\ QueueLength(r.cnt) = 0
  BY DEF QueueLength, SemRec
<1>2. /\ \A i, j \in 1 .. Len(r.queue) : r.queue[i] = r.queue[j] => i = j
      /\ \A i \in 1 .. Len(r.queue) : r.queue[i] \in Waiting(t, s) \cup Unqueued(t)
  BY <1>1
<1>3. /\ TableOK(t2)
      /\ t2[s] = r
      /\ \A u \in Sem \ {s} : t2[u] = t[u] /\ Waiting(t2, u) = Waiting(t, u)
      /\ Unqueued(t2) = (Unqueued(t) \cup Waiting(t, s)) \ Waiting(t2, s)
  <2>1. SlotFits(t, s, r)
    BY <1>1, <1>2 DEF SlotFits
  <2> QED BY <2>1, SlotChange
<1>4. Waiting(t2, s) = {}
  BY <1>1, <1>3 DEF Waiting
<1> QED BY <1>3, <1>4

(* A kill takes the process from the one queue it may be in. *)
LEMMA KillEffect ==
    ASSUME NEW t, TableOK(t), NEW p \in Proc, NEW t2, t2 = Killed(t, p)
    PROVE  /\ TableOK(t2)
           /\ \A u \in Sem : /\ t2[u].used = t[u].used
                             /\ Waiting(t2, u) = Waiting(t, u) \ {p}
                             /\ t2[u].cnt = IF p \in Waiting(t, u) THEN t[u].cnt + 1 ELSE t[u].cnt
           /\ Unqueued(t2) = Unqueued(t) \cup {p}
<1>1. \A s \in Sem : /\ t[s] \in SemRec
                     /\ t[s].queue \in Seq(Proc)
                     /\ Range(t[s].queue) = Waiting(t, s)
  BY DEF TableOK, SemRec, Range, Waiting
<1>2. /\ t2 = [s \in Sem |-> t2[s]]
      /\ \A u \in Sem : p \notin Waiting(t, u) => t2[u] = t[u]
  BY <1>1 DEF Killed
<1>3. CASE p \in Unqueued(t)
  <2>1. \A u \in Sem : p \notin Waiting(t, u)
    BY <1>3 DEF Unqueued
  <2>2. t2 = t
    BY <2>1, <1>2 DEF TableOK
  <2> QED BY <2>1, <2>2, <1>3
<1>4. CASE p \notin Unqueued(t)
  <2>1. PICK s \in Sem : p \in Waiting(t, s)
    BY <1>4 DEF Unqueued
  <2>2. \A u \in Sem \ {s} : p \notin Waiting(t, u)
    BY <2>1 DEF TableOK, Waiting
  <2> DEFINE q == t[s].queue
             k == CHOOSE i \in DOMAIN q : q[i] = p
             r == [used |-> t[s].used, cnt |-> t[s].cnt + 1, queue |-> RemoveAt(q, k)]
  <2>3. /\ q \in Seq(Proc)
        /\ Len(q) \in Nat
        /\ DOMAIN q = 1 .. Len(q)
        /\ t[s].cnt \in Int
        /\ t[s].used \in BOOLEAN
        /\ Len(q) = QueueLength(t[s].cnt)
        /\ \A i, j \in 1 .. Len(q) : q[i] = q[j] => i = j
        /\ Waiting(t, s) = {q[i] : i \in 1 .. Len(q)}
    BY <1>1 DEF TableOK, SemRec, Waiting
  <2>4. \E i \in DOMAIN q : q[i] = p
    BY <2>1, <2>3
  <2>5. k \in 1 .. Len(q) /\ q[k] = p
    BY <2>3, <2>4
  <2>6. t2[s] = [t[s] EXCEPT !.cnt = @ + 1, !.queue = RemoveAt(q, k)]
    BY <2>1, <1>1 DEF Killed, Without
  <2> DEFINE m == RemoveAt(q, k)
  <2> HIDE DEF q, k
  <2>7. /\ m \in Seq(Proc)
        /\ Len(m) = Len(q) - 1
        /\ \A j \in 1 .. Len(q) - 1 : m[j] = IF j < k THEN q[j] ELSE q[j + 1]
    BY <2>3, <2>5, RemoveAtElements
  <2>8. t2[s] = r
    BY <2>6, <1>1 DEF SemRec
  <2>9. t[s].used
    <3>1. Len(q) # 0
      BY <2>3, <2>5
    <3>2. Len(FreeSem.queue) = 0
      BY DEF FreeSem
    <3>3. q # FreeSem.queue
      BY <3>1, <3>2
    <3> QED BY <3>3 DEF TableOK, q
  <2>10. /\ r \in SemRec /\ r.used /\ r.used = t[s].used
         /\ r.cnt = t[s].cnt + 1 /\ r.queue = m
    BY <2>3, <2>7, <2>9 DEF SemRec
  <2> HIDE DEF m, r
  <2>11. Len(r.queue) = QueueLength(r.cnt)
    BY <2>3, <2>5, <2>7, <2>10 DEF QueueLength
  <2>12. \A i \in 1 .. Len(m) : \E j \in 1 .. Len(q) : /\ m[i] = q[j] /\ j # k
                                                     /\ j = IF i < k THEN i ELSE i + 1
    <3> SUFFICES ASSUME NEW i \in 1 .. Len(m)
                 PROVE  \E j \in 1 .. Len(q) : /\ m[i] = q[j] /\ j # k
                                               /\ j = IF i < k THEN i ELSE i + 1
      OBVIOUS
    <3>1. i \in 1 .. Len(q) - 1
      BY <2>7
    <3>2. CASE i < k
      BY <3>1, <3>2, <2>3, <2>5, <2>7
    <3>3. CASE i >= k
      <4>1. i + 1 \in 1 .. Len(q) /\ i + 1 # k /\ ~ i < k
        BY <3>1, <3>3, <2>3, <2>5
      <4> QED BY <4>1, <3>1, <2>7
    <3>4. i < k \/ i >= k
      BY <3>1, <2>3, <2>5
    <3> QED BY <3>2, <3>3, <3>4
  <2>13. \A i, j \in 1 .. Len(m) : m[i] = m[j] => i = j
    <3> SUFFICES ASSUME NEW i \in 1 .. Len(m), NEW j \in 1 .. Len(m), m[i] = m[j]
                 PROVE  i = j
      OBVIOUS
    <3>1. PICK a \in 1 .. Len(q) : m[i] = q[a] /\ a = IF i < k THEN i ELSE i + 1
      BY <2>12
    <3>2. PICK b \in 1 .. Len(q) : m[j] = q[b] /\ b = IF j < k THEN j ELSE j + 1
      BY <2>12
    <3>3. a = b
      BY <3>1, <3>2, <2>3
    <3> QED BY <3>1, <3>2, <3>3, <2>3, <2>5, <2>7
  <2>14. {m[i] : i \in 1 .. Len(m)} = Waiting(t, s) \ {p}
    <3>1. ASSUME NEW i \in 1 .. Len(m)
          PROVE  m[i] \in Waiting(t, s) \ {p}
      BY <2>3, <2>5, <2>12
    <3>2. ASSUME NEW j \in 1 .. Len(q), q[j] # p
          PROVE  q[j] \in {m[i] : i \in 1 .. Len(m)}
      <4>1. CASE j < k
        <5>1. j \in 1 .. Len(m) /\ m[j] = q[j]
          BY <4>1, <2>3, <2>5, <2>7
        <5> QED BY <5>1
      <4>2. CASE j > k
        <5>1. j - 1 \in 1 .. Len(m) /\ ~ (j - 1) < k /\ (j - 1) + 1 = j
          BY <4>2, <2>3, <2>5, <2>7
        <5>2. m[j - 1] = q[j]
          BY <5>1, <2>7
        <5> QED BY <5>1, <5>2
      <4>3. j < k \/ j > k
        BY <3>2, <2>3, <2>5
      <4> QED BY <4>1, <4>2, <4>3
    <3> QED BY <3>1, <3>2, <2>3
  <2>15. SlotFits(t, s, r)
    <3>1. \A i \in 1 .. Len(m) : m[i] \in Waiting(t, s)
      BY <2>14
    <3> QED BY <2>10, <2>11, <2>13, <3>1 DEF SlotFits
  <2>16. Changed(t, t2, s, r)
    <3>1. \A u \in Sem \ {s} : t2[u] = t[u] /\ t[u] \in SemRec
      BY <2>2, <1>1, <1>2
    <3> QED BY <3>1, <2>8, <2>10, <1>2 DEF Changed
  <2>17. /\ TableOK(t2)
         /\ t2[s] = r
         /\ \A u \in Sem \ {s} : t2[u] = t[u] /\ Waiting(t2, u) = Waiting(t, u)
         /\ Unqueued(t2) = (Unqueued(t) \cup Waiting(t, s)) \ Waiting(t2, s)
    BY <2>15, <2>16, SlotChange
  <2>18. Waiting(t2, s) = Waiting(t, s) \ {p}
    BY <2>10, <2>14, <2>17 DEF Waiting
  <2>19. \A u \in Sem \ {s} : Waiting(t, u) = Waiting(t, u) \ {p}
    BY <2>2
  <2>20. Waiting(t, s) \cap Unqueued(t) = {}
    BY DEF Unqueued
  <2>21. Unqueued(t2) = Unqueued(t) \cup {p}
    BY <2>1, <2>17, <2>18, <2>20
  <2> QED BY <2>1, <2>2, <2>10, <2>17, <2>18, <2>19, <2>21
<1> QED BY <1>3, <1>4

-----------------------------------------------------------------------------
(* Promises *)

(* What a semaphore has promised is a natural number. *)
LEMMA PromiseType ==
    ASSUME NEW t, TableOK(t), NEW s \in Sem, NEW K, K \subseteq Proc
    PROVE  /\ Promise(t, s, K) \in Nat
           /\ Positive(t[s].cnt) \in Nat
           /\ IsFiniteSet(K \cap Unqueued(t))
           /\ Cardinality(K \cap Unqueued(t)) \in Nat
<1>1. t[s].cnt \in Int
  BY DEF TableOK, SemRec
<1>2. K \cap Unqueued(t) \subseteq Proc
  OBVIOUS
<1> QED BY <1>1, <1>2, ProcFinite DEF Promise, Positive

(* A process that comes to wait is let through at the cost of one passage,   *)
(* or waits: the promise to all that have come is the same.                  *)
LEMMA PromiseEnter ==
    ASSUME NEW t, TableOK(t), NEW s \in Sem, t[s].used, NEW p \in Unqueued(t),
           NEW K, K \subseteq Proc, p \notin K
    PROVE  Promise(wait(t, s, p), s, K \cup {p}) = Promise(t, s, K)
<1> DEFINE t2 == wait(t, s, p)
<1>1. /\ t2[s].cnt = t[s].cnt - 1
      /\ t[s].cnt > 0 => Unqueued(t2) = Unqueued(t)
      /\ t[s].cnt <= 0 => Unqueued(t2) = Unqueued(t) \ {p}
  BY WaitEffect
<1>2. t[s].cnt \in Int
  BY DEF TableOK, SemRec
<1> HIDE DEF t2
<1>3. CASE t[s].cnt > 0
  <2>1. (K \cup {p}) \cap Unqueued(t2) = (K \cap Unqueued(t)) \cup {p}
    BY <1>1, <1>3
  <2>2. p \notin K \cap Unqueued(t) /\ IsFiniteSet(K \cap Unqueued(t))
    BY PromiseType
  <2>3. /\ Cardinality((K \cup {p}) \cap Unqueued(t2)) = Cardinality(K \cap Unqueued(t)) + 1
        /\ Cardinality(K \cap Unqueued(t)) \in Nat
    BY <2>1, <2>2, OneMore
  <2>4. Positive(t2[s].cnt) = Positive(t[s].cnt) - 1 /\ Positive(t[s].cnt) \in Int
    BY <1>1, <1>2, <1>3 DEF Positive
  <2> QED BY <2>3, <2>4 DEF Promise, t2
<1>4. CASE t[s].cnt <= 0
  <2>1. (K \cup {p}) \cap Unqueued(t2) = K \cap Unqueued(t)
    BY <1>1, <1>4
  <2>2. Positive(t2[s].cnt) = Positive(t[s].cnt)
    BY <1>1, <1>2, <1>4 DEF Positive
  <2> QED BY <2>1, <2>2 DEF Promise, t2
<1> QED BY <1>2, <1>3, <1>4

(* A process that passes at once takes one of the passages. *)
LEMMA PromiseTaken ==
    ASSUME NEW t, TableOK(t), NEW s \in Sem, t[s].used, t[s].cnt > 0,
           NEW p \in Unqueued(t), NEW K, K \subseteq Proc
    PROVE  /\ Promise(wait(t, s, p), s, K) = Promise(t, s, K) - 1
           /\ Promise(t, s, K) >= 1
<1> DEFINE t2 == wait(t, s, p)
<1>1. t2[s].cnt = t[s].cnt - 1 /\ Unqueued(t2) = Unqueued(t)
  BY WaitEffect
<1>2. t[s].cnt \in Int
  BY DEF TableOK, SemRec
<1> HIDE DEF t2
<1>3. Positive(t2[s].cnt) = Positive(t[s].cnt) - 1 /\ Positive(t[s].cnt) >= 1
  BY <1>1, <1>2 DEF Positive
<1>4. Positive(t[s].cnt) \in Nat /\ Cardinality(K \cap Unqueued(t)) \in Nat
  BY PromiseType
<1> QED BY <1>1, <1>3, <1>4 DEF Promise, t2

(* signal() promises one passage more. *)
LEMMA PromiseSignal ==
    ASSUME NEW t, TableOK(t), NEW s \in Sem, t[s].used,
           NEW K, K \subseteq Proc, Waiting(t, s) \subseteq K
    PROVE  Promise(signal(t, s), s, K) = Promise(t, s, K) + 1
<1> DEFINE t2 == signal(t, s)
<1>1. /\ t2[s].cnt = t[s].cnt + 1
      /\ t[s].cnt >= 0 => Unqueued(t2) = Unqueued(t)
      /\ t[s].cnt < 0 => \E h \in Waiting(t, s) : Unqueued(t2) = Unqueued(t) \cup {h}
  BY SignalEffect
<1>2. t[s].cnt \in Int
  BY DEF TableOK, SemRec
<1>3. Positive(t[s].cnt) \in Nat /\ Cardinality(K \cap Unqueued(t)) \in Nat
  BY PromiseType
<1> HIDE DEF t2
<1>4. CASE t[s].cnt >= 0
  <2>1. Positive(t2[s].cnt) = Positive(t[s].cnt) + 1
    BY <1>1, <1>2, <1>4 DEF Positive
  <2>2. K \cap Unqueued(t2) = K \cap Unqueued(t)
    BY <1>1, <1>4
  <2>3. Promise(t2, s, K) = Promise(t, s, K) + 1
    BY <2>1, <2>2, <1>3 DEF Promise
  <2> QED BY <2>3 DEF t2
<1>5. CASE t[s].cnt < 0
  <2>1. PICK h \in Waiting(t, s) : Unqueued(t2) = Unqueued(t) \cup {h}
    BY <1>1, <1>5
  <2>2. K \cap Unqueued(t2) = (K \cap Unqueued(t)) \cup {h}
    BY <2>1
  <2>3. h \notin K \cap Unqueued(t) /\ IsFiniteSet(K \cap Unqueued(t))
    BY <2>1, PromiseType DEF Unqueued
  <2>4. Cardinality(K \cap Unqueued(t2)) = Cardinality(K \cap Unqueued(t)) + 1
    BY <2>2, <2>3, OneMore
  <2>5. Positive(t2[s].cnt) = Positive(t[s].cnt)
    BY <1>1, <1>2, <1>5 DEF Positive
  <2>6. Promise(t2, s, K) = Promise(t, s, K) + 1
    BY <2>4, <2>5, <1>3 DEF Promise
  <2> QED BY <2>6 DEF t2
<1>6. t[s].cnt >= 0 \/ t[s].cnt < 0
  BY <1>2
<1> QED BY <1>4, <1>5, <1>6

(* A process that goes on uses up what it was let through for. *)
LEMMA PromiseUsed ==
    ASSUME NEW t, TableOK(t), NEW s \in Sem, NEW K, K \subseteq Proc,
           NEW p \in K \cap Unqueued(t)
    PROVE  /\ Promise(t, s, K \ {p}) = Promise(t, s, K) - 1
           /\ Promise(t, s, K) >= 1
<1>1. (K \ {p}) \cap Unqueued(t) = (K \cap Unqueued(t)) \ {p}
  OBVIOUS
<1>2. /\ IsFiniteSet(K \cap Unqueued(t))
      /\ Positive(t[s].cnt) \in Nat
      /\ Cardinality(K \cap Unqueued(t)) \in Nat
  BY PromiseType
<1>3. Cardinality((K \ {p}) \cap Unqueued(t)) = Cardinality(K \cap Unqueued(t)) - 1
  BY <1>1, <1>2, OneLess
<1>4. Cardinality(K \cap Unqueued(t)) # 0
  BY <1>2, FS_EmptySet
<1> QED BY <1>2, <1>3, <1>4 DEF Promise

(* A kill can only lose what the victim was let through for. *)
LEMMA PromiseKill ==
    ASSUME NEW t, TableOK(t), NEW s \in Sem, NEW p \in Proc,
           NEW K, K \subseteq Proc, Waiting(t, s) \subseteq K
    PROVE  Promise(Killed(t, p), s, K \ {p}) <= Promise(t, s, K)
<1> DEFINE t2 == Killed(t, p)
<1>1. /\ TableOK(t2)
      /\ t2[s].cnt = IF p \in Waiting(t, s) THEN t[s].cnt + 1 ELSE t[s].cnt
      /\ Unqueued(t2) = Unqueued(t) \cup {p}
  BY KillEffect
<1>2. t[s].cnt \in Int /\ Len(t[s].queue) = QueueLength(t[s].cnt)
  BY DEF TableOK, SemRec
<1>3. p \in Waiting(t, s) => t[s].cnt < 0
  BY <1>2 DEF Waiting, QueueLength
<1>4. /\ Positive(t[s].cnt) \in Nat
      /\ IsFiniteSet(K \cap Unqueued(t))
      /\ Cardinality(K \cap Unqueued(t)) \in Nat
  BY PromiseType
<1> HIDE DEF t2
<1>5. Positive(t2[s].cnt) = Positive(t[s].cnt)
  BY <1>1, <1>2, <1>3 DEF Positive
<1>6. (K \ {p}) \cap Unqueued(t2) = (K \cap Unqueued(t)) \ {p}
  BY <1>1
<1>7. /\ Cardinality((K \ {p}) \cap Unqueued(t2)) \in Nat
      /\ Cardinality((K \ {p}) \cap Unqueued(t2)) <= Cardinality(K \cap Unqueued(t))
  <2>1. (K \cap Unqueued(t)) \ {p} \subseteq K \cap Unqueued(t)
    OBVIOUS
  <2> QED BY <2>1, <1>4, <1>6, FS_Subset, FS_CardinalityType
<1> QED BY <1>4, <1>5, <1>7 DEF Promise, t2

(* What another semaphore's queue loses or gains does not matter. *)
LEMMA PromiseSame ==
    ASSUME NEW t, NEW t2, NEW s, NEW K, t2[s].cnt = t[s].cnt,
           K \cap Unqueued(t2) = K \cap Unqueued(t)
    PROVE  Promise(t2, s, K) = Promise(t, s, K)
BY DEF Promise

(* Nobody has come yet. *)
LEMMA PromiseFresh ==
    ASSUME NEW t, NEW s, t[s].cnt \in Nat
    PROVE  Promise(t, s, {}) = t[s].cnt
<1>1. {} \cap Unqueued(t) = {}
  OBVIOUS
<1>2. Cardinality({}) = 0
  BY FS_EmptySet
<1> QED BY <1>1, <1>2 DEF Promise, Positive

-----------------------------------------------------------------------------
(* newsem() *)

(* A nonempty set of natural numbers has a least element. *)
LEMMA LeastNumber ==
    ASSUME NEW T \in SUBSET Nat, T # {}
    PROVE  \E m \in T : \A k \in T : m <= k
<1> DEFINE R == OpToRel(<, Nat)
<1>1. IsWellFoundedOn(R, Nat)
  BY NatLessThanWellFounded
<1>2. \A x, y \in Nat : y < x => <<y, x>> \in R
  BY DEF OpToRel
<1> HIDE DEF R
<1>3. PICK m \in T : \A k \in T : ~ (<<k, m>> \in R)
  BY <1>1, WFMin
<1>4. ASSUME NEW k \in T PROVE m <= k
  <2>1. ~ (k < m)
    BY <1>2, <1>3
  <2> QED BY <2>1
<1> QED BY <1>4

(* The search for a slot stays within the table. *)
LEMMA CycleType ==
    ASSUME NEW x \in Int
    PROVE  x % NSEM \in Sem
BY SemaphoresAssumption DEF Sem

(* It finds a slot that is not used, or none. *)
LEMMA NewSemUnused ==
    ASSUME NEW t, NEW from \in Sem
    PROVE  /\ newsem(t, from) \in Sem \cup {SYSERR}
           /\ newsem(t, from) # SYSERR => ~ t[newsem(t, from)].used
           /\ SearchedTo(t, from) \in Sem
<1>1. CASE Unused(t, from) = {}
  BY <1>1 DEF newsem, SearchedTo
<1>2. CASE Unused(t, from) # {}
  <2>1. Unused(t, from) \in SUBSET Nat
    BY SemaphoresAssumption DEF Unused
  <2>2. \E k \in Unused(t, from) : \A j \in Unused(t, from) : k <= j
    BY <1>2, <2>1, LeastNumber
  <2> DEFINE k == CHOOSE k \in Unused(t, from) : \A j \in Unused(t, from) : k <= j
  <2>3. k \in Unused(t, from)
    BY <2>2
  <2> HIDE DEF k
  <2>4. k \in Int /\ ~ t[(from - k) % NSEM].used
    BY <2>1, <2>3 DEF Unused
  <2>5. newsem(t, from) = (from - k) % NSEM
    BY <1>2 DEF newsem, k
  <2>6. from - k \in Int
    BY <2>4 DEF Sem
  <2>7. newsem(t, from) \in Sem
    BY <2>5, <2>6, CycleType
  <2>8. newsem(t, from) - 1 \in Int
    BY <2>7 DEF Sem
  <2>9. (newsem(t, from) - 1) % NSEM \in Sem
    BY <2>8, CycleType
  <2>10. SearchedTo(t, from) \in Sem
    BY <2>9 DEF SearchedTo
  <2> QED BY <2>4, <2>5, <2>7, <2>10
<1> QED BY <1>1, <1>2

-----------------------------------------------------------------------------
(* Calls on a semaphore that may not exist *)

(* From t to t2 a call has let some of those who wait at s go, and nothing   *)
(* else waits or stops waiting.                                              *)
LetGo(t, t2, s) ==
    /\ TableOK(t2)
    /\ \A u \in Sem : u # s => t2[u] = t[u] /\ Waiting(t2, u) = Waiting(t, u)
    /\ s \in Sem => Waiting(t2, s) \subseteq Waiting(t, s)
    /\ Unqueued(t) \subseteq Unqueued(t2)
    /\ \A q \in Unqueued(t2) \ Unqueued(t) : s \in Sem /\ q \in Waiting(t, s)

(* signal, sreset and sdelete let go of nobody but waiters of their semaphore. *)
LEMMA SignalLetsGo ==
    ASSUME NEW t, TableOK(t), NEW s \in Sem \cup {SYSERR}
    PROVE  /\ LetGo(t, signal(t, s), s)
           /\ \A u \in Sem : signal(t, s)[u].used = t[u].used
<1>1. CASE Used(t, s)
  <2>1. s \in Sem /\ t[s].used
    BY <1>1 DEF Used
  <2> DEFINE t2 == signal(t, s)
  <2>2. /\ TableOK(t2)
        /\ t2[s].used
        /\ \A u \in Sem \ {s} : t2[u] = t[u] /\ Waiting(t2, u) = Waiting(t, u)
        /\ t[s].cnt >= 0 => Unqueued(t2) = Unqueued(t) /\ Waiting(t2, s) = Waiting(t, s)
        /\ t[s].cnt < 0 => \E h \in Waiting(t, s) :
                 /\ Unqueued(t2) = Unqueued(t) \cup {h}
                 /\ Waiting(t2, s) = Waiting(t, s) \ {h}
    BY <2>1, SignalEffect
  <2>3. t[s].cnt >= 0 \/ t[s].cnt < 0
    BY <2>1 DEF TableOK, SemRec
  <2> HIDE DEF t2
  <2>4. \A u \in Sem : t2[u].used = t[u].used
    <3>1. t2[s].used \in BOOLEAN /\ t[s].used \in BOOLEAN
      BY <2>1, <2>2 DEF TableOK, SemRec
    <3>2. t2[s].used = t[s].used
      BY <3>1, <2>1, <2>2
    <3> QED BY <3>2, <2>2
  <2>5. LetGo(t, t2, s)
    BY <2>1, <2>2, <2>3 DEF LetGo
  <2> QED BY <2>4, <2>5 DEF t2
<1>2. CASE ~ Used(t, s)
  <2>1. signal(t, s) = t
    BY <1>2 DEF signal
  <2> QED BY <2>1 DEF LetGo
<1> QED BY <1>1, <1>2

LEMMA ResetLetsGo ==
    ASSUME NEW t, TableOK(t), NEW s \in Sem \cup {SYSERR}, NEW count \in Nat
    PROVE  /\ LetGo(t, sreset(t, s, count), s)
           /\ \A u \in Sem : sreset(t, s, count)[u].used = t[u].used
           /\ Used(t, s) => /\ sreset(t, s, count)[s].cnt = count
                            /\ Waiting(sreset(t, s, count), s) = {}
<1>1. CASE Used(t, s)
  <2>1. s \in Sem /\ t[s] \in SemRec /\ t[s].used /\ t \in [Sem -> SemRec]
    BY <1>1 DEF Used, TableOK
  <2> DEFINE t2 == sreset(t, s, count)
             r == [used |-> TRUE, cnt |-> count, queue |-> <<>>]
  <2>2. t2 = [t EXCEPT ![s].cnt = count, ![s].queue = <<>>]
    BY <1>1 DEF sreset
  <2>3. /\ t2 = [u \in Sem |-> t2[u]]
        /\ \A u \in Sem \ {s} : t2[u] = t[u]
        /\ t2[s] = [t[s] EXCEPT !.cnt = count, !.queue = <<>>]
    BY <2>1, <2>2
  <2>4. t2[s] = r
    BY <2>1, <2>3 DEF SemRec
  <2>5. r \in SemRec /\ r.used /\ r.cnt = count /\ r.queue = <<>> /\ r.cnt >= 0
    BY DEF SemRec
  <2> HIDE DEF t2, r
  <2>6. Changed(t, t2, s, r)
    BY <2>1, <2>3, <2>4, <2>5 DEF Changed
  <2>7. /\ TableOK(t2)
        /\ t2[s] = r /\ Waiting(t2, s) = {}
        /\ \A u \in Sem \ {s} : t2[u] = t[u] /\ Waiting(t2, u) = Waiting(t, u)
        /\ Unqueued(t2) = Unqueued(t) \cup Waiting(t, s)
    BY <2>1, <2>5, <2>6, EmptiedEffect
  <2>8. \A u \in Sem : t2[u].used = t[u].used
    <3>1. t2[s].used \in BOOLEAN /\ t[s].used \in BOOLEAN
      BY <2>1, <2>7 DEF TableOK, SemRec
    <3>2. t2[s].used = t[s].used
      BY <3>1, <2>1, <2>5, <2>7
    <3> QED BY <3>2, <2>7
  <2>9. LetGo(t, t2, s)
    BY <2>1, <2>7 DEF LetGo
  <2> QED BY <2>5, <2>7, <2>8, <2>9 DEF t2
<1>2. CASE ~ Used(t, s)
  <2>1. sreset(t, s, count) = t
    BY <1>2 DEF sreset
  <2> QED BY <2>1, <1>2 DEF LetGo
<1> QED BY <1>1, <1>2

LEMMA DeleteLetsGo ==
    ASSUME NEW t, TableOK(t), NEW s \in Sem \cup {SYSERR}
    PROVE  /\ LetGo(t, sdelete(t, s), s)
           /\ s \in Sem => Waiting(sdelete(t, s), s) = {}
<1>1. CASE Used(t, s)
  <2>1. s \in Sem /\ t[s].used /\ t \in [Sem -> SemRec]
    BY <1>1 DEF Used, TableOK
  <2> DEFINE t2 == sdelete(t, s)
  <2>2. t2 = [t EXCEPT ![s] = FreeSem]
    BY <1>1 DEF sdelete
  <2>3. FreeSem \in SemRec /\ FreeSem.queue = <<>> /\ FreeSem.cnt >= 0
    BY DEF FreeSem, SemRec
  <2>4. /\ t2 \in [Sem -> SemRec]
        /\ \A u \in Sem \ {s} : t2[u] = t[u]
        /\ t2[s] = FreeSem
    BY <2>1, <2>2, <2>3
  <2>5. Changed(t, t2, s, FreeSem)
    BY <2>4 DEF Changed
  <2> HIDE DEF t2
  <2>6. FreeSem.used \/ FreeSem = FreeSem
    OBVIOUS
  <2>7. /\ TableOK(t2)
        /\ Waiting(t2, s) = {}
        /\ \A u \in Sem \ {s} : t2[u] = t[u] /\ Waiting(t2, u) = Waiting(t, u)
        /\ Unqueued(t2) = Unqueued(t) \cup Waiting(t, s)
    BY <2>1, <2>3, <2>5, <2>6, EmptiedEffect
  <2>8. LetGo(t, t2, s)
    BY <2>1, <2>7 DEF LetGo
  <2> QED BY <2>7, <2>8 DEF t2
<1>2. CASE ~ Used(t, s)
  <2>1. sdelete(t, s) = t
    BY <1>2 DEF sdelete
  <2>2. s \in Sem => t[s] = FreeSem
    BY <1>2 DEF Used, TableOK
  <2>3. Len(FreeSem.queue) = 0
    BY DEF FreeSem
  <2>4. s \in Sem => Waiting(t, s) = {}
    BY <2>2, <2>3 DEF Waiting
  <2> QED BY <2>1, <2>4 DEF LetGo
<1> QED BY <1>1, <1>2

(* screate takes a slot where nobody waits. *)
LEMMA CreateEffect ==
    ASSUME NEW t, TableOK(t), NEW s \in Sem \cup {SYSERR}, s # SYSERR => ~ t[s].used,
           NEW count \in Nat
    PROVE  /\ TableOK(screate(t, s, count))
           /\ Unqueued(screate(t, s, count)) = Unqueued(t)
           /\ \A u \in Sem : Waiting(screate(t, s, count), u) = Waiting(t, u)
           /\ \A u \in Sem \ {s} : screate(t, s, count)[u] = t[u]
           /\ s # SYSERR => /\ screate(t, s, count)[s].used
                            /\ screate(t, s, count)[s].cnt = count
                            /\ Waiting(t, s) = {}
<1>1. CASE s = SYSERR
  BY <1>1 DEF screate
<1>2. CASE s # SYSERR
  <2> DEFINE t2 == screate(t, s, count)
             r == [used |-> TRUE, cnt |-> count, queue |-> <<>>]
  <2>1. s \in Sem /\ t \in [Sem -> SemRec] /\ t[s] = FreeSem
    BY <1>2 DEF TableOK
  <2>2. t2 = [t EXCEPT ![s] = r]
    BY <1>2 DEF screate
  <2>3. r \in SemRec /\ r.used /\ r.cnt = count /\ r.queue = <<>> /\ r.cnt >= 0
    BY DEF SemRec
  <2>4. /\ t2 \in [Sem -> SemRec]
        /\ \A u \in Sem \ {s} : t2[u] = t[u]
        /\ t2[s] = r
    BY <2>1, <2>2, <2>3
  <2> HIDE DEF t2, r
  <2>5. Changed(t, t2, s, r)
    BY <2>4 DEF Changed
  <2>6. /\ TableOK(t2)
        /\ Waiting(t2, s) = {}
        /\ \A u \in Sem \ {s} : t2[u] = t[u] /\ Waiting(t2, u) = Waiting(t, u)
        /\ Unqueued(t2) = Unqueued(t) \cup Waiting(t, s)
    BY <2>1, <2>3, <2>5, EmptiedEffect
  <2>7. Len(FreeSem.queue) = 0
    BY DEF FreeSem
  <2>8. Waiting(t, s) = {}
    BY <2>1, <2>7 DEF Waiting
  <2> QED BY <2>1, <2>3, <2>4, <2>6, <2>8 DEF t2
<1> QED BY <1>1, <1>2
==============================================================================
