------------------------------- MODULE TtyProofs -------------------------------
(***************************************************************************)
(* The characters of the terminal driver are accounted for, for every size *)
(* of the rings and every number of processes: the input ring holds what   *)
(* was typed and not read, the input semaphore is the number of characters *)
(* in ended lines, and the output semaphore with the sends that are        *)
(* delayed is the room in the output buffer.                               *)
(*                                                                         *)
(* Module SemaphoreLemmas has what one call does to the semaphore table;    *)
(* here it is put in terms of who may come to wait at each semaphore.      *)
(***************************************************************************)
EXTENDS Tty, SemaphoreLemmas

-----------------------------------------------------------------------------
(* Positions in a ring *)

Wrapped(x, n) == IF x < 0 THEN x + n ELSE IF x < n THEN x ELSE x - n

(* One turn forward or back is enough for every position that is computed. *)
LEMMA Wraps ==
    ASSUME NEW n \in Nat \ {0}, NEW x \in (- n) .. (2 * n - 1)
    PROVE  x % n = Wrapped(x, n) /\ x % n \in 0 .. n - 1
<1>1. CASE x \in 0 .. n - 1
  BY <1>1 DEF Wrapped
<1>2. CASE x < 0
  BY <1>2 DEF Wrapped
<1>3. CASE x >= n
  BY <1>3 DEF Wrapped
<1> QED BY <1>1, <1>2, <1>3

LEMMA Divided ==
    ASSUME NEW n \in Nat \ {0}, NEW a \in Int
    PROVE  /\ a \div n \in Int /\ a % n \in 0 .. n - 1
           /\ a = n * (a \div n) + (a % n)
OBVIOUS

LEMMA OneRemainder ==
    ASSUME NEW n \in Nat \ {0}, NEW d \in Int, NEW r \in 0 .. n - 1, NEW s \in 0 .. n - 1,
           r = n * d + s
    PROVE  r = s
<1>1. CASE d >= 1
  <2>1. n * d >= n
    BY <1>1
  <2> QED BY <2>1
<1>2. CASE d <= -1
  <2>1. n * d <= - n
    BY <1>2
  <2> QED BY <2>1
<1>3. CASE d = 0
  BY <1>3
<1> QED BY <1>1, <1>2, <1>3

(* Numbers that differ by a multiple of n have the same remainder. *)
LEMMA SameRemainder ==
    ASSUME NEW n \in Nat \ {0}, NEW a \in Int, NEW b \in Int, NEW q \in Int, a - b = n * q
    PROVE  a % n = b % n
<1>1. PICK x \in Int, r \in 0 .. n - 1 : a = n * x + r /\ r = a % n
  BY Divided
<1>2. PICK y \in Int, s \in 0 .. n - 1 : b = n * y + s /\ s = b % n
  BY Divided
<1>3. n * (x - y - q) = n * x - n * y - n * q
  BY <1>1, <1>2
<1>4. s = n * (x - y - q) + r
  <2> DEFINE X == n * x
             Y == n * y
             Q == n * q
             D == n * (x - y - q)
  <2>1. X \in Int /\ Y \in Int /\ Q \in Int /\ r \in Int /\ s \in Int
    BY <1>1, <1>2
  <2>2. a = X + r /\ b = Y + s /\ a - b = Q /\ D = X - Y - Q
    BY <1>1, <1>2, <1>3
  <2> HIDE DEF X, Y, Q, D
  <2>3. s = D + r
    BY <2>1, <2>2
  <2> QED BY <2>3 DEF D
<1>5. x - y - q \in Int
  BY <1>1, <1>2
<1>6. s = r
  BY <1>4, <1>5, OneRemainder
<1> QED BY <1>1, <1>2, <1>6

(* The least element of a set of numbers is one of them. *)
LEMMA MinElement ==
    ASSUME NEW S \in SUBSET Nat, S # {}
    PROVE  Min(S) \in S /\ \A x \in S : Min(S) <= x
<1>1. PICK m \in S : \A k \in S : m <= k
  BY LeastNumber
<1> QED BY <1>1 DEF Min

-----------------------------------------------------------------------------
(* Tables whose semaphores have their own customers: W[s] are the processes *)
(* that have come to s and not gone on.                                     *)

WantsOK(W) ==
    /\ W \in [Sem -> SUBSET Proc]
    /\ \A s, u \in Sem : s # u => W[s] \cap W[u] = {}

TableInv(t, W) == TableOK(t) /\ \A s \in Sem : Waiting(t, s) \subseteq W[s]

(* What s has promised: passages, and those it has let through. *)
Account(t, s, W) == Positive(t[s].cnt) + Cardinality(W[s] \ Waiting(t, s))

LEMMA TableFacts ==
    ASSUME NEW t, NEW W, WantsOK(W), TableInv(t, W), NEW s \in Sem
    PROVE  /\ t[s].cnt \in Int /\ t[s].queue \in Seq(Proc) /\ t[s].used \in BOOLEAN
           /\ W[s] \subseteq Proc
           /\ W[s] \cap Unqueued(t) = W[s] \ Waiting(t, s)
           /\ IsFiniteSet(W[s] \ Waiting(t, s))
           /\ Cardinality(W[s] \ Waiting(t, s)) \in Nat
           /\ Account(t, s, W) \in Nat
           /\ Positive(t[s].cnt) \in Nat
           /\ Promise(t, s, W[s]) = Account(t, s, W)
<1>1. /\ t[s].cnt \in Int /\ t[s].queue \in Seq(Proc) /\ t[s].used \in BOOLEAN
      /\ W[s] \subseteq Proc
  BY DEF TableInv, TableOK, SemRec, WantsOK
<1>2. W[s] \cap Unqueued(t) = W[s] \ Waiting(t, s)
  BY DEF WantsOK, TableInv, Unqueued
<1>3. /\ IsFiniteSet(W[s] \ Waiting(t, s))
      /\ Cardinality(W[s] \ Waiting(t, s)) \in Nat
  BY <1>1, ProcFinite
<1>4. Positive(t[s].cnt) \in Nat
  BY <1>1 DEF Positive
<1>5. Account(t, s, W) \in Nat
  BY <1>3, <1>4 DEF Account
<1> QED BY <1>1, <1>2, <1>3, <1>4, <1>5 DEF Promise, Account

(* An account depends on the one semaphore only. *)
LEMMA AccountSame ==
    ASSUME NEW t, NEW t2, NEW s, NEW W, NEW W2, t2[s] = t[s], W2[s] = W[s]
    PROVE  Account(t2, s, W2) = Account(t, s, W) /\ Waiting(t2, s) = Waiting(t, s)
BY DEF Account, Waiting

(* signal() *)
LEMMA SignalKeeps ==
    ASSUME NEW W, WantsOK(W), NEW t, TableInv(t, W), NEW s \in Sem, t[s].used,
           NEW t2, t2 = signal(t, s)
    PROVE  /\ TableInv(t2, W) /\ t2[s].used
           /\ \A u \in Sem \ {s} : t2[u] = t[u]
           /\ t2[s].cnt = t[s].cnt + 1
           /\ Account(t2, s, W) = Account(t, s, W) + 1
<1>1. TableOK(t) /\ Waiting(t, s) \subseteq W[s] /\ W[s] \subseteq Proc
  BY DEF TableInv, WantsOK
<1>2. /\ TableOK(t2) /\ t2[s].used /\ t2[s].cnt = t[s].cnt + 1
      /\ \A u \in Sem \ {s} : t2[u] = t[u] /\ Waiting(t2, u) = Waiting(t, u)
      /\ Waiting(t2, s) \subseteq Waiting(t, s)
  <2>1. t[s].cnt \in Int
    BY <1>1 DEF TableOK, SemRec
  <2> QED BY <1>1, <2>1, SignalEffect
<1>3. TableInv(t2, W)
  BY <1>2 DEF TableInv
<1>4. Promise(t2, s, W[s]) = Promise(t, s, W[s]) + 1
  BY <1>1, PromiseSignal
<1>5. Account(t2, s, W) = Account(t, s, W) + 1
  BY <1>3, <1>4, TableFacts
<1> QED BY <1>2, <1>3, <1>5

-----------------------------------------------------------------------------
(* signaln(): n signals *)

Signals(f, t, s, n) == f = [k \in 0 .. n |-> IF k = 0 THEN t ELSE signal(f[k - 1], s)]

(* The loop of signaln has a value for every n. *)
LEMMA SignalsExist ==
    ASSUME NEW t, NEW s, NEW n \in Nat
    PROVE  \E f : Signals(f, t, s, n)
<1> DEFINE T == {m \in Nat : ~ \E f : Signals(f, t, s, m)}
<1> SUFFICES ASSUME T # {} PROVE FALSE
  OBVIOUS
<1>1. PICK m \in T : \A k \in T : m <= k
  BY LeastNumber
<1>2. m \in Nat
  OBVIOUS
<1>3. CASE m = 0
  <2> DEFINE f == [k \in 0 .. 0 |-> t]
  <2>1. f = [k \in 0 .. 0 |-> IF k = 0 THEN t ELSE signal(f[k - 1], s)]
    OBVIOUS
  <2> QED BY <1>3, <2>1 DEF Signals
<1>4. CASE m > 0
  <2>1. m - 1 \in Nat /\ m - 1 \notin T
    BY <1>1, <1>2, <1>4
  <2>2. PICK g : Signals(g, t, s, m - 1)
    BY <2>1
  <2> DEFINE f == [k \in 0 .. m |-> IF k = m THEN signal(g[m - 1], s) ELSE g[k]]
  <2>3. \A k \in 0 .. m - 1 : g[k] = IF k = 0 THEN t ELSE signal(g[k - 1], s)
    BY <2>2 DEF Signals
  <2>4. ASSUME NEW k \in 0 .. m
        PROVE  f[k] = IF k = 0 THEN t ELSE signal(f[k - 1], s)
    <3>1. CASE k = m
      <4>1. m - 1 \in 0 .. m /\ m - 1 # m
        BY <1>2, <1>4
      <4>2. f[m - 1] = g[m - 1] /\ f[m] = signal(g[m - 1], s)
        BY <4>1, <1>2
      <4> QED BY <3>1, <4>2, <1>4
    <3>2. CASE k = 0
      BY <3>2, <2>3, <1>4
    <3>3. CASE k # 0 /\ k # m
      <4>1. k \in 0 .. m - 1 /\ k - 1 \in 0 .. m - 1 /\ k - 1 \in 0 .. m /\ k - 1 # m
        BY <3>3, <1>2
      <4>2. f[k] = g[k] /\ f[k - 1] = g[k - 1]
        BY <3>3, <4>1
      <4> QED BY <3>3, <4>1, <4>2, <2>3
    <3> QED BY <3>1, <3>2, <3>3
  <2>5. f = [k \in 0 .. m |-> f[k]]
    OBVIOUS
  <2> HIDE DEF f
  <2>6. f = [k \in 0 .. m |-> IF k = 0 THEN t ELSE signal(f[k - 1], s)]
    BY <2>4, <2>5
  <2> QED BY <2>6 DEF Signals
<1> QED BY <1>2, <1>3, <1>4

(* What n signals do to the semaphore, and to the others. *)
SignalledBy(t, t2, s, W, k) ==
    /\ TableInv(t2, W) /\ t2[s].used
    /\ \A u \in Sem \ {s} : t2[u] = t[u]
    /\ t2[s].cnt = t[s].cnt + k
    /\ Account(t2, s, W) = Account(t, s, W) + k

LEMMA SignalsKeep ==
    ASSUME NEW W, WantsOK(W), NEW t, TableInv(t, W), NEW s \in Sem, t[s].used, NEW n \in Nat
    PROVE  SignalledBy(t, signaln(t, s, n), s, W, n)
<1>1. PICK f : Signals(f, t, s, n) /\ signaln(t, s, n) = f[n]
  <2>1. \E f : f = [k \in 0 .. n |-> IF k = 0 THEN t ELSE signal(f[k - 1], s)]
    <3>1. \E f : Signals(f, t, s, n)
      BY SignalsExist
    <3> QED BY <3>1 DEF Signals
  <2>2. \E f : /\ f = [k \in 0 .. n |-> IF k = 0 THEN t ELSE signal(f[k - 1], s)]
               /\ signaln(t, s, n) = f[n]
    BY <2>1 DEF signaln
  <2> QED BY <2>2 DEF Signals
<1>2. \A k \in 0 .. n : f[k] = IF k = 0 THEN t ELSE signal(f[k - 1], s)
  BY <1>1 DEF Signals
<1> DEFINE T == {k \in 0 .. n : ~ SignalledBy(t, f[k], s, W, k)}
<1> SUFFICES ASSUME T # {} PROVE FALSE
  BY <1>1
<1>3. PICK m \in T : \A k \in T : m <= k
  <2>1. T \in SUBSET Nat
    OBVIOUS
  <2> HIDE DEF T
  <2> QED BY <2>1, LeastNumber
<1>4. m \in 0 .. n /\ ~ SignalledBy(t, f[m], s, W, m)
  OBVIOUS
<1>5. t[s].cnt \in Int /\ Account(t, s, W) \in Nat
  BY TableFacts
<1>6. m # 0
  BY <1>2, <1>4, <1>5 DEF SignalledBy
<1>7. m - 1 \in 0 .. n /\ m - 1 \notin T
  BY <1>3, <1>4, <1>6
<1>8. SignalledBy(t, f[m - 1], s, W, m - 1)
  BY <1>7
<1>9. f[m] = signal(f[m - 1], s)
  BY <1>2, <1>4, <1>6
<1> HIDE DEF T
<1>10. /\ TableInv(f[m], W) /\ f[m][s].used
       /\ \A u \in Sem \ {s} : f[m][u] = f[m - 1][u]
       /\ f[m][s].cnt = f[m - 1][s].cnt + 1
       /\ Account(f[m], s, W) = Account(f[m - 1], s, W) + 1
  BY <1>8, <1>9, SignalKeeps DEF SignalledBy
<1>11. SignalledBy(t, f[m], s, W, m)
  BY <1>4, <1>5, <1>8, <1>10 DEF SignalledBy
<1> QED BY <1>4, <1>11

-----------------------------------------------------------------------------
(* Processes that come and go *)

Less(t, s, n) == [t EXCEPT ![s].cnt = @ - n]

(* Tokens are taken from a positive count. *)
LEMMA TokensKeep ==
    ASSUME NEW W, WantsOK(W), NEW t, TableInv(t, W), NEW s \in Sem, t[s].used,
           NEW n \in Nat, n <= t[s].cnt,
           NEW t2, t2 = Less(t, s, n)
    PROVE  /\ TableInv(t2, W) /\ t2[s].used
           /\ \A u \in Sem \ {s} : t2[u] = t[u]
           /\ t2[s].cnt = t[s].cnt - n
           /\ Account(t2, s, W) = Account(t, s, W) - n
<1>1. /\ t \in [Sem -> SemRec] /\ t[s].cnt \in Int /\ t[s].queue \in Seq(Proc)
      /\ Len(t[s].queue) = QueueLength(t[s].cnt)
      /\ TableOK(t)
      /\ \A u \in Sem : Waiting(t, u) \subseteq W[u]
  BY DEF TableInv, TableOK, SemRec
<1> DEFINE r == [used |-> TRUE, cnt |-> t[s].cnt - n, queue |-> t[s].queue]
<1>2. /\ t2[s] = r
      /\ \A u \in Sem \ {s} : t2[u] = t[u]
      /\ t2 = [u \in Sem |-> t2[u]]
  <2>1. /\ \A u \in Sem \ {s} : t2[u] = t[u]
        /\ t2[s] = [t[s] EXCEPT !.cnt = @ - n]
        /\ t2 = [u \in Sem |-> t2[u]]
    BY <1>1 DEF Less
  <2>2. t2[s] = r
    BY <2>1, <1>1 DEF SemRec
  <2> QED BY <2>1, <2>2
<1>3. r \in SemRec /\ r.used /\ r.cnt = t[s].cnt - n /\ r.queue = t[s].queue
  BY <1>1 DEF SemRec
<1> HIDE DEF r
<1>4. Len(r.queue) = QueueLength(r.cnt)
  BY <1>1, <1>3 DEF QueueLength
<1>5. SlotFits(t, s, r)
  <2>1. \A i, j \in 1 .. Len(r.queue) : r.queue[i] = r.queue[j] => i = j
    BY <1>1, <1>3 DEF TableOK
  <2>2. \A i \in 1 .. Len(r.queue) : r.queue[i] \in Waiting(t, s) \cup Unqueued(t)
    BY <1>3 DEF Waiting
  <2> QED BY <1>3, <1>4, <2>1, <2>2 DEF SlotFits
<1>6. t2 \in [Sem -> SemRec]
  BY <1>1, <1>2, <1>3
<1>7. /\ TableOK(t2)
      /\ \A u \in Sem \ {s} : t2[u] = t[u] /\ Waiting(t2, u) = Waiting(t, u)
  <2>1. Changed(t, t2, s, r)
    BY <1>2, <1>6 DEF Changed
  <2>2. TableOK(t)
    BY <1>1
  <2> QED BY <1>5, <2>1, <2>2, SlotChange
<1>8. Waiting(t2, s) = Waiting(t, s)
  BY <1>2, <1>3 DEF Waiting
<1>9. TableInv(t2, W)
  BY <1>1, <1>7, <1>8 DEF TableInv
<1>10. Positive(t2[s].cnt) = Positive(t[s].cnt) - n
  BY <1>1, <1>2, <1>3 DEF Positive
<1>11. Account(t2, s, W) = Account(t, s, W) - n
  <2> DEFINE c == Cardinality(W[s] \ Waiting(t, s))
  <2>1. Positive(t[s].cnt) \in Nat /\ c \in Nat
    BY TableFacts
  <2>2. Account(t2, s, W) = Positive(t2[s].cnt) + c /\ Account(t, s, W) = Positive(t[s].cnt) + c
    BY <1>8 DEF Account
  <2> HIDE DEF c
  <2> QED BY <2>1, <2>2, <1>10
<1> QED BY <1>2, <1>3, <1>7, <1>9, <1>11

(* The customers of s are other processes now. *)
Customers(W, W2, s, K) ==
    /\ W2 \in [Sem -> SUBSET Proc]
    /\ W2[s] = K
    /\ \A u \in Sem \ {s} : W2[u] = W[u]

LEMMA WantsChange ==
    ASSUME NEW W, WantsOK(W), NEW s \in Sem, NEW K,
           \A u \in Sem \ {s} : W[u] \cap K = {},
           NEW W2, Customers(W, W2, s, K)
    PROVE  WantsOK(W2)
BY DEF Customers, WantsOK

Nowhere(p, W) == p \in Proc /\ \A s \in Sem : p \notin W[s]

(* A process has come to wait at s. *)
Entered(t, t2, s, W, W2) ==
    /\ WantsOK(W2) /\ TableInv(t2, W2) /\ t2[s].used
    /\ \A u \in Sem \ {s} : t2[u] = t[u] /\ W2[u] = W[u]
    /\ t2[s].cnt = t[s].cnt - 1
    /\ Account(t2, s, W2) = Account(t, s, W)

(* A process that finds nothing waits, and is a customer from then on. *)
LEMMA EnterKeeps ==
    ASSUME NEW W, WantsOK(W), NEW t, TableInv(t, W), NEW s \in Sem, t[s].used,
           NEW p, Nowhere(p, W), t[s].cnt <= 0,
           NEW t2, t2 = wait(t, s, p),
           NEW W2, Customers(W, W2, s, W[s] \cup {p})
    PROVE  Entered(t, t2, s, W, W2)
<1>1. /\ p \in Proc /\ \A u \in Sem : p \notin W[u]
      /\ TableOK(t)
      /\ \A u \in Sem : Waiting(t, u) \subseteq W[u]
      /\ t[s].cnt \in Int
      /\ W[s] \subseteq Proc
      /\ W \in [Sem -> SUBSET Proc]
  BY TableFacts DEF Nowhere, TableInv, WantsOK
<1>2. p \in Unqueued(t)
  BY <1>1 DEF Unqueued
<1>3. /\ WantsOK(W2) /\ W2[s] = W[s] \cup {p}
      /\ \A u \in Sem \ {s} : W2[u] = W[u]
  <2> DEFINE K == W[s] \cup {p}
  <2>1. \A u \in Sem \ {s} : W[u] \cap K = {}
    BY <1>1 DEF WantsOK
  <2>2. Customers(W, W2, s, K)
    OBVIOUS
  <2> HIDE DEF K
  <2>3. WantsOK(W2)
    BY <2>1, <2>2, WantsChange
  <2> QED BY <2>3 DEF Customers
<1>4. /\ TableOK(t2) /\ t2[s].used /\ t2[s].cnt = t[s].cnt - 1
      /\ \A u \in Sem \ {s} : t2[u] = t[u] /\ Waiting(t2, u) = Waiting(t, u)
      /\ Waiting(t2, s) = Waiting(t, s) \cup {p}
  BY <1>1, <1>2, WaitEffect
<1>5. TableInv(t2, W2)
  BY <1>1, <1>3, <1>4 DEF TableInv
<1>6. Promise(t2, s, W2[s]) = Promise(t, s, W[s])
  BY <1>1, <1>2, <1>3, PromiseEnter
<1>7. Account(t2, s, W2) = Account(t, s, W)
  <2>1. Promise(t2, s, W2[s]) = Account(t2, s, W2)
    <3>1. WantsOK(W2) /\ TableInv(t2, W2)
      BY <1>3, <1>5
    <3> QED BY <3>1, TableFacts
  <2>2. Promise(t, s, W[s]) = Account(t, s, W)
    BY TableFacts
  <2> QED BY <1>6, <2>1, <2>2
<1> QED BY <1>3, <1>4, <1>5, <1>7 DEF Entered

(* A process that has taken a token is let through: it is a customer that   *)
(* does not wait.                                                           *)
LEMMA JoinKeeps ==
    ASSUME NEW W, WantsOK(W), NEW t, TableInv(t, W), NEW s \in Sem,
           NEW p, Nowhere(p, W),
           NEW W2, Customers(W, W2, s, W[s] \cup {p})
    PROVE  /\ WantsOK(W2) /\ TableInv(t, W2)
           /\ \A u \in Sem \ {s} : W2[u] = W[u]
           /\ Account(t, s, W2) = Account(t, s, W) + 1
<1>1. /\ p \in Proc /\ \A u \in Sem : p \notin W[u]
      /\ TableOK(t)
      /\ \A u \in Sem : Waiting(t, u) \subseteq W[u]
      /\ W[s] \subseteq Proc
      /\ W \in [Sem -> SUBSET Proc]
  BY DEF Nowhere, TableInv, WantsOK
<1>2. /\ WantsOK(W2) /\ W2[s] = W[s] \cup {p}
      /\ \A u \in Sem \ {s} : W2[u] = W[u]
  <2> DEFINE K == W[s] \cup {p}
  <2>1. \A u \in Sem \ {s} : W[u] \cap K = {}
    BY <1>1 DEF WantsOK
  <2>2. Customers(W, W2, s, K)
    OBVIOUS
  <2> HIDE DEF K
  <2>3. WantsOK(W2)
    BY <2>1, <2>2, WantsChange
  <2> QED BY <2>3 DEF Customers
<1>3. TableInv(t, W2)
  BY <1>1, <1>2 DEF TableInv
<1>4. W2[s] \ Waiting(t, s) = (W[s] \ Waiting(t, s)) \cup {p}
  BY <1>1, <1>2
<1>5. p \notin W[s] \ Waiting(t, s) /\ IsFiniteSet(W[s] \ Waiting(t, s))
  BY <1>1, TableFacts
<1>6. /\ Cardinality(W2[s] \ Waiting(t, s)) = Cardinality(W[s] \ Waiting(t, s)) + 1
      /\ Cardinality(W[s] \ Waiting(t, s)) \in Nat
  BY <1>4, <1>5, OneMore
<1>7. Positive(t[s].cnt) \in Nat
  BY TableFacts
<1>8. Account(t, s, W2) = Account(t, s, W) + 1
  BY <1>6, <1>7 DEF Account
<1> QED BY <1>2, <1>3, <1>8

(* A customer that was let through uses that. *)
LEMMA LeaveKeeps ==
    ASSUME NEW W, WantsOK(W), NEW t, TableInv(t, W), NEW s \in Sem,
           NEW p, p \in W[s], p \notin Waiting(t, s),
           NEW W2, Customers(W, W2, s, W[s] \ {p})
    PROVE  /\ WantsOK(W2) /\ TableInv(t, W2)
           /\ \A u \in Sem \ {s} : W2[u] = W[u]
           /\ Account(t, s, W2) = Account(t, s, W) - 1
           /\ Account(t, s, W) >= 1
<1>1. /\ TableOK(t)
      /\ \A u \in Sem : Waiting(t, u) \subseteq W[u]
      /\ W[s] \subseteq Proc
      /\ W \in [Sem -> SUBSET Proc]
  BY DEF TableInv, WantsOK
<1>2. /\ WantsOK(W2) /\ W2[s] = W[s] \ {p}
      /\ \A u \in Sem \ {s} : W2[u] = W[u]
  <2> DEFINE K == W[s] \ {p}
  <2>1. \A u \in Sem \ {s} : W[u] \cap K = {}
    BY <1>1 DEF WantsOK
  <2>2. Customers(W, W2, s, K)
    OBVIOUS
  <2> HIDE DEF K
  <2>3. WantsOK(W2)
    BY <2>1, <2>2, WantsChange
  <2> QED BY <2>3 DEF Customers
<1>3. TableInv(t, W2)
  BY <1>1, <1>2 DEF TableInv
<1>4. p \in W[s] \cap Unqueued(t)
  <2>1. W[s] \cap Unqueued(t) = W[s] \ Waiting(t, s)
    BY TableFacts
  <2> QED BY <2>1
<1>5. /\ Promise(t, s, W[s] \ {p}) = Promise(t, s, W[s]) - 1
      /\ Promise(t, s, W[s]) >= 1
  BY <1>1, <1>4, PromiseUsed
<1>6. /\ Promise(t, s, W2[s]) = Account(t, s, W2)
      /\ Promise(t, s, W[s]) = Account(t, s, W)
  BY <1>2, <1>3, TableFacts
<1> QED BY <1>2, <1>3, <1>5, <1>6

(* sreset() of a semaphore without customers. *)
LEMMA ResetKeeps ==
    ASSUME NEW W, WantsOK(W), NEW t, TableInv(t, W), NEW s \in Sem, t[s].used,
           W[s] = {}, NEW n \in Nat,
           NEW t2, t2 = sreset(t, s, n)
    PROVE  /\ TableInv(t2, W) /\ t2[s].used
           /\ \A u \in Sem \ {s} : t2[u] = t[u]
           /\ t2[s].cnt = n
           /\ Account(t2, s, W) = n
<1>1. TableOK(t) /\ Used(t, s) /\ t \in [Sem -> SemRec]
  BY DEF TableInv, Used, TableOK
<1>2. /\ \A u \in Sem : t2[u].used = t[u].used
      /\ t2[s].cnt = n /\ Waiting(t2, s) = {}
      /\ LetGo(t, t2, s)
  BY <1>1, ResetLetsGo
<1>3. /\ TableOK(t2)
      /\ \A u \in Sem \ {s} : t2[u] = t[u]
  <2>1. TableOK(t2)
    BY <1>2 DEF LetGo
  <2>2. \A u \in Sem \ {s} : t2[u] = t[u]
    BY <1>1 DEF sreset
  <2> QED BY <2>1, <2>2
<1>4. TableInv(t2, W)
  <2>1. \A u \in Sem : Waiting(t2, u) \subseteq Waiting(t, u)
    BY <1>2 DEF LetGo
  <2> QED BY <1>3, <2>1 DEF TableInv
<1>5. Cardinality(W[s] \ Waiting(t2, s)) = 0
  <2>1. W[s] \ Waiting(t2, s) = {}
    OBVIOUS
  <2> QED BY <2>1, FS_EmptySet
<1>6. Account(t2, s, W) = n
  BY <1>2, <1>5 DEF Account, Positive
<1> QED BY <1>2, <1>3, <1>4, <1>6

-----------------------------------------------------------------------------
(* The output half *)

OutRec == [ehead : 0 .. EBUFLEN - 1, etail : 0 .. EBUFLEN - 1,
           ohead : 0 .. OBUFLEN - 1, otail : 0 .. OBUFLEN - 1,
           odsend : 0 .. OBMINSP - 1, tx : BOOLEAN, oheld : BOOLEAN, unsent : Int]

(* What is stored in obuff fills it from otail to ohead. *)
Filled(r) == \E q \in Int : r.ohead - r.otail - r.unsent = OBUFLEN * q

(* The output half with a table of semaphores, all but "missing" places of  *)
(* obuff accounted for.                                                     *)
OutBut(o, W, missing) ==
    /\ o \in [out : OutRec, sems : [Sem -> SemRec]]
    /\ TableInv(o.sems, W) /\ o.sems[isem].used /\ o.sems[osem].used
    /\ Account(o.sems, osem, W) + o.out.odsend + o.out.unsent = OBUFLEN - missing
    /\ o.out.odsend > 0 => o.sems[osem].cnt <= OBMINSP
    /\ o.sems[osem].cnt <= OBUFLEN - missing
    /\ Filled(o.out)

OutOK(o, W) == OutBut(o, W, 0)

(* Nothing has been sent that was not stored, and the transmitter, if it is  *)
(* about to send, will find a character: Ready as Prompt says, Due while the *)
(* transmitter is off.                                                       *)
Floor(o) == load.late \/ o.out.unsent >= 0
Ready(o, W) == load.late \/ o.out.unsent > 0 \/ W[osem] \ Waiting(o.sems, osem) = {}
Due(o, W) == o.out.tx \/ Ready(o, W)

(* Only the output half changes. *)
Kept(o, o2, W) ==
    /\ OutOK(o2, W) /\ o2.sems[isem] = o.sems[isem]
    /\ Due(o, W) /\ Floor(o) => Due(o2, W) /\ Floor(o2)

LEMMA SemNumbers ==
    /\ isem \in Sem /\ osem \in Sem /\ isem # osem
    /\ IBUFLEN \in Nat \ {0} /\ OBUFLEN \in Nat \ {0} /\ EBUFLEN \in Nat \ {0}
    /\ OBMINSP \in Nat \ {0} /\ IBUFLEN > 1
BY TtyAssumption, SemaphoresAssumption DEF isem, osem, Sem

(* The next place in a ring. *)
LEMMA NextPlace ==
    ASSUME NEW n \in Nat \ {0}, NEW x \in 0 .. n - 1
    PROVE  /\ (x + 1) % n \in 0 .. n - 1
           /\ (x + 1) % n = x + 1 \/ (x + 1) % n = x + 1 - n
<1> DEFINE y == x + 1
           z == y % n
<1>1. y \in (- n) .. (2 * n - 1) /\ y \in 1 .. n
  OBVIOUS
<1> HIDE DEF y
<1>2. z = Wrapped(y, n) /\ z \in 0 .. n - 1
  BY <1>1, Wraps
<1> HIDE DEF z
<1>3. z = y \/ z = y - n
  BY <1>1, <1>2 DEF Wrapped
<1> QED BY <1>2, <1>3 DEF y, z

(* A character more, or less, in obuff. *)
LEMMA FilledStep ==
    ASSUME NEW r, NEW r2, Filled(r),
           r.ohead \in 0 .. OBUFLEN - 1, r.otail \in 0 .. OBUFLEN - 1, r.unsent \in Int,
           \/ /\ r2.ohead = (r.ohead + 1) % OBUFLEN /\ r2.otail = r.otail
              /\ r2.unsent = r.unsent + 1
           \/ /\ r2.otail = (r.otail + 1) % OBUFLEN /\ r2.ohead = r.ohead
              /\ r2.unsent = r.unsent - 1
    PROVE  Filled(r2)
<1>1. PICK q \in Int : r.ohead - r.otail - r.unsent = OBUFLEN * q
  BY DEF Filled
<1>2. OBUFLEN \in Nat \ {0}
  BY SemNumbers
<1>3. /\ OBUFLEN * (q + 1) = OBUFLEN * q + OBUFLEN
      /\ OBUFLEN * (q - 1) = OBUFLEN * q - OBUFLEN
      /\ OBUFLEN * q \in Int
  BY <1>2
<1> DEFINE N == OBUFLEN * q
<1>4. /\ N \in Int /\ r.ohead \in Int /\ r.otail \in Int /\ OBUFLEN \in Int
      /\ r.ohead - r.otail - r.unsent = N
  BY <1>1, <1>2, <1>3
<1>5. \/ r2.ohead - r2.otail - r2.unsent = N
      \/ r2.ohead - r2.otail - r2.unsent = N - OBUFLEN
      \/ r2.ohead - r2.otail - r2.unsent = N + OBUFLEN
  <2> DEFINE up == (r.ohead + 1) % OBUFLEN
             over == (r.otail + 1) % OBUFLEN
  <2>1. /\ up = r.ohead + 1 \/ up = r.ohead + 1 - OBUFLEN
        /\ over = r.otail + 1 \/ over = r.otail + 1 - OBUFLEN
    BY <1>2, NextPlace
  <2>2. \/ r2.ohead = up /\ r2.otail = r.otail /\ r2.unsent = r.unsent + 1
        \/ r2.otail = over /\ r2.ohead = r.ohead /\ r2.unsent = r.unsent - 1
    OBVIOUS
  <2> HIDE DEF up, over, N
  <2>3. CASE r2.ohead = up /\ r2.otail = r.otail /\ r2.unsent = r.unsent + 1
    BY <1>4, <2>1, <2>3
  <2>4. CASE r2.otail = over /\ r2.ohead = r.ohead /\ r2.unsent = r.unsent - 1
    BY <1>4, <2>1, <2>4
  <2> QED BY <2>2, <2>3, <2>4
<1> QED BY <1>3, <1>5 DEF Filled

(* The echo ring and the switches of the transmitter are no part of it. *)
LEMMA SwitchesKeep ==
    ASSUME NEW W, NEW o, OutOK(o, W), NEW o2,
           o2 \in [out : OutRec, sems : [Sem -> SemRec]], o2.sems = o.sems,
           o2.out.ohead = o.out.ohead, o2.out.otail = o.out.otail,
           o2.out.odsend = o.out.odsend, o2.out.unsent = o.out.unsent
    PROVE  /\ OutOK(o2, W) /\ o2.sems[isem] = o.sems[isem]
           /\ Floor(o) => Floor(o2)
           /\ Ready(o, W) => Ready(o2, W)
           /\ (o.out.tx => o2.out.tx) => Kept(o, o2, W)
BY DEF Kept, OutOK, OutBut, Filled, Floor, Ready, Due

(* Credits: a place is given back, now or later. *)
LEMMA CreditsKeep ==
    ASSUME NEW W, WantsOK(W), NEW o, OutBut(o, W, 1)
    PROVE  /\ OutOK(Credits(o), W) /\ Credits(o).sems[isem] = o.sems[isem]
           /\ Credits(o).out.tx = o.out.tx /\ Credits(o).out.unsent = o.out.unsent
<1> DEFINE t == o.sems
           ct == t[osem].cnt
<1>1. /\ o \in [out : OutRec, sems : [Sem -> SemRec]]
      /\ o.out \in OutRec /\ o.out.odsend \in 0 .. OBMINSP - 1 /\ o.out.unsent \in Int
      /\ TableInv(t, W) /\ t[isem].used /\ t[osem].used
      /\ Account(t, osem, W) + o.out.odsend + o.out.unsent = OBUFLEN - 1
      /\ o.out.odsend > 0 => ct <= OBMINSP
      /\ ct <= OBUFLEN - 1
      /\ Filled(o.out)
  BY DEF OutBut, OutRec
<1>2. /\ isem \in Sem /\ osem \in Sem /\ isem # osem
      /\ OBUFLEN \in Nat /\ OBMINSP \in Nat \ {0} /\ OBUFLEN >= 2 * OBMINSP
  BY SemNumbers, TtyAssumption
<1>3. ct \in Int /\ Account(t, osem, W) \in Nat
  BY <1>1, <1>2, TableFacts
<1> HIDE DEF t, ct
<1>4. CASE ct > OBMINSP
  <2> DEFINE t2 == signal(t, osem)
             o2 == [o EXCEPT !.sems = t2]
  <2>1. /\ TableInv(t2, W) /\ t2[osem].used /\ t2[isem] = t[isem]
        /\ t2[osem].cnt = ct + 1
        /\ Account(t2, osem, W) = Account(t, osem, W) + 1
    BY <1>1, <1>2, SignalKeeps DEF ct
  <2>2. Credits(o) = o2
    BY <1>4 DEF Credits, ct, t
  <2> HIDE DEF t2
  <2>3. t2 \in [Sem -> SemRec]
    BY <2>1 DEF TableInv, TableOK
  <2>4. o2.out = o.out /\ o2.sems = t2 /\ o2 \in [out : OutRec, sems : [Sem -> SemRec]]
    BY <1>1, <2>3
  <2> HIDE DEF o2
  <2>5. o.out.odsend = 0
    BY <1>1, <1>2, <1>3, <1>4
  <2>6. OutOK(o2, W)
    BY <1>1, <1>2, <1>3, <2>1, <2>4, <2>5 DEF OutOK, OutBut
  <2> QED BY <2>1, <2>2, <2>4, <2>6 DEF t
<1>5. CASE ~ ct > OBMINSP /\ o.out.odsend + 1 = OBMINSP
  <2> DEFINE t2 == signaln(t, osem, OBMINSP)
             r2 == [o.out EXCEPT !.odsend = 0]
             o2 == [o EXCEPT !.out.odsend = 0, !.sems = t2]
  <2>1. /\ TableInv(t2, W) /\ t2[osem].used /\ t2[isem] = t[isem]
        /\ t2[osem].cnt = ct + OBMINSP
        /\ Account(t2, osem, W) = Account(t, osem, W) + OBMINSP
    <3>1. SignalledBy(t, t2, osem, W, OBMINSP)
      BY <1>1, <1>2, SignalsKeep
    <3> HIDE DEF t2
    <3> QED BY <3>1, <1>2 DEF SignalledBy, ct
  <2>2. Credits(o) = o2
    BY <1>5 DEF Credits, ct, t
  <2> HIDE DEF t2
  <2>3. t2 \in [Sem -> SemRec]
    BY <2>1 DEF TableInv, TableOK
  <2>4. /\ o2.sems = t2 /\ o2 \in [out : OutRec, sems : [Sem -> SemRec]]
        /\ o2.out.odsend = 0 /\ o2.out.unsent = o.out.unsent /\ o2.out.tx = o.out.tx
        /\ o2.out.ohead = o.out.ohead /\ o2.out.otail = o.out.otail
    <3>1. /\ r2 \in OutRec /\ r2.odsend = 0 /\ r2.unsent = o.out.unsent /\ r2.tx = o.out.tx
          /\ r2.ohead = o.out.ohead /\ r2.otail = o.out.otail
      BY <1>1, <1>2 DEF OutRec
    <3> DEFINE w == [o EXCEPT !.out = r2]
    <3>2. o2 = [w EXCEPT !.sems = t2]
      BY <1>1
    <3> HIDE DEF r2, o2
    <3>3. w \in [out : OutRec, sems : [Sem -> SemRec]] /\ w.out = r2
      BY <1>1, <3>1
    <3> HIDE DEF w
    <3> QED BY <2>3, <3>1, <3>2, <3>3
  <2> HIDE DEF o2
  <2>5. Filled(o2.out)
    BY <1>1, <2>4 DEF Filled
  <2>6. OutOK(o2, W)
    BY <1>1, <1>2, <1>3, <1>5, <2>1, <2>4, <2>5 DEF OutOK, OutBut
  <2> QED BY <2>1, <2>2, <2>4, <2>6 DEF t
<1>6. CASE ~ ct > OBMINSP /\ o.out.odsend + 1 # OBMINSP
  <2> DEFINE o2 == [o EXCEPT !.out.odsend = @ + 1]
  <2>1. Credits(o) = o2
    BY <1>6 DEF Credits, ct, t
  <2>2. /\ o2.sems = t /\ o2 \in [out : OutRec, sems : [Sem -> SemRec]]
        /\ o2.out.odsend = o.out.odsend + 1 /\ o2.out.unsent = o.out.unsent
        /\ o2.out.tx = o.out.tx
        /\ o2.out.ohead = o.out.ohead /\ o2.out.otail = o.out.otail
    BY <1>1, <1>2, <1>6 DEF OutRec, t
  <2> HIDE DEF o2
  <2>3. Filled(o2.out)
    BY <1>1, <2>2 DEF Filled
  <2>4. OutOK(o2, W)
    BY <1>1, <1>2, <1>3, <1>6, <2>2, <2>3 DEF OutOK, OutBut, ct
  <2> QED BY <2>1, <2>2, <2>4 DEF t
<1> QED BY <1>4, <1>5, <1>6

(* An output interrupt: with nobody on the way and nothing stored, there is  *)
(* nothing to send.                                                         *)
LEMMA ttyoinKeeps ==
    ASSUME NEW W, WantsOK(W), NEW o, OutOK(o, W), o.out.tx
    PROVE  /\ OutOK(ttyoin(o), W) /\ ttyoin(o).sems[isem] = o.sems[isem]
           /\ Ready(o, W) /\ Floor(o) => Due(ttyoin(o), W) /\ Floor(ttyoin(o))
<1>1. /\ o \in [out : OutRec, sems : [Sem -> SemRec]]
      /\ o.out \in OutRec
      /\ OutBut(o, W, 0)
  BY DEF OutOK, OutBut
<1>2. EBUFLEN \in Nat \ {0} /\ OBUFLEN \in Nat \ {0}
  BY SemNumbers
<1>3. CASE o.out.ehead # o.out.etail
  <2> DEFINE o2 == [o EXCEPT !.out.etail = (@ + 1) % EBUFLEN]
  <2>1. (o.out.etail + 1) % EBUFLEN \in 0 .. EBUFLEN - 1
    BY <1>1, <1>2, NextPlace DEF OutRec
  <2>2. /\ o2 \in [out : OutRec, sems : [Sem -> SemRec]] /\ o2.sems = o.sems
        /\ o2.out.ohead = o.out.ohead /\ o2.out.otail = o.out.otail
        /\ o2.out.odsend = o.out.odsend /\ o2.out.unsent = o.out.unsent
    BY <1>1, <2>1 DEF OutRec
  <2>3. ttyoin(o) = o2
    BY <1>3 DEF ttyoin
  <2> HIDE DEF o2
  <2> QED BY <2>2, <2>3, SwitchesKeep DEF Due
<1>4. CASE /\ ~ o.out.ehead # o.out.etail
           /\ o.out.oheld \/ ~ o.sems[osem].cnt < OBUFLEN
  <2> DEFINE o2 == [o EXCEPT !.out.tx = FALSE]
  <2>1. /\ o2 \in [out : OutRec, sems : [Sem -> SemRec]] /\ o2.sems = o.sems
        /\ o2.out.ohead = o.out.ohead /\ o2.out.otail = o.out.otail
        /\ o2.out.odsend = o.out.odsend /\ o2.out.unsent = o.out.unsent
    BY <1>1 DEF OutRec
  <2>2. ttyoin(o) = o2
    BY <1>4 DEF ttyoin
  <2> HIDE DEF o2
  <2> QED BY <2>1, <2>2, SwitchesKeep DEF Due
<1>5. CASE /\ ~ o.out.ehead # o.out.etail
           /\ ~ o.out.oheld /\ o.sems[osem].cnt < OBUFLEN
  <2> DEFINE next == (o.out.otail + 1) % OBUFLEN
             r2 == [o.out EXCEPT !.otail = next, !.unsent = @ - 1]
             o2 == [o EXCEPT !.out.otail = (@ + 1) % OBUFLEN, !.out.unsent = @ - 1]
  <2>1. next \in 0 .. OBUFLEN - 1
    BY <1>1, <1>2, NextPlace DEF OutRec
  <2>2. /\ o2 \in [out : OutRec, sems : [Sem -> SemRec]] /\ o2.sems = o.sems
        /\ o2.out.ohead = o.out.ohead /\ o2.out.otail = (o.out.otail + 1) % OBUFLEN
        /\ o2.out.odsend = o.out.odsend /\ o2.out.unsent = o.out.unsent - 1
        /\ o2.out.tx = o.out.tx
        /\ o.out.unsent \in Int /\ o.out.odsend \in Nat
        /\ o.out.ohead \in 0 .. OBUFLEN - 1 /\ o.out.otail \in 0 .. OBUFLEN - 1
    <3>1. o2 = [o EXCEPT !.out = r2]
      BY <1>1
    <3> DEFINE less == o.out.unsent - 1
    <3>2. r2 = [o.out EXCEPT !.otail = next, !.unsent = less] /\ less \in Int
      BY <1>1 DEF OutRec
    <3> HIDE DEF next, less, r2
    <3>3. /\ r2 \in OutRec /\ r2.ohead = o.out.ohead /\ r2.otail = next
          /\ r2.odsend = o.out.odsend /\ r2.unsent = less /\ r2.tx = o.out.tx
          /\ o.out.unsent \in Int /\ o.out.odsend \in Nat
          /\ o.out.ohead \in 0 .. OBUFLEN - 1 /\ o.out.otail \in 0 .. OBUFLEN - 1
      <4> DEFINE v == o.out
      <4>1. v \in OutRec /\ r2 = [v EXCEPT !.otail = next, !.unsent = less]
        BY <1>1, <3>2
      <4> HIDE DEF v
      <4>2. r2 \in OutRec
        BY <2>1, <3>2, <4>1 DEF OutRec
      <4>3. /\ r2.ohead = v.ohead /\ r2.otail = next /\ r2.odsend = v.odsend /\ r2.unsent = less
            /\ r2.tx = v.tx
        BY <4>1 DEF OutRec
      <4>4. /\ v.unsent \in Int /\ v.odsend \in Nat
            /\ v.ohead \in 0 .. OBUFLEN - 1 /\ v.otail \in 0 .. OBUFLEN - 1
        BY <4>1 DEF OutRec
      <4> QED BY <4>2, <4>3, <4>4 DEF v
    <3>4. o2 \in [out : OutRec, sems : [Sem -> SemRec]] /\ o2.sems = o.sems /\ o2.out = r2
      <4> HIDE DEF o2
      <4> QED BY <1>1, <3>1, <3>3
    <3> QED BY <3>3, <3>4 DEF next, less
  <2>3. ttyoin(o) = Credits(o2)
    BY <1>5 DEF ttyoin
  <2> HIDE DEF o2
  <2>4. /\ TableInv(o.sems, W) /\ o.sems[isem].used /\ o.sems[osem].used
        /\ Account(o.sems, osem, W) + o.out.odsend + o.out.unsent = OBUFLEN - 0
        /\ o.out.odsend > 0 => o.sems[osem].cnt <= OBMINSP
        /\ Filled(o.out)
        /\ o.sems[osem].cnt \in Int
    <3>1. o.sems[osem] \in SemRec
      BY <1>1, SemNumbers
    <3> QED BY <1>1, <3>1 DEF OutBut, SemRec
  <2>5. Filled(o2.out)
    BY <2>2, <2>4, FilledStep
  <2>6. Account(o.sems, osem, W) \in Nat
    BY <2>4, SemNumbers, TableFacts
  <2>7. Account(o2.sems, osem, W) + o2.out.odsend + o2.out.unsent = OBUFLEN - 1
    BY <1>2, <2>2, <2>4, <2>6
  <2>8. OutBut(o2, W, 1)
    <3>1. o.sems[osem].cnt <= OBUFLEN - 1
      BY <1>2, <1>5, <2>4
    <3> QED BY <2>2, <2>4, <2>5, <2>7, <3>1 DEF OutBut
  <2>9. /\ OutOK(Credits(o2), W) /\ Credits(o2).sems[isem] = o2.sems[isem]
        /\ Credits(o2).out.tx = o2.out.tx /\ Credits(o2).out.unsent = o2.out.unsent
    BY <2>8, CreditsKeep
  <2>10. ASSUME Ready(o, W), Floor(o), ~ load.late
         PROVE  o.out.unsent > 0
    <3> DEFINE c == o.sems[osem].cnt
               m == Positive(c)
               d == o.out.odsend
               u == o.out.unsent
    <3>1. CASE W[osem] \ Waiting(o.sems, osem) = {}
      <4>1. Account(o.sems, osem, W) = m + 0
        BY <3>1, FS_EmptySet DEF Account
      <4>2. /\ OBMINSP \in Nat \ {0} /\ OBUFLEN \in Nat \ {0} /\ OBUFLEN >= 2 * OBMINSP
            /\ d \in 0 .. OBMINSP - 1 /\ u \in Int /\ c \in Int
        BY <1>1, <1>2, <2>2, <2>4, TtyAssumption DEF OutRec
      <4>3. m \in Nat /\ (m = 0 \/ m = c)
        BY <4>2 DEF Positive
      <4>4. (d > 0 => c <= OBMINSP) /\ c < OBUFLEN /\ Account(o.sems, osem, W) + d + u = OBUFLEN - 0
        BY <1>5, <2>4
      <4> HIDE DEF c, m, d, u
      <4>5. m + d < OBUFLEN
        BY <4>2, <4>3, <4>4
      <4>6. u > 0
        BY <4>1, <4>2, <4>3, <4>4, <4>5
      <4> QED BY <4>6 DEF u
    <3> QED BY <2>10, <3>1 DEF Ready
  <2> QED BY <2>2, <2>3, <2>9, <2>10 DEF Due, Floor
<1> QED BY <1>3, <1>4, <1>5

LEMMA KeptTwice ==
    ASSUME NEW W, NEW o, NEW o2, NEW o3, Kept(o, o2, W), Kept(o2, o3, W)
    PROVE  Kept(o, o3, W)
BY DEF Kept

LEMMA ttyostartKeeps ==
    ASSUME NEW W, WantsOK(W), NEW o, OutOK(o, W)
    PROVE  Kept(o, ttyostart(o), W)
<1> DEFINE o2 == [o EXCEPT !.out.tx = TRUE]
<1>1. o \in [out : OutRec, sems : [Sem -> SemRec]]
  BY DEF OutOK, OutBut
<1>2. /\ o2 \in [out : OutRec, sems : [Sem -> SemRec]] /\ o2.sems = o.sems
      /\ o2.out.ohead = o.out.ohead /\ o2.out.otail = o.out.otail
      /\ o2.out.odsend = o.out.odsend /\ o2.out.unsent = o.out.unsent
  BY <1>1 DEF OutRec
<1>3. ttyostart(o) = IF o.out.tx THEN o ELSE ttyoin(o2)
  BY DEF ttyostart
<1>4. o2.out.tx
  BY <1>1 DEF OutRec
<1> HIDE DEF o2
<1>5. /\ OutOK(o2, W) /\ o2.sems[isem] = o.sems[isem]
      /\ Floor(o) => Floor(o2)
      /\ Ready(o, W) => Ready(o2, W)
  BY <1>2, SwitchesKeep
<1>6. /\ OutOK(ttyoin(o2), W) /\ ttyoin(o2).sems[isem] = o2.sems[isem]
      /\ Ready(o2, W) /\ Floor(o2) => Due(ttyoin(o2), W) /\ Floor(ttyoin(o2))
  BY <1>4, <1>5, ttyoinKeeps
<1>7. CASE o.out.tx
  BY <1>3, <1>7 DEF Kept
<1>8. CASE ~ o.out.tx
  <2>1. Due(o, W) => Ready(o, W)
    BY <1>8 DEF Due
  <2> QED BY <1>3, <1>5, <1>6, <1>8, <2>1 DEF Kept
<1> QED BY <1>7, <1>8

LEMMA eputcKeeps ==
    ASSUME NEW W, WantsOK(W), NEW o, OutOK(o, W)
    PROVE  Kept(o, eputc(o), W)
<1> DEFINE o2 == [o EXCEPT !.out.ehead = (@ + 1) % EBUFLEN]
<1>1. o \in [out : OutRec, sems : [Sem -> SemRec]]
  BY DEF OutOK, OutBut
<1>2. (o.out.ehead + 1) % EBUFLEN \in 0 .. EBUFLEN - 1
  <2>1. EBUFLEN \in Nat \ {0} /\ o.out.ehead \in 0 .. EBUFLEN - 1
    BY <1>1, SemNumbers DEF OutRec
  <2> QED BY <2>1, NextPlace
<1>3. /\ o2 \in [out : OutRec, sems : [Sem -> SemRec]] /\ o2.sems = o.sems
      /\ o2.out.ohead = o.out.ohead /\ o2.out.otail = o.out.otail
      /\ o2.out.odsend = o.out.odsend /\ o2.out.unsent = o.out.unsent
      /\ o2.out.tx = o.out.tx
  BY <1>1, <1>2 DEF OutRec
<1>4. eputc(o) = ttyostart(o2)
  BY DEF eputc
<1> HIDE DEF o2
<1>5. Kept(o, o2, W)
  BY <1>3, SwitchesKeep
<1>6. Kept(o2, ttyostart(o2), W)
  BY <1>5, ttyostartKeeps DEF Kept
<1> QED BY <1>4, <1>5, <1>6, KeptTwice

(* At most three characters are echoed for one. *)
LEMMA eputsKeeps ==
    ASSUME NEW W, WantsOK(W), NEW o, OutOK(o, W), NEW n \in {1, 2, 3}
    PROVE  Kept(o, eputs(o, n), W)
<1> DEFINE g == [k \in 0 .. n |-> IF k = 0 THEN o ELSE IF k = 1 THEN eputc(o)
                                  ELSE IF k = 2 THEN eputc(eputc(o))
                                  ELSE eputc(eputc(eputc(o)))]
<1>1. g = [k \in 0 .. n |-> IF k = 0 THEN o ELSE eputc(g[k - 1])]
  OBVIOUS
<1>2. \E f : f = [k \in 0 .. n |-> IF k = 0 THEN o ELSE eputc(f[k - 1])]
  BY <1>1
<1> HIDE DEF g
<1>3. PICK f : /\ f = [k \in 0 .. n |-> IF k = 0 THEN o ELSE eputc(f[k - 1])]
               /\ eputs(o, n) = f[n]
  BY <1>2 DEF eputs
<1>4. \A k \in 0 .. n : f[k] = IF k = 0 THEN o ELSE eputc(f[k - 1])
  BY <1>3
<1>5. Kept(o, eputc(o), W)
  BY eputcKeeps
<1>6. Kept(o, eputc(eputc(o)), W)
  <2>1. OutOK(eputc(o), W)
    BY <1>5 DEF Kept
  <2> QED BY <1>5, <2>1, eputcKeeps, KeptTwice
<1>7. Kept(o, eputc(eputc(eputc(o))), W)
  <2>1. OutOK(eputc(eputc(o)), W)
    BY <1>6 DEF Kept
  <2> QED BY <1>6, <2>1, eputcKeeps, KeptTwice
<1>8. /\ f[0] = o
      /\ f[1] = eputc(f[0])
      /\ n > 1 => f[2] = eputc(f[1])
      /\ n > 2 => f[3] = eputc(f[2])
  BY <1>4
<1> QED BY <1>3, <1>5, <1>6, <1>7, <1>8

-----------------------------------------------------------------------------
(* The input ring *)

(* The place that is x characters from the start of the ring. *)
Place(x) == x % IBUFLEN

LEMMA PlaceIs ==
    ASSUME NEW x \in Int, - IBUFLEN <= x, x < 2 * IBUFLEN
    PROVE  /\ Place(x) = IF x < 0 THEN x + IBUFLEN
                         ELSE IF x < IBUFLEN THEN x ELSE x - IBUFLEN
           /\ Place(x) \in 0 .. IBUFLEN - 1
<1>1. IBUFLEN \in Nat \ {0} /\ x \in (- IBUFLEN) .. (2 * IBUFLEN - 1)
  BY SemNumbers
<1> QED BY <1>1, Wraps DEF Place, Wrapped

LEMMA Ahead ==
    ASSUME NEW a \in 0 .. IBUFLEN - 1, NEW k \in 0 .. IBUFLEN
    PROVE  /\ Place(a + k) = IF a + k < IBUFLEN THEN a + k ELSE a + k - IBUFLEN
           /\ Place(a + k) \in 0 .. IBUFLEN - 1
<1>1. IBUFLEN \in Nat \ {0} /\ a \in Int /\ k \in Int /\ a + k \in Int
  BY SemNumbers
<1>2. - IBUFLEN <= a + k /\ a + k < 2 * IBUFLEN /\ ~ (a + k < 0)
  BY <1>1
<1>3. /\ Place(a + k) = (IF a + k < 0 THEN a + k + IBUFLEN
                         ELSE IF a + k < IBUFLEN THEN a + k ELSE a + k - IBUFLEN)
      /\ Place(a + k) \in 0 .. IBUFLEN - 1
  BY <1>1, <1>2, PlaceIs
<1> QED BY <1>1, <1>2, <1>3

(* Two walks along the ring make one. *)
LEMMA Onward ==
    ASSUME NEW a \in 0 .. IBUFLEN - 1, NEW k \in 0 .. IBUFLEN, NEW j \in 0 .. IBUFLEN - k
    PROVE  Place(Place(a + k) + j) = Place(a + (k + j))
<1> DEFINE b == Place(a + k)
           c == k + j
<1>1. IBUFLEN \in Nat \ {0} /\ c \in 0 .. IBUFLEN /\ j \in 0 .. IBUFLEN
  BY SemNumbers
<1>2. c = k + j
  OBVIOUS
<1>3. b = (IF a + k < IBUFLEN THEN a + k ELSE a + k - IBUFLEN) /\ b \in 0 .. IBUFLEN - 1
  BY Ahead
<1> HIDE DEF b, c
<1>4. Place(b + j) = IF b + j < IBUFLEN THEN b + j ELSE b + j - IBUFLEN
  BY <1>1, <1>3, Ahead
<1>5. Place(a + c) = IF a + c < IBUFLEN THEN a + c ELSE a + c - IBUFLEN
  BY <1>1, Ahead
<1>6. Place(b + j) = Place(a + c)
  BY <1>1, <1>2, <1>3, <1>4, <1>5
<1> QED BY <1>6 DEF b, c

(* A walk back. *)
LEMMA Backward ==
    ASSUME NEW a \in 0 .. IBUFLEN - 1, NEW k \in 0 .. IBUFLEN, NEW j \in 0 .. k
    PROVE  Place(Place(a + k) - j) = Place(a + (k - j))
<1> DEFINE b == Place(a + k)
           c == k - j
           x == b - j
<1>1. IBUFLEN \in Nat \ {0} /\ c \in 0 .. IBUFLEN /\ j \in 0 .. IBUFLEN
  BY SemNumbers
<1>2. c = k - j
  OBVIOUS
<1>3. b = (IF a + k < IBUFLEN THEN a + k ELSE a + k - IBUFLEN) /\ b \in 0 .. IBUFLEN - 1
  BY Ahead
<1> HIDE DEF b, c
<1>4. x \in Int /\ - IBUFLEN <= x /\ x < 2 * IBUFLEN /\ x = b - j
  BY <1>1, <1>3
<1> HIDE DEF x
<1>5. Place(x) = IF x < 0 THEN x + IBUFLEN ELSE IF x < IBUFLEN THEN x ELSE x - IBUFLEN
  BY <1>4, PlaceIs
<1>6. Place(a + c) = IF a + c < IBUFLEN THEN a + c ELSE a + c - IBUFLEN
  BY <1>1, Ahead
<1>7. Place(x) = Place(a + c)
  BY <1>1, <1>2, <1>3, <1>4, <1>5, <1>6
<1> QED BY <1>7 DEF b, c, x

LEMMA Distinct ==
    ASSUME NEW a \in 0 .. IBUFLEN - 1, NEW k \in 0 .. IBUFLEN - 1, NEW j \in 0 .. IBUFLEN - 1,
           j # k
    PROVE  Place(a + j) # Place(a + k)
<1>1. IBUFLEN \in Nat \ {0} /\ k \in 0 .. IBUFLEN /\ j \in 0 .. IBUFLEN
  BY SemNumbers
<1>2. Place(a + k) = IF a + k < IBUFLEN THEN a + k ELSE a + k - IBUFLEN
  BY <1>1, Ahead
<1>3. Place(a + j) = IF a + j < IBUFLEN THEN a + j ELSE a + j - IBUFLEN
  BY <1>1, Ahead
<1> QED BY <1>1, <1>2, <1>3

(* The ring, of c characters. *)
Ring(h, t, b, c, u) ==
    /\ h \in 0 .. IBUFLEN - 1 /\ t \in 0 .. IBUFLEN - 1
    /\ b \in [0 .. IBUFLEN - 1 -> Chars]
    /\ c \in 0 .. IBUFLEN
    /\ h = Place(t + c)
    /\ u \in Seq(Chars) /\ Len(u) = c
    /\ \A i \in 1 .. c : b[Place(t + (i - 1))] = u[i]

(* A character is stored at the head. *)
LEMMA RingStore ==
    ASSUME NEW h, NEW t, NEW b, NEW c, NEW u, Ring(h, t, b, c, u), c < IBUFLEN, NEW ch \in Chars
    PROVE  Ring((h + 1) % IBUFLEN, t, [b EXCEPT ![h] = ch], c + 1, Append(u, ch))
<1> DEFINE b2 == [b EXCEPT ![h] = ch]
           u2 == Append(u, ch)
           d == c + 1
           h2 == (h + 1) % IBUFLEN
<1>1. /\ IBUFLEN \in Nat \ {0}
      /\ h \in 0 .. IBUFLEN - 1 /\ t \in 0 .. IBUFLEN - 1
      /\ b \in [0 .. IBUFLEN - 1 -> Chars]
      /\ c \in 0 .. IBUFLEN - 1 /\ h = Place(t + c)
      /\ u \in Seq(Chars) /\ Len(u) = c
  BY SemNumbers DEF Ring
<1>2. \A i \in 1 .. c : b[Place(t + (i - 1))] = u[i]
  BY DEF Ring
<1>3. /\ b2 \in [0 .. IBUFLEN - 1 -> Chars] /\ b2[h] = ch
      /\ \A x \in 0 .. IBUFLEN - 1 : x # h => b2[x] = b[x]
  BY <1>1
<1>4. /\ u2 \in Seq(Chars) /\ Len(u2) = d /\ u2[d] = ch
      /\ \A i \in 1 .. c : u2[i] = u[i]
  BY <1>1
<1>5. h2 = Place(t + d) /\ h2 \in 0 .. IBUFLEN - 1
  <2>1. c \in 0 .. IBUFLEN /\ 1 \in 0 .. IBUFLEN - c /\ c + 1 \in 0 .. IBUFLEN
    BY <1>1
  <2>2. Place(Place(t + c) + 1) = Place(t + (c + 1)) /\ Place(t + (c + 1)) \in 0 .. IBUFLEN - 1
    BY <1>1, <2>1, Ahead, Onward
  <2> QED BY <1>1, <2>2 DEF Place
<1>6. d \in 0 .. IBUFLEN /\ d = c + 1
  BY <1>1
<1> HIDE DEF b2, u2, d, h2
<1>7. ASSUME NEW i \in 1 .. d
      PROVE  b2[Place(t + (i - 1))] = u2[i]
  <2>1. CASE i = d
    <3>1. i - 1 = c
      BY <1>1, <1>6, <2>1
    <3> QED BY <1>1, <1>3, <1>4, <2>1, <3>1
  <2>2. CASE i # d
    <3> DEFINE j == i - 1
    <3>1. i \in 1 .. c /\ j \in 0 .. IBUFLEN - 1 /\ j \in 0 .. IBUFLEN /\ j # c
      BY <1>1, <1>6, <2>2
    <3> HIDE DEF j
    <3>2. Place(t + j) # Place(t + c) /\ Place(t + j) \in 0 .. IBUFLEN - 1
      BY <1>1, <3>1, Ahead, Distinct
    <3>3. b2[Place(t + j)] = b[Place(t + j)]
      BY <1>1, <1>3, <3>2
    <3> QED BY <1>2, <1>4, <3>1, <3>3 DEF j
  <2> QED BY <2>1, <2>2
<1>8. Ring(h2, t, b2, d, u2)
  BY <1>1, <1>3, <1>4, <1>5, <1>6, <1>7 DEF Ring
<1> QED BY <1>8 DEF h2, b2, d, u2

(* Characters are taken from the tail. *)
LEMMA RingTake ==
    ASSUME NEW h, NEW t, NEW b, NEW c, NEW u, Ring(h, t, b, c, u), NEW n \in 0 .. c
    PROVE  Ring(h, (t + n) % IBUFLEN, b, c - n, SubSeq(u, n + 1, Len(u)))
<1> DEFINE t2 == (t + n) % IBUFLEN
           u2 == SubSeq(u, n + 1, Len(u))
           d == c - n
<1>1. /\ IBUFLEN \in Nat \ {0}
      /\ h \in 0 .. IBUFLEN - 1 /\ t \in 0 .. IBUFLEN - 1
      /\ b \in [0 .. IBUFLEN - 1 -> Chars]
      /\ c \in 0 .. IBUFLEN /\ h = Place(t + c) /\ n \in 0 .. IBUFLEN
      /\ u \in Seq(Chars) /\ Len(u) = c
  BY SemNumbers DEF Ring
<1>2. \A i \in 1 .. c : b[Place(t + (i - 1))] = u[i]
  BY DEF Ring
<1>3. /\ u2 \in Seq(Chars) /\ Len(u2) = d
      /\ \A i \in 1 .. d : u2[i] = u[n + i]
  BY <1>1
<1>4. d \in 0 .. IBUFLEN /\ d = c - n
  BY <1>1
<1>5. t2 = Place(t + n) /\ t2 \in 0 .. IBUFLEN - 1
  <2>1. Place(t + n) \in 0 .. IBUFLEN - 1
    BY <1>1, Ahead
  <2> QED BY <2>1 DEF Place
<1> HIDE DEF t2, u2, d
<1>6. ASSUME NEW k \in 0 .. d
      PROVE  Place(t2 + k) = Place(t + (n + k))
  <2>1. k \in 0 .. IBUFLEN - n
    BY <1>1, <1>4
  <2> QED BY <1>1, <1>5, <2>1, Onward
<1>7. h = Place(t2 + d)
  <2>1. d \in 0 .. d /\ n + d = c
    BY <1>1, <1>4
  <2> QED BY <1>1, <1>6, <2>1
<1>8. ASSUME NEW i \in 1 .. d
      PROVE  b[Place(t2 + (i - 1))] = u2[i]
  <2>1. i - 1 \in 0 .. d /\ n + i \in 1 .. c /\ n + (i - 1) = (n + i) - 1
    BY <1>1, <1>4
  <2> QED BY <1>2, <1>3, <1>6, <2>1
<1>9. Ring(h, t2, b, d, u2)
  BY <1>1, <1>3, <1>4, <1>5, <1>7, <1>8 DEF Ring
<1> QED BY <1>9 DEF t2, d, u2

(* Characters of the unfinished line are taken back from the head. *)
LEMMA RingBack ==
    ASSUME NEW h, NEW t, NEW b, NEW c, NEW u, Ring(h, t, b, c, u), NEW n \in 0 .. c
    PROVE  Ring((h - n) % IBUFLEN, t, b, c - n, SubSeq(u, 1, Len(u) - n))
<1> DEFINE h2 == (h - n) % IBUFLEN
           u2 == SubSeq(u, 1, Len(u) - n)
           d == c - n
<1>1. /\ IBUFLEN \in Nat \ {0}
      /\ h \in 0 .. IBUFLEN - 1 /\ t \in 0 .. IBUFLEN - 1
      /\ b \in [0 .. IBUFLEN - 1 -> Chars]
      /\ c \in 0 .. IBUFLEN /\ h = Place(t + c)
      /\ u \in Seq(Chars) /\ Len(u) = c
  BY SemNumbers DEF Ring
<1>2. \A i \in 1 .. c : b[Place(t + (i - 1))] = u[i]
  BY DEF Ring
<1>3. /\ u2 \in Seq(Chars) /\ Len(u2) = d
      /\ \A i \in 1 .. d : u2[i] = u[i]
  BY <1>1
<1>4. d \in 0 .. IBUFLEN /\ d = c - n
  BY <1>1
<1>5. h2 = Place(t + d) /\ h2 \in 0 .. IBUFLEN - 1
  <2>1. Place(Place(t + c) - n) = Place(t + (c - n))
    BY <1>1, Backward
  <2>2. Place(t + d) \in 0 .. IBUFLEN - 1
    <3> HIDE DEF d
    <3> QED BY <1>1, <1>4, Ahead
  <2> QED BY <1>1, <2>1, <2>2 DEF Place
<1> HIDE DEF h2, u2, d
<1>6. ASSUME NEW i \in 1 .. d
      PROVE  b[Place(t + (i - 1))] = u2[i]
  <2>1. i \in 1 .. c
    BY <1>1, <1>4
  <2> QED BY <1>2, <1>3, <2>1
<1>7. Ring(h2, t, b, d, u2)
  BY <1>1, <1>3, <1>4, <1>5, <1>6 DEF Ring
<1> QED BY <1>7 DEF h2, d, u2

-----------------------------------------------------------------------------
(* Who is where *)

InputPlaces == {"getc", "nextc", "readWoken"}
ReaderPlaces == InputPlaces \union {"readLater"}

(* The processes that have come to a semaphore and not gone on. *)
InWait == {p \in Proc : pc[p].at \in InputPlaces}
OutWait == {p \in Proc : pc[p].at = "putc"}
Wants == [s \in Sem |-> IF s = isem THEN InWait ELSE IF s = osem THEN OutWait ELSE {}]

PcInv ==
    /\ pc \in [Proc -> [at : {"user", "putc"} \union ReaderPlaces, a : Nat, n : Nat,
                        seq : {0}, to : {""}]]
    /\ \A p \in Proc :
          /\ pc[p].at \in ReaderPlaces => p \in load.readers
          /\ pc[p].at = "putc" => p \in load.writers
          /\ pc[p].at \in {"readLater", "readWoken"} => pc[p].n > 0

(* One reader, and input is only stored where there is room. *)
Bounded == ~ load.overrun /\ \A p, r \in load.readers : p = r

(* The inductive invariant. *)
IInv ==
    /\ load \in Workload /\ Bounded
    /\ imode \in Modes /\ iecho \in BOOLEAN /\ nextsem \in Sem
    /\ icnt \in Nat /\ icursor \in Nat
    /\ Ring(ihead, itail, ibuff, icnt + icursor, unread)
    /\ PcInv
    /\ OutOK(Output, Wants) /\ Floor(Output)
    /\ Account(semaph, isem, Wants) = icnt

LEMMA WantsFacts ==
    /\ WantsOK(Wants)
    /\ Wants[isem] = InWait /\ Wants[osem] = OutWait
BY SemNumbers DEF WantsOK, Wants, InWait, OutWait, InputPlaces

LEMMA IInvFacts ==
    ASSUME IInv
    PROVE  /\ WantsOK(Wants) /\ TableInv(semaph, Wants)
           /\ semaph[isem].used /\ semaph[osem].used
           /\ semaph \in [Sem -> SemRec] /\ out \in OutRec
           /\ Output.out = out /\ Output.sems = semaph
           /\ semaph[isem].cnt \in Int
           /\ semaph[isem].cnt <= icnt /\ icnt \in Nat /\ icursor \in Nat
           /\ Account(semaph, osem, Wants) \in Nat
           /\ load.readers \subseteq Proc /\ load.writers \subseteq Proc
           /\ load.typed \subseteq Chars /\ load.counts \subseteq Nat
<1>1. Output.out = out /\ Output.sems = semaph
  BY DEF Output
<1>2. OutOK(Output, Wants)
  BY DEF IInv
<1>3. /\ out \in OutRec /\ TableInv(semaph, Wants)
      /\ semaph[isem].used /\ semaph[osem].used
  BY <1>1, <1>2 DEF OutOK, OutBut
<1>4. semaph \in [Sem -> SemRec]
  BY <1>3 DEF TableInv, TableOK
<1>5. /\ semaph[isem].cnt \in Int /\ Account(semaph, osem, Wants) \in Nat
      /\ Positive(semaph[isem].cnt) \in Nat
      /\ Cardinality(InWait \ Waiting(semaph, isem)) \in Nat
  BY <1>3, SemNumbers, TableFacts, WantsFacts
<1>6. icnt = Positive(semaph[isem].cnt) + Cardinality(InWait \ Waiting(semaph, isem))
  BY WantsFacts DEF IInv, Account
<1>7. icnt \in Nat /\ icursor \in Nat
  BY DEF IInv
<1>8. semaph[isem].cnt <= Positive(semaph[isem].cnt)
  BY <1>5 DEF Positive
<1>9. semaph[isem].cnt <= icnt
  <2> DEFINE k == Cardinality(InWait \ Waiting(semaph, isem))
             m == Positive(semaph[isem].cnt)
             n == semaph[isem].cnt
  <2>1. k \in Nat /\ m \in Nat /\ n \in Int /\ n <= m /\ icnt = m + k
    BY <1>5, <1>6, <1>8
  <2> HIDE DEF k, m, n
  <2>2. n <= icnt
    BY <2>1
  <2> QED BY <2>2 DEF n
<1>10. /\ load.readers \subseteq Proc /\ load.writers \subseteq Proc
       /\ load.typed \subseteq Chars /\ load.counts \subseteq Nat
  BY DEF IInv, Workload
<1> QED BY <1>1, <1>3, <1>4, <1>5, <1>7, <1>9, <1>10, WantsFacts

(* A process goes to another place. *)
LEMMA Moves ==
    ASSUME PcInv, NEW p \in Proc, NEW place, NEW a \in Nat, NEW n \in Nat,
           Goto(p, At(place, a, n)), load' = load,
           place \in {"user", "putc"} \union ReaderPlaces,
           place \in ReaderPlaces => p \in load.readers,
           place = "putc" => p \in load.writers,
           place \in {"readLater", "readWoken"} => n > 0
    PROVE  /\ PcInv'
           /\ InWait' = IF place \in InputPlaces THEN InWait \cup {p} ELSE InWait \ {p}
           /\ OutWait' = IF place = "putc" THEN OutWait \cup {p} ELSE OutWait \ {p}
<1> DEFINE r == At(place, a, n)
           Frames == [at : {"user", "putc"} \union ReaderPlaces, a : Nat, n : Nat,
                      seq : {0}, to : {""}]
<1>1. r \in Frames /\ r.at = place /\ r.a = a /\ r.n = n
  BY DEF At, Frame
<1>2. pc \in [Proc -> Frames] /\ pc' = [pc EXCEPT ![p] = r]
  BY DEF PcInv, Goto
<1> HIDE DEF r, Frames
<1>3. /\ pc' \in [Proc -> Frames] /\ pc'[p] = r
      /\ \A q \in Proc : q # p => pc'[q] = pc[q]
  BY <1>1, <1>2
<1>4. ASSUME NEW q \in Proc
      PROVE  /\ pc'[q].at \in ReaderPlaces => q \in load'.readers
             /\ pc'[q].at = "putc" => q \in load'.writers
             /\ pc'[q].at \in {"readLater", "readWoken"} => pc'[q].n > 0
  <2>1. CASE q = p
    BY <1>1, <1>3, <2>1
  <2>2. CASE q # p
    BY <1>3, <2>2 DEF PcInv
  <2> QED BY <2>1, <2>2
<1>5. PcInv'
  BY <1>3, <1>4 DEF PcInv, Frames
<1>6. InWait' = {q \in Proc : pc'[q].at \in InputPlaces}
  BY DEF InWait
<1>7. OutWait' = {q \in Proc : pc'[q].at = "putc"}
  BY DEF OutWait
<1>8. InWait' = IF place \in InputPlaces THEN InWait \cup {p} ELSE InWait \ {p}
  BY <1>1, <1>3, <1>6 DEF InWait
<1>9. OutWait' = IF place = "putc" THEN OutWait \cup {p} ELSE OutWait \ {p}
  BY <1>1, <1>3, <1>7 DEF OutWait
<1> QED BY <1>5, <1>8, <1>9

LEMMA Stays ==
    ASSUME PcInv, pc' = pc, load' = load
    PROVE  PcInv' /\ Wants' = Wants
BY DEF PcInv, Wants, InWait, OutWait

LEMMA WantsPrime ==
    /\ WantsOK(Wants')
    /\ InWait' = InWait /\ OutWait' = OutWait => Wants' = Wants
    /\ OutWait' = OutWait => Customers(Wants, Wants', isem, InWait')
    /\ InWait' = InWait => Customers(Wants, Wants', osem, OutWait')
<1>1. Wants' = [s \in Sem |-> IF s = isem THEN InWait' ELSE IF s = osem THEN OutWait' ELSE {}]
  BY DEF Wants, isem, osem, Sem
<1>2. InWait' \subseteq Proc /\ OutWait' \subseteq Proc /\ InWait' \cap OutWait' = {}
  BY DEF InWait, OutWait, InputPlaces
<1>3. WantsOK(Wants')
  BY <1>1, <1>2, SemNumbers DEF WantsOK
<1>4. InWait' = InWait /\ OutWait' = OutWait => Wants' = Wants
  BY <1>1 DEF Wants
<1>5. /\ Wants' \in [Sem -> SUBSET Proc]
      /\ Wants'[isem] = InWait' /\ Wants'[osem] = OutWait'
  BY <1>1, <1>2, SemNumbers
<1>6. /\ OutWait' = OutWait => \A u \in Sem \ {isem} : Wants'[u] = Wants[u]
      /\ InWait' = InWait => \A u \in Sem \ {osem} : Wants'[u] = Wants[u]
  BY <1>1 DEF Wants
<1> QED BY <1>3, <1>4, <1>5, <1>6 DEF Customers

(* A process in user code has come to no semaphore. *)
LEMMA Elsewhere ==
    ASSUME NEW p \in Proc, pc[p].at \in {"user", "readLater"}
    PROVE  Nowhere(p, Wants) /\ p \notin InWait /\ p \notin OutWait
BY DEF Nowhere, Wants, InWait, OutWait, InputPlaces

LEMMA RunsIs ==
    ASSUME semaph \in [Sem -> SemRec], NEW p
    PROVE  Runs(p) <=> \A s \in Sem : p \notin Waiting(semaph, s)
<1>1. ASSUME NEW s \in Sem
      PROVE  Range(semaph[s].queue) = Waiting(semaph, s)
  <2>1. semaph[s].queue \in Seq(Proc)
    BY DEF SemRec
  <2>2. DOMAIN semaph[s].queue = 1 .. Len(semaph[s].queue)
    BY <2>1
  <2> QED BY <2>2 DEF Range, Waiting
<1> QED BY <1>1 DEF Runs, Queued

(* Who has been let through and has not gone on: what the properties count. *)
LEMMA LetThrough ==
    ASSUME TableInv(semaph, Wants), NEW s \in Sem, NEW p \in Wants[s]
    PROVE  Runs(p) <=> p \notin Waiting(semaph, s)
<1>1. semaph \in [Sem -> SemRec]
  BY DEF TableInv, TableOK
<1>2. \A u \in Sem : u # s => p \notin Waiting(semaph, u)
  BY WantsFacts DEF TableInv, WantsOK
<1> QED BY <1>1, <1>2, RunsIs

LEMMA AdmittedIs ==
    ASSUME PcInv, load.writers \subseteq Proc, TableInv(semaph, Wants)
    PROVE  Admitted = OutWait \ Waiting(semaph, osem)
<1>1. ASSUME NEW p \in Admitted
      PROVE  p \in OutWait \ Waiting(semaph, osem)
  <2>1. p \in Proc /\ Runs(p) /\ pc[p].at = "putc"
    BY DEF Admitted, Reached
  <2>2. p \in OutWait /\ p \in Wants[osem]
    BY <2>1, WantsFacts DEF OutWait
  <2> QED BY <2>1, <2>2, SemNumbers, LetThrough
<1>2. ASSUME NEW p \in OutWait \ Waiting(semaph, osem)
      PROVE  p \in Admitted
  <2>1. p \in load.writers /\ pc[p].at = "putc" /\ p \in Wants[osem]
    BY WantsFacts DEF OutWait, PcInv
  <2>2. Runs(p)
    BY <2>1, SemNumbers, LetThrough
  <2> QED BY <2>1, <2>2 DEF Admitted, Reached
<1> QED BY <1>1, <1>2

LEMMA PromptIs ==
    ASSUME IInv
    PROVE  Prompt => Ready(Output, Wants)
<1>1. Admitted = Wants[osem] \ Waiting(Output.sems, osem)
  BY IInvFacts, WantsFacts, AdmittedIs DEF IInv
<1> QED BY <1>1, IInvFacts DEF Prompt, Ready

(* Only the input semaphore changes. *)
LEMMA InputMade ==
    ASSUME NEW W, NEW W2, NEW o, OutOK(o, W), NEW o2, o2.out = o.out,
           o2 \in [out : OutRec, sems : [Sem -> SemRec]],
           TableInv(o2.sems, W2), o2.sems[isem].used,
           o2.sems[osem] = o.sems[osem], W2[osem] = W[osem]
    PROVE  OutOK(o2, W2)
<1>1. Account(o2.sems, osem, W2) = Account(o.sems, osem, W)
  BY AccountSame
<1> QED BY <1>1 DEF OutOK, OutBut

WithTable(o, t) == [o EXCEPT !.sems = t]

(* n signals of the input semaphore, after some output. *)
LEMMA OutputThenSignals ==
    ASSUME NEW W, WantsOK(W), NEW o, NEW o2, Kept(o, o2, W), NEW n \in Nat,
           NEW t2, SignalledBy(o2.sems, t2, isem, W, n),
           NEW o3, o3 = WithTable(o2, t2)
    PROVE  /\ OutOK(o3, W) /\ o3.out = o2.out /\ o3.sems = t2
           /\ Account(o3.sems, isem, W) = Account(o.sems, isem, W) + n
<1>1. OutOK(o2, W) /\ o2.sems[isem] = o.sems[isem]
  BY DEF Kept
<1>2. o2 \in [out : OutRec, sems : [Sem -> SemRec]]
  BY <1>1 DEF OutOK, OutBut
<1>3. /\ TableInv(t2, W) /\ t2[isem].used /\ t2[osem] = o2.sems[osem]
      /\ Account(t2, isem, W) = Account(o2.sems, isem, W) + n
  BY SemNumbers DEF SignalledBy
<1>4. t2 \in [Sem -> SemRec]
  BY <1>3 DEF TableInv, TableOK
<1>5. o3 \in [out : OutRec, sems : [Sem -> SemRec]] /\ o3.out = o2.out /\ o3.sems = t2
  BY <1>2, <1>4 DEF WithTable
<1>6. OutOK(o3, W)
  BY <1>1, <1>3, <1>5, InputMade
<1>7. Account(o2.sems, isem, W) = Account(o.sems, isem, W)
  BY <1>1, AccountSame
<1> QED BY <1>3, <1>5, <1>6, <1>7

LEMMA KeptAccount ==
    ASSUME NEW W, NEW o, NEW o2, Kept(o, o2, W)
    PROVE  Account(o2.sems, isem, W) = Account(o.sems, isem, W)
BY AccountSame DEF Kept

LEMMA signaledOnce ==
    ASSUME NEW W, WantsOK(W), NEW t, TableInv(t, W), t[isem].used
    PROVE  SignalledBy(t, signal(t, isem), isem, W, 1)
BY SemNumbers, SignalKeeps DEF SignalledBy

-----------------------------------------------------------------------------
(* The input interrupt *)

LEMMA Assembled ==
    ASSUME IInv, load' = load, nextsem' = nextsem, imode' \in Modes, iecho' \in BOOLEAN,
           icnt' \in Nat, icursor' \in Nat,
           Ring(ihead', itail', ibuff', icnt' + icursor', unread'),
           PcInv', OutOK(Output', Wants'), Account(semaph', isem, Wants') = icnt',
           load.late \/ out'.unsent >= 0
    PROVE  IInv'
BY DEF IInv, Bounded, Floor, Output

(* Input and output change, the processes stay where they are. *)
LEMMA Interrupt ==
    ASSUME IInv, UNCHANGED <<modeVars, nextsem, pc, load>>,
           NEW o, OutputIs(o), OutOK(o, Wants), Floor(o),
           icnt' \in Nat, icursor' \in Nat,
           Account(o.sems, isem, Wants) = icnt',
           Ring(ihead', itail', ibuff', icnt' + icursor', unread')
    PROVE  IInv'
<1>1. PcInv' /\ Wants' = Wants
  BY Stays DEF IInv
<1>2. o \in [out : OutRec, sems : [Sem -> SemRec]]
  BY DEF OutOK, OutBut
<1>3. out' = o.out /\ semaph' = o.sems
  BY DEF OutputIs
<1>4. Output' = o
  BY <1>2, <1>3 DEF Output
<1>5. OutOK(Output', Wants') /\ Account(semaph', isem, Wants') = icnt'
  BY <1>1, <1>3, <1>4
<1>6. imode' \in Modes /\ iecho' \in BOOLEAN /\ load' = load /\ nextsem' = nextsem
  BY DEF IInv, modeVars
<1> QED BY <1>1, <1>3, <1>5, <1>6, Assembled DEF Floor

(* Only output changes. *)
LEMMA OutputOnly ==
    ASSUME IInv, Due(Output, Wants), UNCHANGED <<modeVars, nextsem, pc, load>>, UNCHANGED inVars,
           NEW o, OutputIs(o), Kept(Output, o, Wants)
    PROVE  IInv'
<1>1. Account(o.sems, isem, Wants) = icnt
  BY KeptAccount, IInvFacts DEF IInv
<1>2. /\ icnt' = icnt /\ icursor' = icursor /\ ihead' = ihead /\ itail' = itail
      /\ ibuff' = ibuff /\ unread' = unread
  BY DEF inVars
<1>3. /\ icnt' \in Nat /\ icursor' \in Nat
      /\ Ring(ihead', itail', ibuff', icnt' + icursor', unread')
      /\ Account(o.sems, isem, Wants) = icnt'
  BY <1>1, <1>2 DEF IInv
<1> QED BY <1>3, Interrupt DEF Kept, IInv

LEMMA UnheldKept ==
    ASSUME IInv, NEW held \in BOOLEAN
    PROVE  /\ Kept(Output, Unheld, Wants) /\ OutOK(Unheld, Wants)
           /\ Kept(Output, [Output EXCEPT !.out.oheld = held], Wants)
<1>1. ASSUME NEW b \in BOOLEAN
      PROVE  Kept(Output, [Output EXCEPT !.out.oheld = b], Wants)
  <2> DEFINE o == [Output EXCEPT !.out.oheld = b]
  <2>1. OutOK(Output, Wants)
    BY DEF IInv
  <2>2. Output \in [out : OutRec, sems : [Sem -> SemRec]]
    BY <2>1 DEF OutOK, OutBut
  <2>3. /\ o \in [out : OutRec, sems : [Sem -> SemRec]] /\ o.sems = Output.sems
        /\ o.out.ohead = Output.out.ohead /\ o.out.otail = Output.out.otail
        /\ o.out.odsend = Output.out.odsend /\ o.out.unsent = Output.out.unsent
        /\ o.out.tx = Output.out.tx
    BY <2>2 DEF OutRec
  <2> HIDE DEF o
  <2>4. Kept(Output, o, Wants)
    BY <2>1, <2>3, SwitchesKeep
  <2> QED BY <2>4 DEF o
<1>2. Kept(Output, Unheld, Wants)
  BY <1>1 DEF Unheld
<1> QED BY <1>1, <1>2 DEF Kept

LEMMA echochKeeps ==
    ASSUME NEW W, WantsOK(W), NEW o, OutOK(o, W), NEW ch
    PROVE  Kept(o, echoch(o, ch), W) /\ OutOK(echoch(o, ch), W)
<1>1. EchoLen(ch) \in {1, 2, 3}
  BY DEF EchoLen
<1>2. Kept(o, eputs(o, EchoLen(ch)), W)
  BY <1>1, eputsKeeps
<1>3. Kept(o, o, W)
  BY DEF Kept
<1>4. Kept(o, echoch(o, ch), W)
  BY <1>2, <1>3 DEF echoch
<1> QED BY <1>4 DEF Kept

(* A character is stored. *)
LEMMA Stored ==
    ASSUME IInv, NEW ch \in Chars, Store(ch), itail' = itail,
           icnt' \in Nat, icursor' \in Nat, icnt' + icursor' = icnt + icursor + 1
    PROVE  Ring(ihead', itail', ibuff', icnt' + icursor', unread')
<1> DEFINE c == icnt + icursor
<1>1. Ring(ihead, itail, ibuff, c, unread) /\ c < IBUFLEN
  BY DEF IInv, Bounded, Store
<1>2. icnt' + icursor' = c + 1
  OBVIOUS
<1>3. /\ ibuff' = [ibuff EXCEPT ![ihead] = ch]
      /\ ihead' = (ihead + 1) % IBUFLEN
      /\ unread' = Append(unread, ch)
  BY DEF Store
<1> HIDE DEF c
<1>4. Ring((ihead + 1) % IBUFLEN, itail, [ibuff EXCEPT ![ihead] = ch], c + 1, Append(unread, ch))
  BY <1>1, RingStore
<1> QED BY <1>2, <1>3, <1>4

(* Output, then n signals for the characters of the lines that have ended. *)
LEMMA StoredAndSignalled ==
    ASSUME IInv, Due(Output, Wants), UNCHANGED <<modeVars, nextsem, pc, load>>,
           NEW o, Kept(Output, o, Wants),
           NEW n \in Nat, NEW t2, SignalledBy(o.sems, t2, isem, Wants, n),
           OutputIs([o EXCEPT !.sems = t2]),
           icnt' = icnt + n, icursor' \in Nat,
           Ring(ihead', itail', ibuff', icnt' + icursor', unread')
    PROVE  IInv'
<1> DEFINE o3 == [o EXCEPT !.sems = t2]
<1>1. o3 = WithTable(o, t2) /\ OutputIs(o3)
  BY DEF WithTable
<1> HIDE DEF o3
<1>2. /\ WantsOK(Wants) /\ Output.sems = semaph /\ icnt \in Nat
      /\ Account(semaph, isem, Wants) = icnt
  BY IInvFacts DEF IInv
<1>3. OutOK(o3, Wants) /\ Account(o3.sems, isem, Wants) = Account(Output.sems, isem, Wants) + n
  BY <1>1, <1>2, OutputThenSignals
<1>4. Account(o3.sems, isem, Wants) = icnt' /\ icnt' \in Nat
  BY <1>2, <1>3
<1>5. Floor(o3)
  <2>1. o3.out = o.out
    BY <1>1, <1>2, OutputThenSignals
  <2> QED BY <2>1 DEF Kept, Floor, IInv
<1> QED BY <1>1, <1>3, <1>4, <1>5, Interrupt

LEMMA TableOf ==
    ASSUME NEW W, NEW o, OutOK(o, W)
    PROVE  /\ TableInv(o.sems, W) /\ o.sems[isem].used /\ o.sems[osem].used
           /\ o \in [out : OutRec, sems : [Sem -> SemRec]]
BY DEF OutOK, OutBut

LEMMA rawKeeps ==
    ASSUME IInv, Due(Output, Wants), NEW ch \in Chars, rawInput(ch), UNCHANGED <<modeVars, nextsem, pc, load>>
    PROVE  IInv'
<1>1. /\ Store(ch) /\ icnt' = icnt + 1 /\ semaph' = signal(semaph, isem)
      /\ itail' = itail /\ icursor' = icursor /\ out' = out
  BY DEF rawInput
<1>2. icnt \in Nat /\ icursor \in Nat /\ WantsOK(Wants) /\ OutOK(Output, Wants)
  BY IInvFacts DEF IInv
<1>3. Ring(ihead', itail', ibuff', icnt' + icursor', unread')
  <2>1. icnt' \in Nat /\ icursor' \in Nat /\ icnt' + icursor' = icnt + icursor + 1
    BY <1>1, <1>2
  <2> QED BY <1>1, <2>1, Stored
<1> DEFINE t2 == signal(semaph, isem)
<1>4. SignalledBy(Output.sems, t2, isem, Wants, 1)
  BY IInvFacts, signaledOnce
<1> HIDE DEF t2
<1>5. Kept(Output, Output, Wants)
  BY <1>2 DEF Kept
<1>6. OutputIs([Output EXCEPT !.sems = t2])
  BY <1>1 DEF t2, OutputIs, Output
<1>7. icursor' \in Nat
  BY <1>1, <1>2
<1> QED BY <1>1, <1>3, <1>4, <1>5, <1>6, <1>7, StoredAndSignalled

LEMMA flowKeeps ==
    ASSUME IInv, Due(Output, Wants), NEW ch \in Chars, flowInput(ch), UNCHANGED <<modeVars, nextsem, pc, load>>
    PROVE  IInv'
<1>1. /\ OutputIs(IF ch = "START" THEN Resumed ELSE [Output EXCEPT !.out.oheld = TRUE])
      /\ UNCHANGED inVars
  BY DEF flowInput
<1>2. Kept(Output, Resumed, Wants)
  <2>1. Kept(Unheld, ttyostart(Unheld), Wants)
    BY UnheldKept, WantsFacts, ttyostartKeeps
  <2> QED BY <2>1, UnheldKept, KeptTwice DEF Resumed
<1>3. Kept(Output, [Output EXCEPT !.out.oheld = TRUE], Wants)
  BY UnheldKept
<1> QED BY <1>1, <1>2, <1>3, OutputOnly

(* The bell: one character of echo and nothing else. *)
LEMMA bellKeeps ==
    ASSUME IInv, Due(Output, Wants), OutputIs(eputc(Unheld)), UNCHANGED inVars,
           UNCHANGED <<modeVars, nextsem, pc, load>>
    PROVE  IInv'
<1>1. Kept(Unheld, eputc(Unheld), Wants)
  BY UnheldKept, WantsFacts, eputcKeeps
<1>2. Kept(Output, eputc(Unheld), Wants)
  BY <1>1, UnheldKept, KeptTwice
<1> QED BY <1>2, OutputOnly

LEMMA cbreakKeeps ==
    ASSUME IInv, Due(Output, Wants), NEW ch \in Chars, cbreakInput(ch), UNCHANGED <<modeVars, nextsem, pc, load>>
    PROVE  IInv'
<1>1. CASE icnt >= IBUFLEN
  <2>1. OutputIs(eputc(Unheld)) /\ UNCHANGED inVars
    BY <1>1 DEF cbreakInput
  <2> QED BY <2>1, bellKeeps
<1>2. CASE ~ icnt >= IBUFLEN
  <2> DEFINE o == echoch(Unheld, ch)
             t2 == signal(o.sems, isem)
  <2>1. /\ Store(ch) /\ icnt' = icnt + 1
        /\ OutputIs([o EXCEPT !.sems = t2])
        /\ itail' = itail /\ icursor' = icursor
    BY <1>2 DEF cbreakInput
  <2>2. Kept(Unheld, o, Wants) /\ OutOK(o, Wants)
    BY UnheldKept, WantsFacts, echochKeeps
  <2>3. Kept(Output, o, Wants)
    BY <2>2, UnheldKept, KeptTwice
  <2> HIDE DEF o
  <2>4. SignalledBy(o.sems, t2, isem, Wants, 1)
    BY <2>2, TableOf, WantsFacts, signaledOnce
  <2> HIDE DEF t2
  <2>5. /\ icnt' \in Nat /\ icursor' \in Nat /\ icnt' + icursor' = icnt + icursor + 1
    BY <2>1 DEF IInv
  <2>6. Ring(ihead', itail', ibuff', icnt' + icursor', unread')
    BY <2>1, <2>5, Stored
  <2> QED BY <2>1, <2>3, <2>4, <2>5, <2>6, StoredAndSignalled
<1> QED BY <1>1, <1>2

(* n characters of the unfinished line are taken back. *)
LEMMA TakenBack ==
    ASSUME IInv, NEW n \in 0 .. icursor,
           ihead' = (ihead - n) % IBUFLEN, icursor' = icursor - n,
           unread' = SubSeq(unread, 1, Len(unread) - n),
           UNCHANGED <<itail, ibuff, icnt>>
    PROVE  /\ icursor' \in Nat /\ icnt' \in Nat
           /\ Ring(ihead', itail', ibuff', icnt' + icursor', unread')
<1> DEFINE c == icnt + icursor
<1>1. icnt \in Nat /\ icursor \in Nat /\ Ring(ihead, itail, ibuff, c, unread)
  BY DEF IInv
<1>2. /\ icursor' \in Nat /\ icnt' \in Nat /\ icnt' + icursor' = c - n
      /\ n \in 0 .. c
  BY <1>1
<1> HIDE DEF c
<1>3. Ring((ihead - n) % IBUFLEN, itail, ibuff, c - n, SubSeq(unread, 1, Len(unread) - n))
  BY <1>1, <1>2, RingBack
<1> QED BY <1>2, <1>3

LEMMA cookedEditKeeps ==
    ASSUME IInv, Due(Output, Wants), cookedKill \/ cookedErase, UNCHANGED <<modeVars, nextsem, pc, load>>
    PROVE  IInv'
<1>1. icnt \in Nat /\ icursor \in Nat /\ Account(semaph, isem, Wants) = icnt
  BY DEF IInv
<1>2. ASSUME NEW o, OutputIs(o), Kept(Output, o, Wants),
             icursor' \in Nat, icnt' = icnt,
             Ring(ihead', itail', ibuff', icnt' + icursor', unread')
      PROVE  IInv'
  <2>1. Account(o.sems, isem, Wants) = icnt' /\ icnt' \in Nat
    BY <1>1, <1>2, IInvFacts, KeptAccount
  <2> QED BY <1>2, <2>1, Interrupt DEF Kept, IInv
<1>3. CASE cookedKill
  <2> DEFINE o == eputs(Unheld, 2)
  <2>1. /\ ihead' = (ihead - icursor) % IBUFLEN /\ icursor' = icursor - icursor
        /\ unread' = SubSeq(unread, 1, Len(unread) - icursor)
        /\ OutputIs(o) /\ UNCHANGED <<itail, ibuff, icnt>>
    BY <1>1, <1>3 DEF cookedKill, KillLine
  <2>2. icursor \in 0 .. icursor
    BY <1>1
  <2>3. /\ icursor' \in Nat /\ icnt' \in Nat
        /\ Ring(ihead', itail', ibuff', icnt' + icursor', unread')
    BY <2>1, <2>2, TakenBack
  <2>4. Kept(Unheld, o, Wants)
    BY UnheldKept, WantsFacts, eputsKeeps
  <2>5. Kept(Output, o, Wants)
    BY <2>4, UnheldKept, KeptTwice
  <2> HIDE DEF o
  <2> QED BY <1>2, <2>1, <2>3, <2>5
<1>4. CASE cookedErase /\ icursor = 0
  <2>1. OutputIs(Unheld) /\ UNCHANGED inVars
    BY <1>4 DEF cookedErase
  <2> QED BY <2>1, UnheldKept, OutputOnly
<1>5. CASE cookedErase /\ icursor # 0
  <2> DEFINE o == IF iecho THEN eputs(Unheld, 3) ELSE ttyostart(Unheld)
  <2>1. /\ ihead' = (ihead - 1) % IBUFLEN /\ icursor' = icursor - 1
        /\ unread' = SubSeq(unread, 1, Len(unread) - 1)
        /\ OutputIs(o) /\ UNCHANGED <<itail, ibuff, icnt>>
    BY <1>5 DEF cookedErase, Front
  <2>2. 1 \in 0 .. icursor
    BY <1>1, <1>5
  <2>3. /\ icursor' \in Nat /\ icnt' \in Nat
        /\ Ring(ihead', itail', ibuff', icnt' + icursor', unread')
    BY <2>1, <2>2, TakenBack
  <2>4. Kept(Unheld, o, Wants)
    <3>1. Kept(Unheld, eputs(Unheld, 3), Wants) /\ Kept(Unheld, ttyostart(Unheld), Wants)
      BY UnheldKept, WantsFacts, eputsKeeps, ttyostartKeeps
    <3> QED BY <3>1
  <2>5. Kept(Output, o, Wants)
    BY <2>4, UnheldKept, KeptTwice
  <2> HIDE DEF o
  <2> QED BY <1>2, <2>1, <2>3, <2>5
<1> QED BY <1>3, <1>4, <1>5

LEMMA cookedEndLineKeeps ==
    ASSUME IInv, Due(Output, Wants), NEW ch \in Chars, cookedEndLine(ch), UNCHANGED <<modeVars, nextsem, pc, load>>
    PROVE  IInv'
<1> DEFINE o == IF ch = "EOF" THEN echoch(echoch(Unheld, ch), "NEWLINE") ELSE echoch(Unheld, ch)
           n == icursor + 1
           t2 == signaln(o.sems, isem, n)
<1>1. /\ Store(ch) /\ icnt' = icnt + icursor + 1 /\ icursor' = 0
      /\ OutputIs([o EXCEPT !.sems = t2]) /\ itail' = itail
  BY DEF cookedEndLine
<1>2. Kept(Unheld, o, Wants) /\ OutOK(o, Wants)
  <2>1. Kept(Unheld, echoch(Unheld, ch), Wants) /\ OutOK(echoch(Unheld, ch), Wants)
    BY UnheldKept, WantsFacts, echochKeeps
  <2>2. /\ Kept(echoch(Unheld, ch), echoch(echoch(Unheld, ch), "NEWLINE"), Wants)
        /\ OutOK(echoch(echoch(Unheld, ch), "NEWLINE"), Wants)
    BY <2>1, WantsFacts, echochKeeps
  <2>3. Kept(Unheld, echoch(echoch(Unheld, ch), "NEWLINE"), Wants)
    BY <2>1, <2>2, KeptTwice
  <2> QED BY <2>1, <2>2, <2>3
<1>3. Kept(Output, o, Wants)
  BY <1>2, UnheldKept, KeptTwice
<1>4. icnt \in Nat /\ icursor \in Nat /\ n \in Nat
  BY DEF IInv
<1> HIDE DEF o
<1>5. SignalledBy(o.sems, t2, isem, Wants, n)
  BY <1>2, <1>4, TableOf, WantsFacts, SemNumbers, SignalsKeep
<1>6. /\ icnt' = icnt + n /\ icnt' \in Nat /\ icursor' \in Nat
      /\ icnt' + icursor' = icnt + icursor + 1
  BY <1>1, <1>4
<1> HIDE DEF n, t2
<1>7. Ring(ihead', itail', ibuff', icnt' + icursor', unread')
  BY <1>1, <1>6, Stored
<1> QED BY <1>1, <1>3, <1>4, <1>5, <1>6, <1>7, StoredAndSignalled

LEMMA cookedOrdinaryKeeps ==
    ASSUME IInv, Due(Output, Wants), cookedOrdinary, UNCHANGED <<modeVars, nextsem, pc, load>>
    PROVE  IInv'
<1>1. CASE Positive(icnt) + icursor >= IBUFLEN - 1
  <2>1. OutputIs(eputc(Unheld)) /\ UNCHANGED inVars
    BY <1>1 DEF cookedOrdinary
  <2> QED BY <2>1, bellKeeps
<1>2. CASE ~ Positive(icnt) + icursor >= IBUFLEN - 1
  <2> DEFINE o == echoch(Unheld, "x")
  <2>1. /\ Store("x") /\ icursor' = icursor + 1
        /\ OutputIs(o) /\ itail' = itail /\ icnt' = icnt
    BY <1>2 DEF cookedOrdinary
  <2>2. Kept(Unheld, o, Wants) /\ OutOK(o, Wants)
    BY UnheldKept, WantsFacts, echochKeeps
  <2>3. Kept(Output, o, Wants)
    BY <2>2, UnheldKept, KeptTwice
  <2> HIDE DEF o
  <2>4. icnt \in Nat /\ icursor \in Nat /\ Account(semaph, isem, Wants) = icnt
    BY DEF IInv
  <2>5. icnt' \in Nat /\ icursor' \in Nat /\ icnt' + icursor' = icnt + icursor + 1
    BY <2>1, <2>4
  <2>6. Ring(ihead', itail', ibuff', icnt' + icursor', unread')
    <3>1. "x" \in Chars
      BY DEF Chars
    <3> QED BY <2>1, <2>5, <3>1, Stored
  <2>7. Account(o.sems, isem, Wants) = icnt'
    BY <2>1, <2>3, <2>4, IInvFacts, KeptAccount
  <2>8. Floor(o)
    BY <2>3 DEF Kept, IInv
  <2> QED BY <2>1, <2>2, <2>5, <2>6, <2>7, <2>8, Interrupt
<1> QED BY <1>1, <1>2

LEMMA ttyiinKeeps ==
    ASSUME IInv, NEW ch \in Chars, ttyiin(ch)
    PROVE  IInv'
<1>1. UNCHANGED <<modeVars, nextsem, pc, load>> /\ Due(Output, Wants)
  BY IInvFacts, PromptIs DEF ttyiin, Due
<1>2. CASE rawInput(ch)
  BY <1>1, <1>2, rawKeeps
<1>3. CASE flowInput(ch)
  BY <1>1, <1>3, flowKeeps
<1>4. CASE cbreakInput(ch)
  BY <1>1, <1>4, cbreakKeeps
<1>5. CASE cookedKill \/ cookedErase
  BY <1>1, <1>5, cookedEditKeeps
<1>6. CASE cookedEndLine(ch)
  BY <1>1, <1>6, cookedEndLineKeeps
<1>7. CASE cookedOrdinary
  BY <1>1, <1>7, cookedOrdinaryKeeps
<1> QED BY <1>2, <1>3, <1>4, <1>5, <1>6, <1>7 DEF ttyiin, cookedInput

(* The output interrupt. *)
LEMMA transmitKeeps ==
    ASSUME IInv, transmit
    PROVE  IInv'
<1>1. /\ OutputIs(ttyoin(Output)) /\ UNCHANGED inVars
      /\ UNCHANGED <<modeVars, nextsem, pc, load>>
  BY DEF transmit
<1>2. Ready(Output, Wants) /\ Due(Output, Wants) /\ Output.out.tx
  BY IInvFacts, PromptIs DEF transmit, Due
<1>3. Kept(Output, ttyoin(Output), Wants)
  BY <1>2, WantsFacts, ttyoinKeeps DEF IInv, Kept
<1> QED BY <1>1, <1>2, <1>3, OutputOnly

-----------------------------------------------------------------------------
(* The upper half *)

(* What a read takes is no more than it looked at. *)
LEMMA TakenIs ==
    ASSUME NEW n \in Nat, NEW from \in Nat \ {0}, NEW x
    PROVE  Taken(n, from, x = 0) \in 0 .. n
<1> DEFINE ends == {i \in from .. n : Peek(i) = "NEWLINE"}
           eofs == {i \in 1 .. n : Peek(i) = "EOF"}
           stops == ends \union {IF i = 1 /\ x = 0 THEN 1 ELSE i - 1 : i \in eofs}
<1>1. ends \subseteq 0 .. n
  OBVIOUS
<1>2. {IF i = 1 /\ x = 0 THEN 1 ELSE i - 1 : i \in eofs} \subseteq 0 .. n
  <2>1. ASSUME NEW i \in 1 .. n
        PROVE  (IF i = 1 /\ x = 0 THEN 1 ELSE i - 1) \in 0 .. n
    OBVIOUS
  <2> QED BY <2>1
<1>3. stops \subseteq 0 .. n /\ stops \in SUBSET Nat
  BY <1>1, <1>2
<1>4. Taken(n, from, x = 0) = IF stops = {} THEN n ELSE Min(stops)
  BY DEF Taken
<1> HIDE DEF stops
<1>5. CASE stops = {}
  BY <1>4, <1>5
<1>6. CASE stops # {}
  BY <1>3, <1>4, <1>6, MinElement
<1> QED BY <1>5, <1>6

LEMMA Took ==
    ASSUME IInv, NEW n \in 0 .. icnt, Take(n)
    PROVE  /\ icnt' = icnt - n /\ icnt' \in Nat /\ icursor' \in Nat
           /\ Ring(ihead', itail', ibuff', icnt' + icursor', unread')
<1> DEFINE c == icnt + icursor
<1>1. icnt \in Nat /\ icursor \in Nat /\ Ring(ihead, itail, ibuff, c, unread)
  BY DEF IInv
<1>2. /\ itail' = (itail + n) % IBUFLEN /\ icnt' = icnt - n
      /\ unread' = SubSeq(unread, n + 1, Len(unread))
      /\ ihead' = ihead /\ ibuff' = ibuff /\ icursor' = icursor
  BY DEF Take
<1>3. /\ icnt' \in Nat /\ icursor' \in Nat /\ icnt' + icursor' = c - n
      /\ n \in 0 .. c
  BY <1>1, <1>2
<1> HIDE DEF c
<1>4. Ring(ihead, (itail + n) % IBUFLEN, ibuff, c - n, SubSeq(unread, n + 1, Len(unread)))
  BY <1>1, <1>3, RingTake
<1> QED BY <1>2, <1>3, <1>4

(* The input semaphore, the ring and the processes change. *)
LEMMA InputCall ==
    ASSUME IInv, UNCHANGED <<modeVars, nextsem, load>>, out' = out,
           TableInv(semaph', Wants'), semaph'[isem].used,
           semaph'[osem] = semaph[osem], OutWait' = OutWait, PcInv',
           icnt' \in Nat, icursor' \in Nat,
           Ring(ihead', itail', ibuff', icnt' + icursor', unread'),
           Account(semaph', isem, Wants') = icnt'
    PROVE  IInv'
<1>1. OutOK(Output, Wants) /\ Output \in [out : OutRec, sems : [Sem -> SemRec]]
  BY TableOf DEF IInv
<1> DEFINE o2 == [out |-> out, sems |-> semaph']
<1>2. /\ Output' = o2 /\ o2.out = Output.out /\ o2.sems = semaph'
      /\ o2.sems[osem] = Output.sems[osem]
  BY DEF Output
<1>3. o2 \in [out : OutRec, sems : [Sem -> SemRec]]
  BY <1>1 DEF TableInv, TableOK, Output
<1>4. Wants'[osem] = Wants[osem]
  BY SemNumbers, WantsPrime DEF Customers
<1> HIDE DEF o2
<1>5. OutOK(Output', Wants')
  BY <1>1, <1>2, <1>3, <1>4, InputMade
<1>6. load' = load /\ nextsem' = nextsem /\ imode' \in Modes /\ iecho' \in BOOLEAN
  BY DEF modeVars, IInv
<1>7. load.late \/ out'.unsent >= 0
  BY DEF IInv, Floor, Output
<1> QED BY <1>5, <1>6, <1>7, Assembled

(* A reader waits. *)
LEMMA BlocksIn ==
    ASSUME IInv, UNCHANGED <<modeVars, nextsem, load>>,
           NEW p \in load.readers, pc[p].at \in {"user", "readLater"},
           NEW place \in InputPlaces, NEW a \in Nat, NEW n \in Nat,
           place = "readWoken" => n > 0,
           Blocks(p, isem, At(place, a, n))
    PROVE  IInv'
<1>1. /\ ~ semaph[isem].cnt > 0 /\ semaph' = wait(semaph, isem, p)
      /\ Goto(p, At(place, a, n)) /\ UNCHANGED inVars /\ out' = out
  BY DEF Blocks, Passes
<1>2. /\ p \in Proc /\ WantsOK(Wants) /\ TableInv(semaph, Wants) /\ semaph[isem].used
      /\ semaph[isem].cnt <= 0
  BY <1>1, IInvFacts
<1>3. Nowhere(p, Wants) /\ p \notin OutWait
  BY <1>2, Elsewhere
<1>4. PcInv' /\ InWait' = InWait \cup {p} /\ OutWait' = OutWait
  <2>1. /\ place \in {"user", "putc"} \union ReaderPlaces /\ place # "putc"
        /\ place \in {"readLater", "readWoken"} => n > 0
    BY DEF InputPlaces, ReaderPlaces
  <2>2. /\ PcInv'
        /\ InWait' = IF place \in InputPlaces THEN InWait \cup {p} ELSE InWait \ {p}
        /\ OutWait' = IF place = "putc" THEN OutWait \cup {p} ELSE OutWait \ {p}
    BY <1>1, <1>2, <2>1, Moves DEF IInv
  <2> QED BY <1>3, <2>1, <2>2
<1>5. Customers(Wants, Wants', isem, Wants[isem] \cup {p})
  BY <1>4, WantsPrime, WantsFacts
<1>6. /\ TableInv(semaph', Wants') /\ semaph'[isem].used
      /\ semaph'[osem] = semaph[osem]
      /\ Account(semaph', isem, Wants') = Account(semaph, isem, Wants)
  <2>1. isem \in Sem /\ osem \in Sem \ {isem}
    BY SemNumbers
  <2>2. /\ TableInv(semaph', Wants') /\ semaph'[isem].used
        /\ \A u \in Sem \ {isem} : semaph'[u] = semaph[u] /\ Wants'[u] = Wants[u]
        /\ Account(semaph', isem, Wants') = Account(semaph, isem, Wants)
    <3>1. Entered(semaph, semaph', isem, Wants, Wants')
      BY <1>1, <1>2, <1>3, <1>5, <2>1, EnterKeeps
    <3> QED BY <3>1 DEF Entered
  <2> QED BY <2>1, <2>2
<1>7. /\ icnt' \in Nat /\ icursor' \in Nat
      /\ Ring(ihead', itail', ibuff', icnt' + icursor', unread')
      /\ Account(semaph', isem, Wants') = icnt'
  BY <1>1, <1>6 DEF IInv, inVars
<1> QED BY <1>1, <1>4, <1>6, <1>7, InputCall

(* A reader that was let through goes on. *)
LEMMA GoesOn ==
    ASSUME IInv, load' = load, NEW p \in InWait, Runs(p),
           NEW place \in {"user", "readLater"}, NEW a \in Nat, NEW n \in Nat,
           place = "readLater" => n > 0 /\ p \in load.readers,
           Goto(p, At(place, a, n))
    PROVE  /\ PcInv' /\ OutWait' = OutWait
           /\ Customers(Wants, Wants', isem, Wants[isem] \ {p})
           /\ TableInv(semaph, Wants')
           /\ Account(semaph, isem, Wants') = icnt - 1 /\ icnt >= 1
<1>1. p \in Proc /\ p \notin OutWait
  BY DEF InWait, OutWait, InputPlaces
<1>2. PcInv' /\ InWait' = InWait \ {p} /\ OutWait' = OutWait
  <2>1. /\ place \in {"user", "putc"} \union ReaderPlaces /\ place # "putc"
        /\ place \notin InputPlaces
        /\ place \in ReaderPlaces => p \in load.readers
        /\ place \in {"readLater", "readWoken"} => n > 0
    BY DEF InputPlaces, ReaderPlaces
  <2>2. /\ PcInv'
        /\ InWait' = IF place \in InputPlaces THEN InWait \cup {p} ELSE InWait \ {p}
        /\ OutWait' = IF place = "putc" THEN OutWait \cup {p} ELSE OutWait \ {p}
    BY <1>1, <2>1, Moves DEF IInv
  <2> QED BY <1>1, <2>1, <2>2
<1>3. Customers(Wants, Wants', isem, Wants[isem] \ {p})
  BY <1>2, WantsPrime, WantsFacts
<1>4. p \in Wants[isem] /\ p \notin Waiting(semaph, isem)
  <2>1. p \in Wants[isem]
    BY WantsFacts
  <2> QED BY <2>1, IInvFacts, SemNumbers, LetThrough
<1>5. /\ TableInv(semaph, Wants')
      /\ Account(semaph, isem, Wants') = Account(semaph, isem, Wants) - 1
      /\ Account(semaph, isem, Wants) >= 1
  <2>1. WantsOK(Wants) /\ TableInv(semaph, Wants) /\ isem \in Sem
    BY IInvFacts, SemNumbers
  <2> QED BY <1>3, <1>4, <2>1, LeaveKeeps
<1>6. Account(semaph, isem, Wants) = icnt
  BY DEF IInv
<1> QED BY <1>2, <1>3, <1>5, <1>6

(* A reader takes n tokens and n characters, and waits nowhere afterwards. *)
LEMMA TakesBoth ==
    ASSUME IInv, UNCHANGED <<modeVars, nextsem, load>>, out' = out,
           NEW n \in Nat, n <= semaph[isem].cnt,
           Take(n), semaph' = Tokens(isem, n),
           PcInv', Wants' = Wants, OutWait' = OutWait
    PROVE  IInv'
<1>1. /\ WantsOK(Wants) /\ TableInv(semaph, Wants) /\ semaph[isem].used
      /\ semaph[isem].cnt \in Int /\ semaph[isem].cnt <= icnt /\ icnt \in Nat
      /\ Account(semaph, isem, Wants) = icnt
  BY IInvFacts DEF IInv
<1>2. /\ icnt' = icnt - n /\ icnt' \in Nat /\ icursor' \in Nat
      /\ Ring(ihead', itail', ibuff', icnt' + icursor', unread')
  <2>1. n \in 0 .. icnt
    BY <1>1
  <2> QED BY <2>1, Took
<1>3. semaph' = Less(semaph, isem, n)
  BY DEF Tokens, Less
<1>4. /\ TableInv(semaph', Wants) /\ semaph'[isem].used
      /\ semaph'[osem] = semaph[osem]
      /\ Account(semaph', isem, Wants) = Account(semaph, isem, Wants) - n
  BY <1>1, <1>3, SemNumbers, TokensKeep
<1>5. /\ TableInv(semaph', Wants')
      /\ Account(semaph', isem, Wants') = icnt'
  BY <1>1, <1>2, <1>4
<1> QED BY <1>2, <1>4, <1>5, InputCall

LEMMA Sits ==
    ASSUME PcInv, pc' = pc, load' = load
    PROVE  PcInv' /\ Wants' = Wants /\ InWait' = InWait /\ OutWait' = OutWait
BY Stays DEF InWait, OutWait

(* A reader that waits nowhere goes to a place where it waits nowhere. *)
LEMMA Passing ==
    ASSUME IInv, load' = load, NEW p \in load.readers, pc[p].at \in {"user", "readLater"},
           NEW place \in {"user", "readLater"}, NEW a \in Nat, NEW n \in Nat,
           place = "readLater" => n > 0, Goto(p, At(place, a, n))
    PROVE  PcInv' /\ Wants' = Wants /\ OutWait' = OutWait
<1>1. p \in Proc /\ p \notin InWait /\ p \notin OutWait
  BY IInvFacts, Elsewhere
<1>2. /\ place \in {"user", "putc"} \union ReaderPlaces /\ place # "putc"
      /\ place \notin InputPlaces
      /\ place \in {"readLater", "readWoken"} => n > 0
  BY DEF InputPlaces, ReaderPlaces
<1>3. /\ PcInv'
      /\ InWait' = IF place \in InputPlaces THEN InWait \cup {p} ELSE InWait \ {p}
      /\ OutWait' = IF place = "putc" THEN OutWait \cup {p} ELSE OutWait \ {p}
  BY <1>1, <1>2, Moves DEF IInv
<1>4. InWait' = InWait /\ OutWait' = OutWait
  BY <1>1, <1>2, <1>3
<1> QED BY <1>3, <1>4, WantsPrime

LEMMA getcKeeps ==
    ASSUME IInv, UNCHANGED <<modeVars, nextsem, load>>, NEW p \in load.readers, getc(p)
    PROVE  IInv'
<1>1. CASE InUser(p) /\ Passes(isem) /\ Take(1) /\ semaph' = Tokens(isem, 1)
           /\ UNCHANGED <<pc, out>>
  <2>1. PcInv' /\ Wants' = Wants /\ OutWait' = OutWait
    BY <1>1, Sits DEF IInv
  <2>2. 1 <= semaph[isem].cnt
    BY <1>1, IInvFacts DEF Passes
  <2> QED BY <1>1, <2>1, <2>2, TakesBoth
<1>2. CASE InUser(p) /\ Blocks(p, isem, At("getc", 0, 0))
  BY <1>2, BlocksIn DEF InUser, InputPlaces
<1>3. CASE Reached(p, "getc") /\ Take(1) /\ Goto(p, User) /\ UNCHANGED <<semaph, out>>
  <2>1. p \in InWait /\ Runs(p) /\ Goto(p, At("user", 0, 0))
    BY <1>3, IInvFacts DEF Reached, InWait, InputPlaces, User
  <2>2. /\ PcInv' /\ OutWait' = OutWait
        /\ TableInv(semaph, Wants')
        /\ Account(semaph, isem, Wants') = icnt - 1 /\ icnt >= 1
    BY <2>1, GoesOn
  <2>3. /\ icnt' = icnt - 1 /\ icnt' \in Nat /\ icursor' \in Nat
        /\ Ring(ihead', itail', ibuff', icnt' + icursor', unread')
    <3>1. 1 \in 0 .. icnt
      BY <2>2, IInvFacts
    <3> QED BY <1>3, <3>1, Took
  <2>4. semaph' = semaph /\ semaph[isem].used
    BY <1>3, IInvFacts
  <2> QED BY <1>3, <2>2, <2>3, <2>4, InputCall
<1> QED BY <1>1, <1>2, <1>3 DEF getc

LEMMA nextcKeeps ==
    ASSUME IInv, UNCHANGED <<modeVars, nextsem, load>>, NEW p \in load.readers, nextc(p)
    PROVE  IInv'
<1>1. CASE /\ InUser(p) /\ Passes(isem)
           /\ semaph' = Tokens(isem, 1)
           /\ Goto(p, At("nextc", 0, 0))
           /\ UNCHANGED <<inVars, out>>
  <2>1. /\ p \in Proc /\ WantsOK(Wants) /\ TableInv(semaph, Wants) /\ semaph[isem].used
        /\ semaph[isem].cnt \in Int /\ Account(semaph, isem, Wants) = icnt /\ icnt \in Nat
        /\ semaph[isem].cnt >= 1
    BY <1>1, IInvFacts DEF IInv, Passes
  <2>2. Nowhere(p, Wants) /\ p \notin OutWait
    BY <1>1, <2>1, Elsewhere DEF InUser
  <2>3. PcInv' /\ InWait' = InWait \cup {p} /\ OutWait' = OutWait
    <3> DEFINE place == "nextc"
    <3>1. /\ place \in {"user", "putc"} \union ReaderPlaces /\ place # "putc"
          /\ place \in InputPlaces
          /\ place \notin {"readLater", "readWoken"}
          /\ Goto(p, At(place, 0, 0))
      BY <1>1 DEF InputPlaces, ReaderPlaces
    <3> HIDE DEF place
    <3>2. /\ PcInv'
          /\ InWait' = IF place \in InputPlaces THEN InWait \cup {p} ELSE InWait \ {p}
          /\ OutWait' = IF place = "putc" THEN OutWait \cup {p} ELSE OutWait \ {p}
      BY <2>1, <3>1, Moves DEF IInv
    <3> QED BY <2>2, <3>1, <3>2
  <2>4. Customers(Wants, Wants', isem, Wants[isem] \cup {p})
    BY <2>3, WantsPrime, WantsFacts
  <2>5. semaph' = Less(semaph, isem, 1)
    BY <1>1 DEF Tokens, Less
  <2>6. /\ TableInv(semaph', Wants) /\ semaph'[isem].used
        /\ semaph'[osem] = semaph[osem]
        /\ Account(semaph', isem, Wants) = Account(semaph, isem, Wants) - 1
    BY <2>1, <2>5, SemNumbers, TokensKeep
  <2>7. /\ TableInv(semaph', Wants')
        /\ Account(semaph', isem, Wants') = Account(semaph', isem, Wants) + 1
    BY <2>1, <2>2, <2>4, <2>6, SemNumbers, JoinKeeps
  <2>8. /\ icnt' \in Nat /\ icursor' \in Nat
        /\ Ring(ihead', itail', ibuff', icnt' + icursor', unread')
        /\ icnt' = icnt
    BY <1>1 DEF IInv, inVars
  <2>9. Account(semaph', isem, Wants') = icnt'
    BY <2>1, <2>6, <2>7, <2>8
  <2> QED BY <1>1, <2>3, <2>6, <2>7, <2>8, <2>9, InputCall
<1>2. CASE InUser(p) /\ Blocks(p, isem, At("nextc", 0, 0))
  BY <1>2, BlocksIn DEF InUser, InputPlaces
<1>3. CASE /\ Reached(p, "nextc")
           /\ semaph' = signal(semaph, isem)
           /\ Goto(p, User)
           /\ UNCHANGED <<inVars, out>>
  <2>1. p \in InWait /\ Runs(p) /\ Goto(p, At("user", 0, 0))
    BY <1>3, IInvFacts DEF Reached, InWait, InputPlaces, User
  <2>2. /\ PcInv' /\ OutWait' = OutWait
        /\ TableInv(semaph, Wants')
        /\ Account(semaph, isem, Wants') = icnt - 1 /\ icnt >= 1
    BY <2>1, GoesOn
  <2>3. SignalledBy(semaph, semaph', isem, Wants', 1)
    BY <1>3, <2>2, WantsPrime, IInvFacts, signaledOnce
  <2>4. /\ TableInv(semaph', Wants') /\ semaph'[isem].used
        /\ semaph'[osem] = semaph[osem]
        /\ Account(semaph', isem, Wants') = Account(semaph, isem, Wants') + 1
    BY <2>3, SemNumbers DEF SignalledBy
  <2>5. /\ icnt' \in Nat /\ icursor' \in Nat
        /\ Ring(ihead', itail', ibuff', icnt' + icursor', unread')
        /\ icnt' = icnt /\ icnt \in Nat
    BY <1>3 DEF IInv, inVars
  <2>6. Account(semaph', isem, Wants') = icnt'
    BY <2>2, <2>4, <2>5
  <2> QED BY <1>3, <2>2, <2>4, <2>5, <2>6, InputCall
<1> QED BY <1>1, <1>2, <1>3 DEF nextc

(* read() by the only reader, which waits nowhere: nobody waits for input. *)
LEMMA NobodyWaits ==
    ASSUME IInv, NEW p \in load.readers, pc[p].at \in {"user", "readLater"}
    PROVE  InWait = {}
<1>1. \A q \in InWait : q \in load.readers
  BY DEF InWait, ReaderPlaces, IInv, PcInv
<1>2. p \notin InWait
  BY IInvFacts, Elsewhere
<1> QED BY <1>1, <1>2 DEF IInv, Bounded

LEMMA readKeeps ==
    ASSUME IInv, UNCHANGED <<modeVars, nextsem, load>>, NEW p \in load.readers,
           NEW n \in Nat, read(p, n)
    PROVE  IInv'
<1> DEFINE count == IF n = 0 THEN icnt ELSE n
           now == IF count < icnt THEN count ELSE icnt
           k == Taken(now, 2, TRUE)
<1>1. /\ InUser(p) /\ count > 0
      /\ IF now > 0 THEN Take(k) /\ semaph' = Reset(k) ELSE UNCHANGED <<inVars, semaph>>
      /\ IF Stopped(now, 2) \/ now >= count THEN UNCHANGED pc
         ELSE Goto(p, At("readLater", k, count - now))
      /\ out' = out
  BY DEF read
<1>2. icnt \in Nat
  BY DEF IInv
<1>3. count \in Nat /\ now \in Nat /\ now <= icnt /\ now <= count
  BY <1>2
<1>4. k \in 0 .. now
  <2> HIDE DEF now
  <2>1. Taken(now, 2, 0 = 0) \in 0 .. now
    BY <1>3, TakenIs
  <2>2. TRUE <=> (0 = 0)
    OBVIOUS
  <2>3. k = Taken(now, 2, 0 = 0)
    BY <2>2 DEF Taken
  <2> QED BY <2>1, <2>3
<1> HIDE DEF k, now, count
<1>5. k \in 0 .. icnt /\ k \in Nat
  BY <1>2, <1>3, <1>4
<1>6. PcInv' /\ Wants' = Wants /\ OutWait' = OutWait
  <2>1. CASE pc' = pc
    BY <2>1, Sits DEF IInv
  <2>2. CASE ~ (now >= count) /\ Goto(p, At("readLater", k, count - now))
    <3> DEFINE left == count - now
    <3>1. left \in Nat /\ left > 0
      BY <1>3, <2>2
    <3>2. Goto(p, At("readLater", k, left)) /\ pc[p].at \in {"user", "readLater"}
      BY <1>1, <2>2 DEF InUser
    <3> HIDE DEF left
    <3> QED BY <1>5, <3>1, <3>2, Passing
  <2> QED BY <1>1, <2>1, <2>2
<1>7. CASE now > 0
  <2>1. Take(k) /\ semaph' = sreset(semaph, isem, icnt - k)
    BY <1>1, <1>7 DEF Reset
  <2>2. /\ icnt' = icnt - k /\ icnt' \in Nat /\ icursor' \in Nat
        /\ Ring(ihead', itail', ibuff', icnt' + icursor', unread')
    BY <1>5, <2>1, Took
  <2>3. /\ WantsOK(Wants) /\ TableInv(semaph, Wants) /\ semaph[isem].used
        /\ Wants[isem] = {} /\ isem \in Sem /\ osem \in Sem \ {isem}
    BY <1>1, IInvFacts, SemNumbers, NobodyWaits, WantsFacts DEF InUser
  <2>4. semaph' = sreset(semaph, isem, icnt')
    BY <2>1, <2>2
  <2>5. /\ TableInv(semaph', Wants) /\ semaph'[isem].used
        /\ \A u \in Sem \ {isem} : semaph'[u] = semaph[u]
        /\ Account(semaph', isem, Wants) = icnt'
    BY <2>2, <2>3, <2>4, ResetKeeps
  <2>6. semaph'[osem] = semaph[osem]
    BY <2>3, <2>5
  <2> QED BY <1>1, <1>6, <2>2, <2>5, <2>6, InputCall
<1>8. CASE ~ now > 0
  <2>1. UNCHANGED <<inVars, semaph>>
    BY <1>1, <1>8
  <2>2. /\ icnt' \in Nat /\ icursor' \in Nat
        /\ Ring(ihead', itail', ibuff', icnt' + icursor', unread')
        /\ Account(semaph', isem, Wants') = icnt'
    BY <1>6, <2>1 DEF IInv, inVars
  <2>3. /\ TableInv(semaph', Wants') /\ semaph'[isem].used /\ semaph'[osem] = semaph[osem]
    BY <1>6, <2>1, IInvFacts
  <2> QED BY <1>1, <1>6, <2>2, <2>3, InputCall
<1> QED BY <1>7, <1>8

LEMMA readLaterKeeps ==
    ASSUME IInv, UNCHANGED <<modeVars, nextsem, load>>, NEW p \in load.readers, readLater(p)
    PROVE  IInv'
<1>1. /\ p \in Proc /\ pc[p].a \in Nat /\ pc[p].n \in Nat
      /\ pc[p].at \in {"readLater", "readWoken"} => pc[p].n > 0
  BY IInvFacts DEF IInv, PcInv
<1>2. CASE /\ Reached(p, "readLater") /\ Passes(isem)
           /\ LET k == LaterCount(p)
              IN /\ Take(k)
                 /\ semaph' = Tokens(isem, k)
                 /\ Goto(p, IF LaterDone(p, k) THEN User
                            ELSE At("readLater", pc[p].a + k, pc[p].n - k))
           /\ UNCHANGED out
  <2> DEFINE m == Min({pc[p].n, semaph[isem].cnt})
             k == Taken(m, 1, pc[p].a = 0)
             more == pc[p].a + k
             left == pc[p].n - k
  <2>1. /\ pc[p].at = "readLater" /\ Take(k) /\ semaph' = Tokens(isem, k) /\ out' = out
        /\ Goto(p, IF LaterDone(p, k) THEN User ELSE At("readLater", more, left))
    BY <1>2 DEF Reached, LaterCount
  <2>2. semaph[isem].cnt \in Nat
    BY <1>2, IInvFacts DEF Passes
  <2>3. m \in Nat /\ m <= pc[p].n /\ m <= semaph[isem].cnt
    <3> DEFINE S == {pc[p].n, semaph[isem].cnt}
    <3>1. S \in SUBSET Nat /\ S # {}
      BY <1>1, <2>2
    <3>2. pc[p].n \in S /\ semaph[isem].cnt \in S /\ m = Min(S)
      OBVIOUS
    <3> HIDE DEF S, m
    <3>3. m \in S /\ \A x \in S : m <= x
      BY <3>1, <3>2, MinElement
    <3> QED BY <3>1, <3>2, <3>3
  <2>4. k \in 0 .. m
    <3> HIDE DEF m
    <3> QED BY <2>3, TakenIs
  <2>5. k # pc[p].n \/ LaterDone(p, k)
    BY DEF LaterDone
  <2> HIDE DEF k, m
  <2>6. k \in Nat /\ k <= semaph[isem].cnt /\ k <= pc[p].n
    BY <1>1, <2>2, <2>3, <2>4
  <2>7. PcInv' /\ Wants' = Wants /\ OutWait' = OutWait
    <3>1. CASE LaterDone(p, k)
      <4>1. Goto(p, At("user", 0, 0))
        BY <2>1, <3>1 DEF User
      <4> QED BY <2>1, <4>1, Passing
    <3>2. CASE ~ LaterDone(p, k)
      <4>1. more \in Nat /\ left \in Nat /\ left > 0
        BY <1>1, <2>5, <2>6, <3>2
      <4>2. Goto(p, At("readLater", more, left))
        BY <2>1, <3>2
      <4> HIDE DEF more, left
      <4> QED BY <2>1, <4>1, <4>2, Passing
    <3> QED BY <3>1, <3>2
  <2> QED BY <2>1, <2>6, <2>7, TakesBoth
<1>3. CASE /\ Reached(p, "readLater")
           /\ Blocks(p, isem, At("readWoken", pc[p].a, pc[p].n))
  BY <1>1, <1>3, BlocksIn DEF Reached, InputPlaces
<1>4. CASE /\ Reached(p, "readWoken")
           /\ LET k == Taken(1, 1, pc[p].a = 0)
              IN /\ Take(k)
                 /\ semaph' = IF k = 0 THEN signal(semaph, isem) ELSE semaph
                 /\ Goto(p, IF Stopped(1, 1) \/ pc[p].n = 1 THEN User
                            ELSE At("readLater", pc[p].a + 1, pc[p].n - 1))
           /\ UNCHANGED out
  <2> DEFINE k == Taken(1, 1, pc[p].a = 0)
             more == pc[p].a + 1
             left == pc[p].n - 1
  <2>1. /\ p \in InWait /\ Runs(p) /\ pc[p].at = "readWoken"
        /\ Take(k) /\ out' = out
        /\ semaph' = IF k = 0 THEN signal(semaph, isem) ELSE semaph
        /\ Goto(p, IF Stopped(1, 1) \/ pc[p].n = 1 THEN User ELSE At("readLater", more, left))
    BY <1>1, <1>4 DEF Reached, InWait, InputPlaces
  <2>2. k \in 0 .. 1
    BY TakenIs
  <2> HIDE DEF k
  <2>3. /\ PcInv' /\ OutWait' = OutWait
        /\ TableInv(semaph, Wants')
        /\ Account(semaph, isem, Wants') = icnt - 1 /\ icnt >= 1
    <3>1. CASE Stopped(1, 1) \/ pc[p].n = 1
      <4>1. Goto(p, At("user", 0, 0))
        BY <2>1, <3>1 DEF User
      <4> QED BY <2>1, <4>1, GoesOn
    <3>2. CASE ~ (Stopped(1, 1) \/ pc[p].n = 1)
      <4>1. more \in Nat /\ left \in Nat /\ left > 0
        BY <1>1, <2>1, <3>2
      <4>2. Goto(p, At("readLater", more, left))
        BY <2>1, <3>2
      <4> HIDE DEF more, left
      <4> QED BY <2>1, <4>1, <4>2, GoesOn
    <3> QED BY <3>1, <3>2
  <2>4. /\ icnt' = icnt - k /\ icnt' \in Nat /\ icursor' \in Nat /\ icnt \in Nat
        /\ Ring(ihead', itail', ibuff', icnt' + icursor', unread')
    <3>1. k \in 0 .. icnt /\ icnt \in Nat
      BY <2>2, <2>3, IInvFacts
    <3> QED BY <2>1, <3>1, Took
  <2>5. CASE k = 1
    <3>1. semaph' = semaph /\ semaph[isem].used
      BY <2>1, <2>5, IInvFacts
    <3>2. Account(semaph', isem, Wants') = icnt'
      BY <2>3, <2>4, <2>5, <3>1
    <3> QED BY <2>1, <2>3, <2>4, <3>1, <3>2, InputCall
  <2>6. CASE k = 0
    <3>1. SignalledBy(semaph, semaph', isem, Wants', 1)
      BY <2>1, <2>3, <2>6, WantsPrime, IInvFacts, signaledOnce
    <3>2. /\ TableInv(semaph', Wants') /\ semaph'[isem].used
          /\ semaph'[osem] = semaph[osem]
          /\ Account(semaph', isem, Wants') = Account(semaph, isem, Wants') + 1
      BY <3>1, SemNumbers DEF SignalledBy
    <3>3. Account(semaph', isem, Wants') = icnt'
      BY <2>3, <2>4, <2>6, <3>2
    <3> QED BY <2>1, <2>3, <2>4, <3>2, <3>3, InputCall
  <2> QED BY <2>2, <2>5, <2>6
<1> QED BY <1>2, <1>3, <1>4 DEF readLater

-----------------------------------------------------------------------------
(* The output semaphore, the output half and the processes change. *)
LEMMA OutputCall ==
    ASSUME IInv, UNCHANGED <<modeVars, nextsem, load>>, UNCHANGED inVars,
           NEW o, OutputIs(o), OutOK(o, Wants'), Floor(o), o.sems[isem] = semaph[isem],
           InWait' = InWait, PcInv'
    PROVE  IInv'
<1>1. o \in [out : OutRec, sems : [Sem -> SemRec]]
  BY TableOf
<1>2. Output' = o /\ semaph' = o.sems
  BY <1>1 DEF Output, OutputIs
<1>3. Wants'[isem] = Wants[isem]
  BY SemNumbers, WantsPrime DEF Customers
<1>4. Account(semaph', isem, Wants') = Account(semaph, isem, Wants)
  BY <1>2, <1>3, AccountSame
<1>5. /\ icnt' \in Nat /\ icursor' \in Nat
      /\ Ring(ihead', itail', ibuff', icnt' + icursor', unread')
      /\ Account(semaph', isem, Wants') = icnt'
  BY <1>4 DEF IInv, inVars
<1>6. load' = load /\ nextsem' = nextsem /\ imode' \in Modes /\ iecho' \in BOOLEAN
  BY DEF modeVars, IInv
<1>7. load.late \/ out'.unsent >= 0
  BY DEF Floor, OutputIs
<1> QED BY <1>2, <1>5, <1>6, <1>7, Assembled

(* A character is put in obuff, and the transmitter started. *)
LEMMA PutKeeps ==
    ASSUME NEW W, WantsOK(W), NEW t, TableInv(t, W), t[isem].used, t[osem].used,
           t[isem] = semaph[isem], out \in OutRec,
           Account(t, osem, W) + out.odsend + out.unsent = OBUFLEN - 1,
           out.odsend > 0 => t[osem].cnt <= OBMINSP, t[osem].cnt <= OBUFLEN, Filled(out),
           load.late \/ out.unsent >= 0,
           Put(t)
    PROVE  \E o : OutputIs(o) /\ OutOK(o, W) /\ Floor(o) /\ o.sems[isem] = semaph[isem]
<1> DEFINE next == (out.ohead + 1) % OBUFLEN
           more == out.unsent + 1
           r == [out EXCEPT !.ohead = (@ + 1) % OBUFLEN, !.unsent = @ + 1]
           o == [out |-> r, sems |-> t]
<1>1. OutputIs(ttyostart(o))
  BY DEF Put
<1>2. next \in 0 .. OBUFLEN - 1 /\ more \in Int /\ out.unsent \in Int /\ out.odsend \in Nat
      /\ out.ohead \in 0 .. OBUFLEN - 1 /\ out.otail \in 0 .. OBUFLEN - 1
  <2>1. out.unsent \in Int /\ out.odsend \in Nat
        /\ out.ohead \in 0 .. OBUFLEN - 1 /\ out.otail \in 0 .. OBUFLEN - 1
    BY DEF OutRec
  <2> QED BY <2>1, SemNumbers, NextPlace
<1>3. r = [out EXCEPT !.ohead = next, !.unsent = more]
  BY DEF OutRec
<1> HIDE DEF next, more, r
<1>4. /\ r \in OutRec /\ r.ohead = next /\ r.unsent = more
      /\ r.otail = out.otail /\ r.odsend = out.odsend
  <2>1. r \in OutRec
    BY <1>2, <1>3 DEF OutRec
  <2>2. r.ohead = next /\ r.unsent = more /\ r.otail = out.otail /\ r.odsend = out.odsend
    BY <1>3 DEF OutRec
  <2> QED BY <2>1, <2>2
<1>5. Filled(r)
  <2>1. r.ohead = (out.ohead + 1) % OBUFLEN /\ r.unsent = out.unsent + 1
    BY <1>4 DEF next, more
  <2> QED BY <1>2, <1>4, <2>1, FilledStep
<1>6. o.out = r /\ o.sems = t /\ o \in [out : OutRec, sems : [Sem -> SemRec]]
  BY <1>4 DEF TableInv, TableOK
<1> HIDE DEF o
<1>7. Account(t, osem, W) \in Nat /\ OBUFLEN \in Nat
  BY SemNumbers, TableFacts
<1>8. Account(t, osem, W) + r.odsend + r.unsent = OBUFLEN - 0
  <2>1. r.odsend = out.odsend /\ r.unsent = out.unsent + 1
    BY <1>4 DEF more
  <2> QED BY <1>2, <1>7, <2>1
<1>9. OutOK(o, W)
  <2>1. t[osem].cnt <= OBUFLEN - 0
    BY <1>7
  <2> QED BY <1>4, <1>5, <1>6, <1>8, <2>1 DEF OutOK, OutBut
<1>10. Kept(o, ttyostart(o), W)
  BY <1>9, ttyostartKeeps
<1>11. Ready(o, W) /\ Floor(o)
  <2>1. load.late \/ o.out.unsent > 0
    BY <1>2, <1>4, <1>6 DEF more
  <2>2. o.out.unsent \in Int
    BY <1>4, <1>6 DEF OutRec
  <2> QED BY <2>1, <2>2 DEF Ready, Floor
<1> QED BY <1>1, <1>6, <1>10, <1>11 DEF Kept, Due

LEMMA putcKeeps ==
    ASSUME IInv, UNCHANGED <<modeVars, nextsem, load>>, NEW p \in load.writers, putc(p)
    PROVE  IInv'
<1>1. /\ WantsOK(Wants) /\ TableInv(semaph, Wants) /\ semaph[isem].used /\ semaph[osem].used
      /\ out \in OutRec /\ p \in Proc
      /\ osem \in Sem /\ isem \in Sem \ {osem}
  BY IInvFacts, SemNumbers
<1>2. /\ Account(semaph, osem, Wants) + out.odsend + out.unsent = OBUFLEN - 0
      /\ out.odsend > 0 => semaph[osem].cnt <= OBMINSP
      /\ semaph[osem].cnt <= OBUFLEN - 0
      /\ Filled(out)
      /\ load.late \/ out.unsent >= 0
  BY IInvFacts DEF IInv, OutOK, OutBut, Floor
<1>3. /\ out.odsend \in Nat /\ out.unsent \in Int
      /\ semaph[osem].cnt \in Int /\ Account(semaph, osem, Wants) \in Nat
      /\ OBUFLEN \in Nat /\ OBMINSP \in Nat
  <2>1. out.odsend \in Nat /\ out.unsent \in Int
    BY <1>1 DEF OutRec
  <2> QED BY <1>1, <2>1, SemNumbers, TableFacts
<1>4. CASE InUser(p) /\ Passes(osem) /\ Put(Tokens(osem, 1)) /\ UNCHANGED <<pc, inVars>>
  <2> DEFINE t == Tokens(osem, 1)
  <2>1. t = Less(semaph, osem, 1) /\ 1 <= semaph[osem].cnt
    BY <1>3, <1>4 DEF Tokens, Less, Passes
  <2>2. Put(t)
    BY <1>4
  <2> HIDE DEF t
  <2>3. /\ TableInv(t, Wants) /\ t[osem].used
        /\ \A u \in Sem \ {osem} : t[u] = semaph[u]
        /\ t[osem].cnt = semaph[osem].cnt - 1
        /\ Account(t, osem, Wants) = Account(semaph, osem, Wants) - 1
    BY <1>1, <2>1, TokensKeep
  <2>4. /\ t[isem] = semaph[isem] /\ t[isem].used
        /\ Account(t, osem, Wants) + out.odsend + out.unsent = OBUFLEN - 1
        /\ out.odsend > 0 => t[osem].cnt <= OBMINSP
        /\ t[osem].cnt <= OBUFLEN
    BY <1>1, <1>2, <1>3, <2>3
  <2>5. PICK o : OutputIs(o) /\ OutOK(o, Wants) /\ Floor(o) /\ o.sems[isem] = semaph[isem]
    BY <1>1, <1>2, <2>2, <2>3, <2>4, PutKeeps
  <2>6. PcInv' /\ Wants' = Wants /\ InWait' = InWait
    BY <1>4, Sits DEF IInv
  <2> QED BY <1>4, <2>5, <2>6, OutputCall
<1>5. CASE InUser(p) /\ Blocks(p, osem, At("putc", 0, 0))
  <2>1. /\ ~ semaph[osem].cnt > 0 /\ semaph' = wait(semaph, osem, p)
        /\ Goto(p, At("putc", 0, 0)) /\ UNCHANGED inVars /\ out' = out
    BY <1>5 DEF Blocks, Passes
  <2>2. Nowhere(p, Wants) /\ p \notin InWait /\ semaph[osem].cnt <= 0
    BY <1>1, <1>3, <1>5, <2>1, Elsewhere DEF InUser
  <2>3. PcInv' /\ OutWait' = OutWait \cup {p} /\ InWait' = InWait
    <3> DEFINE place == "putc"
    <3>1. /\ place \in {"user", "putc"} \union ReaderPlaces /\ place = "putc"
          /\ place \notin InputPlaces /\ place \notin ReaderPlaces
          /\ place \notin {"readLater", "readWoken"}
          /\ Goto(p, At(place, 0, 0))
      BY <2>1 DEF InputPlaces, ReaderPlaces
    <3> HIDE DEF place
    <3>2. /\ PcInv'
          /\ InWait' = IF place \in InputPlaces THEN InWait \cup {p} ELSE InWait \ {p}
          /\ OutWait' = IF place = "putc" THEN OutWait \cup {p} ELSE OutWait \ {p}
      BY <1>1, <3>1, Moves DEF IInv
    <3> QED BY <2>2, <3>1, <3>2
  <2>4. Customers(Wants, Wants', osem, Wants[osem] \cup {p})
    BY <2>3, WantsPrime, WantsFacts
  <2>5. Entered(semaph, semaph', osem, Wants, Wants')
    BY <1>1, <2>1, <2>2, <2>4, EnterKeeps
  <2>6. /\ TableInv(semaph', Wants') /\ semaph'[osem].used /\ semaph'[isem] = semaph[isem]
        /\ semaph'[osem].cnt = semaph[osem].cnt - 1
        /\ Account(semaph', osem, Wants') = Account(semaph, osem, Wants)
    BY <1>1, <2>5 DEF Entered
  <2> DEFINE o == [out |-> out, sems |-> semaph']
  <2>7. /\ o.out = out /\ o.sems = semaph' /\ o \in [out : OutRec, sems : [Sem -> SemRec]]
        /\ OutputIs(o)
    BY <1>1, <2>1, <2>6 DEF TableInv, TableOK, OutputIs
  <2> HIDE DEF o
  <2>8. /\ out.odsend > 0 => semaph'[osem].cnt <= OBMINSP
        /\ semaph'[osem].cnt <= OBUFLEN - 0
    BY <1>2, <1>3, <2>6
  <2>9. OutOK(o, Wants')
    BY <1>1, <1>2, <2>6, <2>7, <2>8 DEF OutOK, OutBut
  <2>10. Floor(o)
    BY <1>2, <2>7 DEF Floor
  <2> QED BY <2>1, <2>3, <2>6, <2>7, <2>9, <2>10, OutputCall
<1>6. CASE Reached(p, "putc") /\ Put(semaph) /\ Goto(p, User) /\ UNCHANGED inVars
  <2>1. p \in OutWait /\ p \notin InWait /\ Runs(p) /\ Goto(p, At("user", 0, 0))
    BY <1>1, <1>6 DEF Reached, OutWait, InWait, InputPlaces, User
  <2>2. PcInv' /\ OutWait' = OutWait \ {p} /\ InWait' = InWait
    <3> DEFINE place == "user"
    <3>1. /\ place \in {"user", "putc"} \union ReaderPlaces /\ place # "putc"
          /\ place \notin InputPlaces /\ place \notin ReaderPlaces
          /\ place \notin {"readLater", "readWoken"}
          /\ Goto(p, At(place, 0, 0))
      BY <2>1 DEF InputPlaces, ReaderPlaces
    <3> HIDE DEF place
    <3>2. /\ PcInv'
          /\ InWait' = IF place \in InputPlaces THEN InWait \cup {p} ELSE InWait \ {p}
          /\ OutWait' = IF place = "putc" THEN OutWait \cup {p} ELSE OutWait \ {p}
      BY <1>1, <3>1, Moves DEF IInv
    <3> QED BY <2>1, <3>1, <3>2
  <2>3. Customers(Wants, Wants', osem, Wants[osem] \ {p})
    BY <2>2, WantsPrime, WantsFacts
  <2>4. p \in Wants[osem] /\ p \notin Waiting(semaph, osem)
    <3>1. p \in Wants[osem]
      BY <2>1, WantsFacts
    <3> QED BY <1>1, <2>1, <3>1, LetThrough
  <2>5. /\ TableInv(semaph, Wants')
        /\ Account(semaph, osem, Wants') = Account(semaph, osem, Wants) - 1
    BY <1>1, <2>3, <2>4, LeaveKeeps
  <2>6. Account(semaph, osem, Wants') + out.odsend + out.unsent = OBUFLEN - 1
    BY <1>2, <1>3, <2>5
  <2>7. PICK o : OutputIs(o) /\ OutOK(o, Wants') /\ Floor(o) /\ o.sems[isem] = semaph[isem]
    <3> DEFINE W2 == Wants'
    <3>1. /\ WantsOK(W2) /\ TableInv(semaph, W2) /\ semaph[isem] = semaph[isem]
          /\ Account(semaph, osem, W2) + out.odsend + out.unsent = OBUFLEN - 1
          /\ semaph[osem].cnt <= OBUFLEN
      BY <1>2, <1>3, <2>5, <2>6, WantsPrime
    <3>2. Put(semaph)
      BY <1>6
    <3> HIDE DEF W2
    <3>3. \E o : OutputIs(o) /\ OutOK(o, W2) /\ Floor(o) /\ o.sems[isem] = semaph[isem]
      BY <1>1, <1>2, <3>1, <3>2, PutKeeps
    <3> QED BY <3>3 DEF W2
  <2> QED BY <1>6, <2>2, <2>7, OutputCall
<1> QED BY <1>4, <1>5, <1>6 DEF putc

LEMMA ttycntlKeeps ==
    ASSUME IInv, UNCHANGED <<nextsem, load>>, ttycntl
    PROVE  IInv'
<1>1. /\ UNCHANGED <<inVars, out, semaph, pc>>
      /\ imode' \in Modes /\ iecho' \in BOOLEAN
  BY DEF ttycntl, IInv
<1>2. PcInv' /\ Wants' = Wants
  BY <1>1, Stays DEF IInv
<1>3. Output' = Output
  BY <1>1 DEF Output
<1>4. /\ icnt' \in Nat /\ icursor' \in Nat
      /\ Ring(ihead', itail', ibuff', icnt' + icursor', unread')
      /\ OutOK(Output', Wants')
      /\ Account(semaph', isem, Wants') = icnt'
      /\ load.late \/ out'.unsent >= 0
  BY <1>1, <1>2, <1>3 DEF IInv, inVars, Floor, Output
<1> QED BY <1>1, <1>2, <1>4, Assembled

-----------------------------------------------------------------------------
(* The specification *)

LEMMA InitKeeps ==
    ASSUME Init, Bounded
    PROVE  IInv
<1>1. /\ isem \in Sem /\ osem \in Sem /\ isem # osem
      /\ IBUFLEN \in Nat \ {0} /\ OBUFLEN \in Nat \ {0} /\ EBUFLEN \in Nat \ {0}
      /\ OBMINSP \in Nat \ {0}
  BY SemNumbers
<1>2. load \in Workload
  BY TtyAssumption DEF Init
<1>3. nextsem \in Sem
  <2> DEFINE x == NSEM - 3
  <2>1. NSEM \in Nat \ {0} /\ x \in Int /\ nextsem = x % NSEM
    BY SemaphoresAssumption DEF Init
  <2> HIDE DEF x
  <2>2. x % NSEM \in 0 .. NSEM - 1
    BY <2>1, Divided
  <2> QED BY <2>1, <2>2 DEF Sem
<1>4. PcInv
  BY DEF Init, PcInv, User, At, Frame, ReaderPlaces, InputPlaces
<1>5. InWait = {} /\ OutWait = {}
  BY DEF Init, User, At, Frame, InWait, OutWait, InputPlaces
<1>6. \A s \in Sem : Wants[s] = {}
  BY <1>5 DEF Wants
<1>7. Ring(ihead, itail, ibuff, icnt + icursor, unread)
  <2>1. 0 \in 0 .. IBUFLEN - 1 /\ 0 \in 0 .. IBUFLEN /\ 0 + 0 = 0
    BY <1>1
  <2>2. Place(0) = 0
    <3> DEFINE x == 0
    <3>1. x \in Int /\ - IBUFLEN <= x /\ x < 2 * IBUFLEN /\ ~ (x < 0) /\ x < IBUFLEN
      BY <1>1
    <3> HIDE DEF x
    <3>2. Place(x) = x
      BY <3>1, PlaceIs
    <3> QED BY <3>2 DEF x
  <2>3. ibuff \in [0 .. IBUFLEN - 1 -> Chars]
    BY DEF Init, Chars
  <2>4. unread \in Seq(Chars) /\ Len(unread) = 0
    BY DEF Init
  <2>5. ihead = 0 /\ itail = 0 /\ icnt + icursor = 0
    BY DEF Init
  <2> QED BY <2>1, <2>2, <2>3, <2>4, <2>5 DEF Ring
<1> DEFINE rin == [FreeSem EXCEPT !.used = TRUE]
           rout == [FreeSem EXCEPT !.used = TRUE, !.cnt = OBUFLEN]
<1>8. /\ \A s \in Sem : semaph[s] = IF s = isem THEN rin ELSE IF s = osem THEN rout ELSE FreeSem
      /\ semaph = [s \in Sem |-> semaph[s]]
  <2>1. semaph = [s \in Sem |-> CASE s = isem -> rin [] s = osem -> rout [] OTHER -> FreeSem]
    BY DEF Init
  <2> HIDE DEF rin, rout
  <2> QED BY <1>1, <2>1
<1>9. /\ \A s \in Sem : semaph[s] \in SemRec /\ semaph[s].queue = <<>> /\ Len(semaph[s].queue) = 0
      /\ \A s \in Sem : semaph[s].cnt = 0 \/ semaph[s].cnt = OBUFLEN
      /\ \A s \in Sem : ~ semaph[s].used => semaph[s] = FreeSem
      /\ semaph[isem].used /\ semaph[osem].used
      /\ semaph[isem].cnt = 0 /\ semaph[osem].cnt = OBUFLEN
  <2>1. FreeSem \in SemRec /\ FreeSem.cnt = 0 /\ FreeSem.queue = <<>>
    BY DEF FreeSem, SemRec
  <2>2. /\ rin \in SemRec /\ rin.used /\ rin.cnt = 0 /\ rin.queue = <<>>
    BY <2>1 DEF SemRec
  <2>3. /\ rout \in SemRec /\ rout.used /\ rout.cnt = OBUFLEN /\ rout.queue = <<>>
    <3>1. rout = [rin EXCEPT !.cnt = OBUFLEN] /\ OBUFLEN \in Int
      BY <1>1, <2>1 DEF SemRec
    <3> HIDE DEF rin, rout
    <3> QED BY <2>2, <3>1 DEF SemRec
  <2>4. Len(<<>>) = 0
    OBVIOUS
  <2> HIDE DEF rin, rout
  <2>5. ASSUME NEW s \in Sem
        PROVE  /\ semaph[s] \in SemRec /\ semaph[s].queue = <<>> /\ Len(semaph[s].queue) = 0
               /\ semaph[s].cnt = 0 \/ semaph[s].cnt = OBUFLEN
               /\ ~ semaph[s].used => semaph[s] = FreeSem
    <3>1. CASE s = isem
      BY <1>8, <2>2, <2>4, <3>1
    <3>2. CASE s = osem
      BY <1>1, <1>8, <2>3, <2>4, <3>2
    <3>3. CASE s # isem /\ s # osem
      BY <1>8, <2>1, <2>4, <3>3
    <3> QED BY <3>1, <3>2, <3>3
  <2> QED BY <1>1, <1>8, <2>2, <2>3, <2>5
<1> HIDE DEF rin, rout
<1>10. semaph \in [Sem -> SemRec]
  BY <1>8, <1>9
<1>11. \A s \in Sem : Waiting(semaph, s) = {}
  BY <1>9 DEF Waiting
<1>12. TableInv(semaph, Wants)
  <2>1. \A s \in Sem : Len(semaph[s].queue) = QueueLength(semaph[s].cnt)
    BY <1>1, <1>9 DEF QueueLength
  <2>2. \A s, u \in Sem : \A i \in 1 .. Len(semaph[s].queue), j \in 1 .. Len(semaph[u].queue) :
           semaph[s].queue[i] = semaph[u].queue[j] => s = u /\ i = j
    BY <1>9
  <2>3. TableOK(semaph)
    BY <1>9, <1>10, <2>1, <2>2 DEF TableOK
  <2> QED BY <1>11, <2>3 DEF TableInv
<1>13. /\ Account(semaph, isem, Wants) = 0
       /\ Account(semaph, osem, Wants) = OBUFLEN
  <2>1. \A s \in Sem : Wants[s] \ Waiting(semaph, s) = {}
    BY <1>6
  <2>2. \A s \in Sem : Cardinality(Wants[s] \ Waiting(semaph, s)) = 0
    BY <2>1, FS_EmptySet
  <2> QED BY <1>1, <1>9, <2>2 DEF Account, Positive
<1>14. OutOK(Output, Wants)
  <2>1. /\ Output.out = out /\ Output.sems = semaph
        /\ out.odsend = 0 /\ out.unsent = 0 /\ out.ohead = 0 /\ out.otail = 0
        /\ out \in OutRec
    BY <1>1 DEF Output, Init, OutInit, OutRec
  <2>2. Output \in [out : OutRec, sems : [Sem -> SemRec]]
    BY <1>10, <2>1 DEF Output
  <2>3. Filled(out)
    <3>1. OBUFLEN * 0 = 0 /\ 0 \in Int
      BY <1>1
    <3> QED BY <2>1, <3>1 DEF Filled
  <2>4. semaph[osem].cnt <= OBUFLEN - 0
    BY <1>1, <1>9
  <2> QED BY <1>1, <1>9, <1>12, <1>13, <2>1, <2>2, <2>3, <2>4 DEF OutOK, OutBut
<1>15. Floor(Output)
  BY DEF Floor, Output, Init, OutInit
<1> QED BY <1>15, <1>2, <1>3, <1>4, <1>7, <1>13, <1>14 DEF IInv, Init, Modes

LEMMA NextKeeps ==
    ASSUME IInv, [Next]_vars
    PROVE  IInv'
<1>1. CASE \E ch \in load.typed : ttyiin(ch)
  BY <1>1, IInvFacts, ttyiinKeeps
<1>2. CASE transmit
  BY <1>2, transmitKeeps
<1>3. CASE upperHalf /\ UNCHANGED <<nextsem, load>>
  <2>1. UNCHANGED <<modeVars, nextsem, load>>
    BY <1>3 DEF upperHalf
  <2>2. ASSUME NEW p \in load.readers,
               getc(p) \/ nextc(p) \/ (\E n \in load.counts : read(p, n)) \/ readLater(p)
        PROVE  IInv'
    <3>1. CASE getc(p)
      BY <2>1, <3>1, getcKeeps
    <3>2. CASE nextc(p)
      BY <2>1, <3>2, nextcKeeps
    <3>3. CASE \E n \in load.counts : read(p, n)
      BY <2>1, <3>3, IInvFacts, readKeeps
    <3>4. CASE readLater(p)
      BY <2>1, <3>4, readLaterKeeps
    <3> QED BY <2>2, <3>1, <3>2, <3>3, <3>4
  <2>3. ASSUME NEW p \in load.writers, putc(p)
        PROVE  IInv'
    BY <2>1, <2>3, putcKeeps
  <2> QED BY <1>3, <2>2, <2>3 DEF upperHalf
<1>4. CASE ttycntl /\ UNCHANGED <<nextsem, load>>
  BY <1>4, ttycntlKeeps
<1>5. CASE UNCHANGED vars
  <2>1. /\ PcInv' /\ Wants' = Wants
        /\ Output' = Output
    BY <1>5, Stays DEF vars, IInv, Output
  <2>2. /\ icnt' \in Nat /\ icursor' \in Nat
        /\ Ring(ihead', itail', ibuff', icnt' + icursor', unread')
        /\ OutOK(Output', Wants')
        /\ Account(semaph', isem, Wants') = icnt'
        /\ load.late \/ out'.unsent >= 0
    BY <1>5, <2>1 DEF IInv, vars, inVars, Floor, Output
  <2> QED BY <1>5, <2>1, <2>2, Assembled DEF IInv, vars, modeVars
<1> QED BY <1>1, <1>2, <1>3, <1>4, <1>5 DEF Next

(* With one reader, whose input is stored where there is room, the input    *)
(* ring holds what was typed and not read, the input semaphore says how     *)
(* much of it has been ended, and the output semaphore how much room there  *)
(* is; nothing is sent that was not stored, as long as writers are not late, *)
(* for every size of the rings and every number of writers.                 *)
THEOREM TtyAccounts == Spec /\ Bounded => []CharactersAccounted
<1>1. Init /\ Bounded => IInv
  BY InitKeeps
<1>2. IInv /\ [Next]_vars => IInv'
  BY NextKeeps
<1>3. IInv => CharactersAccounted
  <2> SUFFICES ASSUME IInv PROVE CharactersAccounted
    OBVIOUS
  <2>1. /\ WantsOK(Wants) /\ TableInv(semaph, Wants)
        /\ semaph[isem].used /\ semaph[osem].used
        /\ semaph \in [Sem -> SemRec] /\ out \in OutRec
        /\ isem \in Sem /\ osem \in Sem
        /\ IBUFLEN \in Nat \ {0} /\ OBUFLEN \in Nat \ {0}
    BY IInvFacts, SemNumbers
  <2>2. /\ icnt \in Nat /\ icursor \in Nat
        /\ Ring(ihead, itail, ibuff, icnt + icursor, unread)
    BY DEF IInv
  <2>3. /\ ihead \in 0 .. IBUFLEN - 1 /\ itail \in 0 .. IBUFLEN - 1
        /\ icursor \in 0 .. IBUFLEN
        /\ Len(unread) = icnt + icursor
        /\ \A i \in 1 .. icnt + icursor : ibuff[Place(itail + (i - 1))] = unread[i]
    BY <2>1, <2>2 DEF Ring
  <2>4. TypeOK
    <3>1. SemTypeOK
      BY <2>1 DEF SemTypeOK, SemRec, IInv, PcInv
    <3>2. /\ out.ohead \in 0 .. OBUFLEN - 1 /\ out.otail \in 0 .. OBUFLEN - 1
          /\ out.ehead \in 0 .. EBUFLEN - 1 /\ out.etail \in 0 .. EBUFLEN - 1
          /\ out.odsend \in 0 .. OBMINSP - 1
      BY <2>1 DEF OutRec
    <3> QED BY <2>2, <2>3, <3>1, <3>2 DEF TypeOK, IInv
  <2>5. InputIntact
    <3>1. ASSUME NEW i \in 1 .. Len(unread)
          PROVE  Peek(i) = unread[i]
      <4>1. i \in 1 .. icnt + icursor
        BY <2>3
      <4>2. itail + i - 1 = itail + (i - 1)
        BY <2>2, <2>3, <4>1
      <4>3. Peek(i) = ibuff[Place(itail + (i - 1))]
        BY <4>2 DEF Peek, Place
      <4> QED BY <2>3, <4>1, <4>3
    <3> QED BY <2>3, <2>4, <3>1 DEF InputIntact
  <2>6. InputSemaphore
    <3> DEFINE Granted == {p \in load.readers :
                  \E place \in {"getc", "nextc", "readWoken"} : Reached(p, place)}
    <3>1. Granted = InWait \ Waiting(semaph, isem)
      <4>1. ASSUME NEW p \in Granted
            PROVE  p \in InWait \ Waiting(semaph, isem)
        <5>1. p \in Proc /\ Runs(p) /\ pc[p].at \in InputPlaces
          BY IInvFacts DEF Reached, InputPlaces
        <5>2. p \in InWait
          BY <5>1 DEF InWait
        <5>3. p \notin Waiting(semaph, isem)
          BY <2>1, <5>1, RunsIs
        <5> QED BY <5>2, <5>3
      <4>2. ASSUME NEW p \in InWait \ Waiting(semaph, isem)
            PROVE  p \in Granted
        <5>1. p \in load.readers /\ pc[p].at \in InputPlaces
          BY DEF InWait, ReaderPlaces, IInv, PcInv
        <5>2. p \in Wants[isem]
          BY WantsFacts
        <5>3. Runs(p)
          BY <2>1, <5>2, LetThrough
        <5> QED BY <5>1, <5>3 DEF Reached, InputPlaces
      <4> QED BY <4>1, <4>2
    <3>2. scount(isem) = semaph[isem].cnt
      BY <2>1 DEF scount, Used
    <3>3. Positive(semaph[isem].cnt) + Cardinality(InWait \ Waiting(semaph, isem)) = icnt
      BY WantsFacts DEF IInv, Account
    <3> QED BY <3>1, <3>2, <3>3 DEF InputSemaphore
  <2>7. OutputAccounting
    <3>1. Admitted = OutWait \ Waiting(semaph, osem)
      BY <2>1, IInvFacts, AdmittedIs DEF IInv
    <3>2. scount(osem) = semaph[osem].cnt
      BY <2>1 DEF scount, Used
    <3>3. /\ Account(semaph, osem, Wants) + out.odsend + out.unsent = OBUFLEN - 0
          /\ out.odsend > 0 => semaph[osem].cnt <= OBMINSP
          /\ semaph[osem].cnt <= OBUFLEN - 0
          /\ Filled(out)
          /\ load.late \/ out.unsent >= 0
      BY IInvFacts DEF IInv, OutOK, OutBut, Floor
    <3> DEFINE c == Cardinality(OutWait \ Waiting(semaph, osem))
               m == Positive(semaph[osem].cnt)
    <3>4. Account(semaph, osem, Wants) = m + c
      BY WantsFacts DEF Account
    <3>5. m \in Nat /\ c \in Nat
      BY <2>1, TableFacts, WantsFacts
    <3>6. out.odsend \in Int /\ out.unsent \in Int /\ out.ohead \in Int /\ out.otail \in Int
      BY <2>1 DEF OutRec
    <3>7. Positive(scount(osem)) + out.odsend + out.unsent + Cardinality(Admitted) = OBUFLEN
      <4>1. Positive(scount(osem)) = m /\ Cardinality(Admitted) = c
        BY <3>1, <3>2
      <4> HIDE DEF m, c
      <4>2. m + out.odsend + out.unsent + c = OBUFLEN
        BY <2>1, <3>3, <3>4, <3>5, <3>6
      <4> QED BY <4>1, <4>2
    <3>8. (out.ohead - out.otail) % OBUFLEN = out.unsent % OBUFLEN
      <4> DEFINE a == out.ohead - out.otail
                 b == out.unsent
      <4>1. PICK q \in Int : a - b = OBUFLEN * q
        BY <3>3 DEF Filled
      <4>2. a \in Int /\ b \in Int
        BY <3>6
      <4> HIDE DEF a, b
      <4>3. a % OBUFLEN = b % OBUFLEN
        BY <2>1, <4>1, <4>2, SameRemainder
      <4> QED BY <4>3 DEF a, b
    <3>9. out.unsent >= IF load.late THEN - Cardinality(Admitted) ELSE 0
      <4>1. Positive(scount(osem)) = m /\ Cardinality(Admitted) = c
        BY <3>1, <3>2
      <4>2. /\ OBMINSP \in Nat \ {0} /\ OBUFLEN >= 2 * OBMINSP
            /\ out.odsend \in 0 .. OBMINSP - 1
            /\ semaph[osem].cnt \in Int /\ (m = 0 \/ m = semaph[osem].cnt)
        BY <2>1, TtyAssumption DEF OutRec, SemRec, Positive
      <4>3. m + out.odsend <= OBUFLEN
        <5>1. CASE out.odsend = 0
          BY <2>1, <3>3, <3>5, <4>2, <5>1
        <5>2. CASE out.odsend > 0
          BY <2>1, <3>3, <3>5, <4>2, <5>2
        <5> QED BY <4>2, <5>1, <5>2
      <4> HIDE DEF m, c
      <4>4. out.unsent >= - c
        BY <2>1, <3>3, <3>4, <3>5, <3>6, <4>3
      <4> QED BY <3>3, <4>1, <4>4
    <3> QED BY <3>2, <3>3, <3>7, <3>8, <3>9 DEF OutputAccounting
  <2> QED BY <2>5, <2>6, <2>7 DEF CharactersAccounted
<1> QED BY <1>1, <1>2, <1>3, PTL DEF Spec
===============================================================================
