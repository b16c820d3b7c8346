----------------------------- MODULE NetworkProofs -----------------------------
(***************************************************************************)
(* Theorems about Network, for any number of buffers, hosts, entries,      *)
(* reassembly queues and senders, any sizes of the queues, and every       *)
(* workload.                                                               *)
(*                                                                         *)
(* The conservation of packets does not hold when two processes pass enq's *)
(* look at the count together (run network_enq).  AloneInEnq says that it  *)
(* does not happen: what enq would see to if it looked at the count with   *)
(* interrupts disabled.                                                    *)
(***************************************************************************)
EXTENDS Network, SequenceTheorems, FiniteSetTheorems, WellFoundedInduction, TLAPS

Procs == Senders \union {Timer, IpProc}

AloneInEnq ==
    \A p, r \in Procs : pc[p].at = "insert" /\ pc[r].at = "insert" => p = r

-----------------------------------------------------------------------------
(* The inductive invariant *)

ArpEntry == [state : ArpStates, pra : Hosts \union {"local"},
             ttl : 0 .. Max({ARP_TIMEOUT, ARP_RESEND}), attempts : Nat, queue : Seq(Buf)]
FragQueue == [state : {"IPFF_FREE", "IPFF_VALID", "IPFF_BOGUS"}, id : Nat,
              ttl : 0 .. IP_FTTL, q : Seq(Buf)]
Holding == {"enq", "insert", "refused"}

Types ==
    /\ load \in Workloads
    /\ pool \subseteq Buf
    /\ pkt \in [Buf -> Packet]
    /\ arptable \in [Entry -> ArpEntry]
    /\ aenext \in Entry
    /\ ipfqt \in [Queue -> FragQueue]
    /\ ipinq \in [If -> Seq(Buf)]
    /\ ifnext \in 0 .. 2
    /\ ipmsg \in If \union {NoMsg}
    /\ ip \in [at : {"clear", "scan", "receive", "route"}, b : Buf \union {NoBuf}, i : 0 .. 2]
    /\ pc \in [Procs -> [at : Holding \union {"idle", "wake", "ipftimer"},
                         b : Buf \union {NoBuf}, i : Nat]]

(* No sequence holds a buffer twice, none is longer than its limit, and what *)
(* is not pending, or not valid, holds nothing.                              *)
NoDup(q) == \A j, k \in 1 .. Len(q) : q[j] = q[k] => j = k

ArpInv ==
    \A e \in Entry :
        /\ NoDup(arptable[e].queue) /\ Len(arptable[e].queue) <= ARP_QSIZE
        /\ arptable[e].state # "AS_PENDING" => arptable[e].queue = <<>>

FragInv ==
    \A i \in Queue :
        /\ NoDup(ipfqt[i].q) /\ Len(ipfqt[i].q) <= IP_FQSIZE
        /\ ipfqt[i].state # "IPFF_VALID" => ipfqt[i].q = <<>>

InqInv == \A i \in If : NoDup(ipinq[i])

(* Who has a buffer in hand, and what the slow timer is about to do. *)
ProcInv ==
    /\ ip.at = "route" <=> ip.b # NoBuf
    /\ \A p \in Procs : pc[p].at \in Holding <=> pc[p].b # NoBuf
    /\ \A p \in Procs : pc[p].at = "idle" => pc[p] = Idle
    /\ \A p \in Procs : pc[p].at = "ipftimer" => p = Timer
    /\ pc[Timer].at = "ipftimer" => /\ pc[Timer].i \in Queue
                                    /\ ipfqt[pc[Timer].i].state # "IPFF_FREE"
    /\ pc[IpProc].at # "idle" => ip.at = "clear"

(* The count enq has looked at still leaves room. *)
RoomInv == \A p \in Procs : pc[p].at = "insert" => Len(ipinq[NI_LOCAL]) < NI_INQSZ

(* A buffer is in one place at most; and in one, unless it held an ICMP     *)
(* error.                                                                   *)
NotInq(b) == \A i \in If : b \notin ToSet(ipinq[i])
NotArp(b) == \A e \in Entry : b \notin ToSet(arptable[e].queue)
NotFrag(b) == \A i \in Queue : b \notin ToSet(ipfqt[i].q)
NotHeld(b) == \A p \in Procs : pc[p].b # b

Apart(b) ==
    /\ b \in pool => NotInq(b) /\ NotArp(b) /\ NotFrag(b) /\ NotHeld(b) /\ ip.b # b
    /\ \A i \in If : b \in ToSet(ipinq[i]) =>
          /\ NotArp(b) /\ NotFrag(b) /\ NotHeld(b) /\ ip.b # b
          /\ \A j \in If : b \in ToSet(ipinq[j]) => j = i
    /\ \A e \in Entry : b \in ToSet(arptable[e].queue) =>
          /\ NotFrag(b) /\ NotHeld(b) /\ ip.b # b
          /\ \A f \in Entry : b \in ToSet(arptable[f].queue) => f = e
    /\ \A i \in Queue : b \in ToSet(ipfqt[i].q) =>
          /\ NotHeld(b) /\ ip.b # b
          /\ \A j \in Queue : b \in ToSet(ipfqt[j].q) => j = i
    /\ \A p \in Procs : pc[p].b = b => ip.b # b /\ \A r \in Procs : pc[r].b = b => r = p

Nowhere(b) == b \notin pool /\ NotInq(b) /\ NotArp(b) /\ NotFrag(b) /\ NotHeld(b) /\ ip.b # b

PlaceInv ==
    \A b \in Buf : /\ Apart(b)
                   /\ b \in load.bufs /\ pkt[b].kind # "error" => ~ Nowhere(b)
                   /\ b \in pool => pkt[b] = Blank

IInv == Types /\ ArpInv /\ FragInv /\ InqInv /\ ProcInv /\ RoomInv /\ PlaceInv

(* An interface that ipgetp has found empty has stayed so, or there is a     *)
(* message, or whoever filled the queue is about to send it.                 *)
Heard(n) ==
    \/ ipinq[n] = <<>>
    \/ ipmsg # NoMsg
    \/ n = NI_LOCAL /\ \E p \in Procs : pc[p].at \in {"wake", "refused"}

WakeInv ==
    /\ ip.at = "scan" /\ ip.i = 1 => ifnext \in {1, 2} /\ Heard(ifnext - 1)
    /\ ip.at = "scan" /\ ip.i = 2 => \A n \in If : Heard(n)
    /\ ip.at = "receive" => \A n \in If : Heard(n)

-----------------------------------------------------------------------------
(* Numbers and sequences *)

LEMMA LeastNumber ==
    ASSUME NEW T \in SUBSET Nat, T # {}
    PROVE  \E m \in T : \A k \in T : m <= k
<1> DEFINE R == OpToRel(<, Nat)
<1>1. IsWellFoundedOn(R, Nat)
  BY NatLessThanWellFounded
<1>2. \A x, y \in Nat : y < x => <<y, x>> \in R
  BY DEF OpToRel
<1> HIDE DEF R
<1>3. PICK m \in T : \A k \in T : ~ (<<k, m>> \in R)
  BY <1>1, WFMin
<1>4. ASSUME NEW k \in T PROVE m <= k
  <2>1. ~ (k < m)
    BY <1>2, <1>3
  <2> QED BY <2>1
<1> QED BY <1>4

LEMMA MinElement ==
    ASSUME NEW T \in SUBSET Nat, T # {}
    PROVE  Min(T) \in T /\ \A k \in T : Min(T) <= k
<1>1. PICK m \in T : \A k \in T : m <= k
  BY LeastNumber
<1> QED BY <1>1 DEF Min

LEMMA MaxElement ==
    ASSUME NEW n \in Nat, NEW T \in SUBSET (0 .. n), T # {}
    PROVE  Max(T) \in T /\ \A k \in T : k <= Max(T)
<1> DEFINE U == {n - k : k \in T}
<1>1. U \in SUBSET Nat /\ U # {}
  <2>1. \A k \in T : k \in Nat /\ k <= n
    OBVIOUS
  <2>2. \A k \in T : n - k \in Nat
    BY <2>1
  <2> QED BY <2>2
<1>2. PICK m \in U : \A k \in U : m <= k
  BY <1>1, LeastNumber
<1>3. PICK x \in T : m = n - x
  BY <1>2
<1>4. \A k \in T : x >= k
  <2> SUFFICES ASSUME NEW k \in T PROVE x >= k
    OBVIOUS
  <2>1. n - x <= n - k
    BY <1>2, <1>3
  <2> QED BY <2>1
<1>5. Max(T) \in T /\ \A k \in T : Max(T) >= k
  BY <1>3, <1>4 DEF Max
<1> QED BY <1>5

LEMMA InSeq ==
    ASSUME NEW q \in Seq(Buf)
    PROVE  /\ \A b : b \in ToSet(q) <=> \E k \in 1 .. Len(q) : q[k] = b
           /\ ToSet(q) \subseteq Buf
           /\ Len(q) \in Nat
BY DEF ToSet

LEMMA EmptyQueue ==
    /\ <<>> \in Seq(Buf) /\ Len(<<>>) = 0 /\ NoDup(<<>>)
    /\ ToSet(<<>>) = {}
<1>1. PICK q \in Seq(Buf) : q = <<>>
  <2>1. <<>> \in Seq(Buf)
    OBVIOUS
  <2> QED BY <2>1
<1>2. Len(q) = 0 /\ 1 .. 0 = {}
  BY <1>1
<1>3. \A b : b \notin ToSet(q)
  BY <1>2, InSeq
<1>4. NoDup(q)
  BY <1>2 DEF NoDup
<1> QED BY <1>1, <1>2, <1>3, <1>4

LEMMA OneInQueue ==
    ASSUME NEW b \in Buf
    PROVE  /\ <<b>> \in Seq(Buf) /\ Len(<<b>>) = 1 /\ NoDup(<<b>>)
           /\ ToSet(<<b>>) = {b}
<1>1. PICK q \in Seq(Buf) : q = <<b>>
  <2>1. <<b>> \in Seq(Buf)
    OBVIOUS
  <2> QED BY <2>1
<1>2. Len(q) = 1 /\ q[1] = b /\ 1 .. 1 = {1}
  BY <1>1
<1>3. \A c : c \in ToSet(q) <=> c = b
  BY <1>2, InSeq
<1>4. NoDup(q)
  BY <1>2 DEF NoDup
<1> QED BY <1>1, <1>2, <1>3, <1>4

LEMMA AppendQueue ==
    ASSUME NEW q \in Seq(Buf), NEW b \in Buf, NoDup(q), b \notin ToSet(q)
    PROVE  /\ Append(q, b) \in Seq(Buf) /\ Len(Append(q, b)) = Len(q) + 1
           /\ NoDup(Append(q, b))
           /\ ToSet(Append(q, b)) = ToSet(q) \union {b}
<1>1. PICK m \in Seq(Buf) : m = Append(q, b)
  <2>1. Append(q, b) \in Seq(Buf)
    OBVIOUS
  <2> QED BY <2>1
<1>2. /\ Len(m) = Len(q) + 1 /\ Len(q) \in Nat
      /\ \A k \in 1 .. Len(q) : m[k] = q[k]
      /\ m[Len(q) + 1] = b
  BY <1>1
<1>3. \A k : k \in 1 .. Len(q) + 1 <=> k \in 1 .. Len(q) \/ k = Len(q) + 1
  BY <1>2
<1>4. NoDup(m)
  BY <1>2, <1>3, InSeq DEF NoDup
<1>5. \A c : c \in ToSet(m) <=> c \in ToSet(q) \/ c = b
  BY <1>2, <1>3, InSeq
<1> QED BY <1>1, <1>2, <1>4, <1>5

LEMMA TailOfQueue ==
    ASSUME NEW q \in Seq(Buf), NoDup(q), q # <<>>
    PROVE  /\ Tail(q) \in Seq(Buf) /\ Len(Tail(q)) < Len(q)
           /\ NoDup(Tail(q))
           /\ Head(q) \in ToSet(q)
           /\ ToSet(Tail(q)) = ToSet(q) \ {Head(q)}
<1>a. PICK t \in Seq(Buf) : t = Tail(q)
  <2>1. Tail(q) \in Seq(Buf)
    OBVIOUS
  <2> QED BY <2>1
<1>1. /\ Len(t) = Len(q) - 1 /\ Len(q) \in Nat \ {0}
      /\ Head(q) = q[1]
      /\ \A k \in 1 .. Len(q) - 1 : t[k] = q[k + 1]
  BY <1>a
<1>2. NoDup(t)
  <2> SUFFICES ASSUME NEW j \in 1 .. Len(q) - 1, NEW k \in 1 .. Len(q) - 1, q[j + 1] = q[k + 1]
               PROVE  j = k
    BY <1>1 DEF NoDup
  <2>1. j + 1 \in 1 .. Len(q) /\ k + 1 \in 1 .. Len(q)
    BY <1>1
  <2>2. j + 1 = k + 1
    BY <2>1 DEF NoDup
  <2> QED BY <2>2
<1>3. ASSUME NEW c \in ToSet(t) PROVE c \in ToSet(q) /\ c # q[1]
  <2>1. PICK k \in 1 .. Len(q) - 1 : c = q[k + 1]
    BY <1>1, <1>3, InSeq
  <2>2. k + 1 \in 1 .. Len(q) /\ k + 1 # 1 /\ 1 \in 1 .. Len(q)
    BY <1>1
  <2> QED BY <2>1, <2>2, InSeq DEF NoDup
<1>4. ASSUME NEW c \in ToSet(q), c # q[1] PROVE c \in ToSet(t)
  <2>1. PICK k \in 1 .. Len(q) : c = q[k]
    BY InSeq
  <2>2. k - 1 \in 1 .. Len(q) - 1 /\ (k - 1) + 1 = k
    BY <2>1, <1>4, <1>1
  <2>3. t[k - 1] = c
    BY <2>1, <2>2, <1>1
  <2> QED BY <2>2, <2>3, <1>1, InSeq
<1>5. 1 \in 1 .. Len(q) /\ q[1] \in ToSet(q)
  <2>1. 1 \in 1 .. Len(q)
    BY <1>1
  <2> QED BY <2>1, InSeq
<1> QED BY <1>a, <1>1, <1>2, <1>3, <1>4, <1>5

(* What enq does to a queue, element by element. *)
LEMMA InsertedQueue ==
    ASSUME NEW q \in Seq(Buf), NEW b \in Buf, NoDup(q), b \notin ToSet(q),
           NEW key \in [Buf -> Int]
    PROVE  /\ Inserted(q, b, key) \in Seq(Buf)
           /\ Len(Inserted(q, b, key)) = Len(q) + 1
           /\ NoDup(Inserted(q, b, key))
           /\ ToSet(Inserted(q, b, key)) = ToSet(q) \union {b}
<1> DEFINE T == {j \in 1 .. Len(q) : key[b] <= key[q[j]]} \union {0}
           i == Max(T) + 1
           x == SubSeq(q, 1, i - 1)
           y == SubSeq(q, i, Len(q))
           m == Inserted(q, b, key)
<1>1. i \in 1 .. Len(q) + 1
  <2>1. T \in SUBSET (0 .. Len(q)) /\ T # {} /\ Len(q) \in Nat
    OBVIOUS
  <2>2. Max(T) \in 0 .. Len(q)
    BY <2>1, MaxElement
  <2> QED BY <2>2
<1> HIDE DEF i
<1>2. /\ x \in Seq(Buf) /\ Len(x) = i - 1
      /\ \A j \in 1 .. i - 1 : x[j] = q[j]
  BY <1>1, SubSeqProperties
<1>3. /\ y \in Seq(Buf) /\ Len(y) = Len(q) - i + 1
      /\ \A j \in 1 .. Len(q) - i + 1 : y[j] = q[i + j - 1]
  BY <1>1, SubSeqProperties
<1>4. m = x \o <<b>> \o y
  BY DEF Inserted, InsertAt, i
<1> HIDE DEF x, y, m
<1>5. /\ x \o <<b>> \in Seq(Buf) /\ Len(x \o <<b>>) = i
      /\ \A j \in 1 .. i : (x \o <<b>>)[j] = IF j < i THEN q[j] ELSE b
  BY <1>1, <1>2, ConcatProperties
<1>6. PICK z \in Seq(Buf) : z = x \o <<b>>
  BY <1>5
<1>7. /\ m \in Seq(Buf) /\ Len(m) = i + Len(y)
      /\ \A j \in 1 .. i + Len(y) : m[j] = IF j <= i THEN z[j] ELSE y[j - i]
  <2>1. m = z \o y /\ Len(z) = i
    BY <1>4, <1>5, <1>6
  <2>2. /\ z \o y \in Seq(Buf) /\ Len(z \o y) = Len(z) + Len(y)
        /\ \A j \in 1 .. Len(z) + Len(y) : (z \o y)[j] = IF j <= Len(z) THEN z[j] ELSE y[j - Len(z)]
    BY <1>3, ConcatProperties
  <2> QED BY <2>1, <2>2
<1>8. Len(m) = Len(q) + 1 /\ Len(q) \in Nat
  BY <1>1, <1>3, <1>7
<1>9. ASSUME NEW j \in 1 .. Len(q) + 1
      PROVE  m[j] = IF j < i THEN q[j] ELSE IF j = i THEN b ELSE q[j - 1]
  <2>0. j \in 1 .. i + Len(y)
    BY <1>1, <1>3
  <2>1. CASE j <= i
    <3>1. j \in 1 .. i /\ m[j] = z[j]
      BY <2>0, <2>1, <1>1, <1>7
    <3>2. z[j] = IF j < i THEN q[j] ELSE b
      BY <3>1, <1>5, <1>6
    <3> QED BY <2>1, <3>1, <3>2, <1>1
  <2>2. CASE j > i
    <3>1. j - i \in 1 .. Len(q) - i + 1 /\ i + (j - i) - 1 = j - 1
      BY <2>2, <1>1
    <3>2. y[j - i] = q[j - 1]
      BY <3>1, <1>3
    <3>3. m[j] = y[j - i]
      <4>1. ~ (j <= i)
        BY <2>2, <1>1
      <4> QED BY <2>0, <4>1, <1>7
    <3> QED BY <3>2, <3>3, <2>2, <1>1
  <2> QED BY <2>1, <2>2, <1>1
<1>10. NoDup(m)
  <2> DEFINE g(j) == IF j < i THEN j ELSE j - 1
  <2>1. \A j \in 1 .. Len(q) + 1 : j # i => g(j) \in 1 .. Len(q) /\ m[j] = q[g(j)]
    BY <1>1, <1>8, <1>9
  <2>2. \A j, k \in 1 .. Len(q) + 1 : j # i /\ k # i /\ g(j) = g(k) => j = k
    BY <1>1, <1>8
  <2>3. m[i] = b
    BY <1>1, <1>9
  <2> HIDE DEF g
  <2> SUFFICES ASSUME NEW j \in 1 .. Len(q) + 1, NEW k \in 1 .. Len(q) + 1, m[j] = m[k]
               PROVE  j = k
    BY <1>8 DEF NoDup
  <2>4. CASE j # i /\ k # i
    BY <2>1, <2>2, <2>4 DEF NoDup
  <2>5. CASE j = i \/ k = i
    BY <2>1, <2>3, <2>5, InSeq
  <2> QED BY <2>4, <2>5
<1>11. ASSUME NEW c \in ToSet(m) PROVE c \in ToSet(q) \union {b}
  <2>1. PICK j \in 1 .. Len(q) + 1 : c = m[j]
    BY <1>7, <1>8, <1>11, InSeq
  <2>2. CASE j < i
    <3>1. j \in 1 .. Len(q) /\ c = q[j]
      BY <2>1, <2>2, <1>1, <1>8, <1>9
    <3> QED BY <3>1, InSeq
  <2>3. CASE j = i
    BY <2>1, <2>3, <1>1, <1>9
  <2>4. CASE j > i
    <3>1. j - 1 \in 1 .. Len(q) /\ c = q[j - 1]
      BY <2>1, <2>4, <1>1, <1>8, <1>9
    <3> QED BY <3>1, InSeq
  <2> QED BY <2>2, <2>3, <2>4, <1>1
<1>12. ASSUME NEW c \in ToSet(q) \union {b} PROVE c \in ToSet(m)
  <2>1. CASE c = b
    BY <2>1, <1>1, <1>7, <1>8, <1>9, InSeq
  <2>2. CASE c \in ToSet(q)
    <3>1. PICK k \in 1 .. Len(q) : q[k] = c
      BY <2>2, InSeq
    <3>2. CASE k < i
      <4>1. k \in 1 .. Len(q) + 1 /\ m[k] = c
        BY <3>1, <3>2, <1>8, <1>9
      <4> QED BY <4>1, <1>7, <1>8, InSeq
    <3>3. CASE k >= i
      <4>1. k + 1 \in 1 .. Len(q) + 1 /\ (k + 1) - 1 = k /\ ~ (k + 1 < i) /\ k + 1 # i
        BY <3>1, <3>3, <1>1, <1>8
      <4>2. m[k + 1] = c
        BY <4>1, <3>1, <1>9
      <4> QED BY <4>1, <4>2, <1>7, <1>8, InSeq
    <3> QED BY <3>2, <3>3, <1>1
  <2> QED BY <2>1, <2>2
<1>13. ToSet(m) = ToSet(q) \union {b}
  BY <1>11, <1>12
<1> QED BY <1>7, <1>8, <1>10, <1>13 DEF m

LEMMA Interfaces ==
    /\ If = {0, 1} /\ Cardinality(If) = 2
    /\ NoBuf \notin Buf
<1>1. If = {0, 1} /\ IsFiniteSet({1}) /\ Cardinality({1}) = 1
  BY FS_Singleton DEF If, NI_LOCAL, NI_PRIMARY
<1>2. Cardinality({1} \cup {0}) = 2
  BY <1>1, FS_AddElement
<1>3. {1} \cup {0} = {0, 1}
  OBVIOUS
<1> QED BY <1>1, <1>2, <1>3, NetBufsAssumption DEF NoBuf

LEMMA BlankIsPacket ==
    Blank \in Packet /\ Blank.kind = "data"
BY NetBufsAssumption DEF Blank, Packet, Kinds

LEMMA EntryFacts ==
    /\ Entry \subseteq Nat /\ Entry # {}
    /\ \A e \in Entry : (e + 1) % ARP_TSIZE \in Entry
    /\ \A e \in Entry, k \in Nat : (e + k) % ARP_TSIZE \in Entry
<1>1. ARP_TSIZE \in Nat \ {0}
  BY ArpAssumption
<1>2. \A x \in Nat : x % ARP_TSIZE \in 0 .. ARP_TSIZE - 1
  BY <1>1
<1> QED BY <1>1, <1>2 DEF Entry
-----------------------------------------------------------------------------
(* What every step's proof uses *)

LEMMA LoadFacts ==
    ASSUME load \in Workloads
    PROVE  /\ load.arrive \subseteq Packet /\ load.sent \subseteq Packet
           /\ load.arp \subseteq Hosts /\ load.senders \subseteq Procs \ {Timer, IpProc}
           /\ load.bufs \subseteq Buf
<1>1. load \in Workload
  BY NetworkAssumption
<1> QED BY <1>1, NetworkAssumption DEF Workload, Procs

LEMMA NewBufFree ==
    ASSUME pool # {}
    PROVE  NewBuf \in pool
BY DEF NewBuf

LEMMA ForgetPackets ==
    ASSUME pkt \in [Buf -> Packet], Forget
    PROVE  /\ pkt' \in [Buf -> Packet]
           /\ \A b \in Buf : b \in pool' => pkt'[b] = Blank
           /\ \A b \in Buf : b \notin pool' => pkt'[b] = pkt[b]
BY BlankIsPacket DEF Forget

(* To keep PlaceInv, a step has to keep every buffer apart and lose none    *)
(* but that of an error.                                                    *)
LEMMA PlaceStep ==
    ASSUME PlaceInv, load' = load,
           \A b \in Buf : Apart(b)',
           \A b \in Buf : Nowhere(b)' => Nowhere(b) \/ pkt[b].kind = "error",
           \A b \in Buf : b \in pool' => pkt'[b] = Blank,
           \A b \in Buf : pkt[b].kind = "error" /\ pkt'[b].kind # "error" => ~ Nowhere(b)'
    PROVE  PlaceInv'
BY DEF PlaceInv

LEMMA PlaceStepForget ==
    ASSUME PlaceInv, pkt \in [Buf -> Packet], Forget, load' = load,
           \A b \in Buf : Apart(b)' /\ (Nowhere(b)' => Nowhere(b))
    PROVE  PlaceInv'
<1>1. /\ \A b \in Buf : b \in pool' => pkt'[b] = Blank
      /\ \A b \in Buf : b \notin pool' => pkt'[b] = pkt[b]
  BY ForgetPackets
<1>2. \A b \in Buf : b \in pool' => ~ Nowhere(b)'
  BY DEF Nowhere
<1> QED BY <1>1, <1>2, PlaceStep

LEMMA PlaceStepSame ==
    ASSUME PlaceInv, pkt' = pkt, load' = load, pool' \subseteq pool,
           \A b \in Buf : Apart(b)' /\ (Nowhere(b)' => Nowhere(b))
    PROVE  PlaceInv'
BY PlaceStep DEF PlaceInv

-----------------------------------------------------------------------------
(* Input and output by the interrupts and by processes *)

LEMMA IpInKeeps ==
    ASSUME IInv, NEW c \in load.arrive, ip_in(c)
    PROVE  IInv'
<1>1. Types /\ ArpInv /\ FragInv /\ InqInv /\ ProcInv /\ RoomInv /\ PlaceInv
  BY DEF IInv
<1>2. /\ NewBuf \in pool /\ NewBuf \in Buf
      /\ ipmsg' \in If \union {NoMsg}
      /\ UNCHANGED <<arptable, aenext, ipfqt, joined, ifnext, ip, pc, load>>
  BY <1>1, NewBufFree DEF ip_in, arpVars, fragVars, Types, Woken, If
<1>3. CASE Full(ipinq[NI_PRIMARY], NI_INQSZ)
  <2>1. UNCHANGED <<pool, pkt, ipinq>>
    BY <1>3 DEF ip_in
  <2>2. \A b \in Buf : Apart(b)' /\ (Nowhere(b)' => Nowhere(b))
    BY <2>1, <1>1, <1>2 DEF Apart, Nowhere, NotInq, NotArp, NotFrag, NotHeld, PlaceInv
  <2>3. PlaceInv'
    BY <2>1, <2>2, <1>1, <1>2, PlaceStepSame
  <2> QED BY <2>1, <2>3, <1>1, <1>2 DEF IInv, Types, ArpInv, FragInv, InqInv, ProcInv, RoomInv
<1>4. CASE ~ Full(ipinq[NI_PRIMARY], NI_INQSZ)
  <2>1. PICK q : q = Inserted(ipinq[NI_PRIMARY], NewBuf, [Prec EXCEPT ![NewBuf] = c.prec])
    OBVIOUS
  <2>2. PICK n \in Buf : n = NewBuf /\ n \in pool
    BY <1>2
  <2>3. /\ pool' = pool \ {n}
        /\ pkt' = [pkt EXCEPT ![n] = c]
        /\ ipinq' = [ipinq EXCEPT ![NI_PRIMARY] = q]
    BY <1>4, <2>1, <2>2 DEF ip_in
  <2>4. c \in Packet /\ 0 \in If /\ 1 \in If /\ NI_PRIMARY = 1 /\ NI_LOCAL = 0
    BY <1>1, LoadFacts, Interfaces DEF Types, NI_PRIMARY, NI_LOCAL
  <2>5. /\ ipinq[NI_PRIMARY] \in Seq(Buf) /\ NoDup(ipinq[NI_PRIMARY])
        /\ n \notin ToSet(ipinq[NI_PRIMARY])
    BY <1>1, <2>2, <2>4 DEF Types, InqInv, PlaceInv, Apart, NotInq
  <2>6. [Prec EXCEPT ![n] = c.prec] \in [Buf -> Int]
    BY <1>1, <2>4 DEF Prec, Types, Packet
  <2>7. q \in Seq(Buf) /\ NoDup(q) /\ ToSet(q) = ToSet(ipinq[NI_PRIMARY]) \union {n}
    BY <2>1, <2>2, <2>5, <2>6, InsertedQueue
  <2>8. ipinq'[NI_PRIMARY] = q /\ \A i \in If : i # NI_PRIMARY => ipinq'[i] = ipinq[i]
    BY <1>1, <2>3, <2>4 DEF Types
  <2>9. Types' /\ ArpInv' /\ FragInv' /\ InqInv' /\ ProcInv' /\ RoomInv'
    <3>1. Types'
      BY <1>1, <1>2, <2>3, <2>4, <2>7 DEF Types
    <3>2. InqInv'
      BY <1>1, <2>7, <2>8 DEF InqInv
    <3>3. RoomInv'
      BY <1>1, <1>2, <2>4, <2>8 DEF RoomInv
    <3> QED BY <3>1, <3>2, <3>3, <1>1, <1>2 DEF ArpInv, FragInv, ProcInv
  <2>10. ASSUME NEW b \in Buf PROVE Apart(b)' /\ (Nowhere(b)' => Nowhere(b))
    <3>1. Apart(b)
      BY <1>1 DEF PlaceInv
    <3>2. \A i \in If : b \in ToSet(ipinq'[i]) <=> b \in ToSet(ipinq[i]) \/ (i = NI_PRIMARY /\ b = n)
      BY <2>7, <2>8
    <3>3. b \in pool' <=> b \in pool /\ b # n
      BY <2>3
    <3>4. CASE b = n
      BY <3>1, <3>2, <3>3, <3>4, <1>2, <2>2, <2>4
         DEF Apart, Nowhere, NotInq, NotArp, NotFrag, NotHeld
    <3>5. CASE b # n
      BY <3>1, <3>2, <3>3, <3>5, <1>2
         DEF Apart, Nowhere, NotInq, NotArp, NotFrag, NotHeld
    <3> QED BY <3>4, <3>5
  <2>11. \A b \in Buf : b # n => pkt'[b] = pkt[b]
    BY <1>1, <2>3 DEF Types
  <2>12. pkt[n] = Blank /\ pkt[n].kind # "error"
    BY <1>1, <2>2, BlankIsPacket DEF PlaceInv
  <2>13. PlaceInv'
    <3>1. \A b \in Buf : b \in pool' => pkt'[b] = Blank
      BY <1>1, <2>3, <2>11 DEF PlaceInv
    <3> QED BY <3>1, <2>10, <2>11, <2>12, <1>1, <1>2, PlaceStep
  <2> QED BY <2>9, <2>13 DEF IInv
<1> QED BY <1>3, <1>4

LEMMA IpsendKeeps ==
    ASSUME IInv, NEW p \in load.senders, ipsend(p)
    PROVE  IInv'
<1>1. Types /\ ArpInv /\ FragInv /\ InqInv /\ ProcInv /\ RoomInv /\ PlaceInv
  BY DEF IInv
<1>2. PICK n \in Buf : n = NewBuf /\ n \in pool
  BY <1>1, NewBufFree DEF ipsend, Types
<1>3. PICK c \in load.sent : pkt' = [pkt EXCEPT ![n] = c]
  BY <1>2 DEF ipsend
<1>4. /\ pc[p] = Idle
      /\ pool' = pool \ {n}
      /\ pc' = [pc EXCEPT ![p] = Frame("enq", n, 0)]
      /\ UNCHANGED <<arptable, aenext, ipfqt, joined, ipinq, ifnext, ipmsg, ip, load>>
  BY <1>2 DEF ipsend, arpVars, fragVars, ipVars
<1>5. /\ c \in Packet /\ p \in Procs \ {Timer, IpProc}
      /\ NoBuf \notin Buf
  BY <1>1, LoadFacts, Interfaces DEF Types
<1>6. /\ pc'[p].at = "enq" /\ pc'[p].b = n /\ pc[p].b = NoBuf /\ pc[p].at = "idle"
      /\ \A r \in Procs : r # p => pc'[r] = pc[r]
  BY <1>1, <1>4, <1>5 DEF Types, Frame, Idle
<1>7. Types'
  <2>1. pc' \in [Procs -> [at : Holding \union {"idle", "wake", "ipftimer"},
                           b : Buf \union {NoBuf}, i : Nat]]
    BY <1>1, <1>4 DEF Types, Frame, Holding
  <2> QED BY <2>1, <1>1, <1>3, <1>4, <1>5 DEF Types
<1>8. ProcInv'
  BY <1>1, <1>4, <1>5, <1>6 DEF ProcInv, Holding, Procs
<1>9. RoomInv'
  BY <1>1, <1>4, <1>6 DEF RoomInv
<1>10. ASSUME NEW b \in Buf PROVE Apart(b)' /\ (Nowhere(b)' => Nowhere(b))
  <2>1. Apart(b)
    BY <1>1 DEF PlaceInv
  <2>2. \A r \in Procs : pc'[r].b = b <=> pc[r].b = b \/ (r = p /\ b = n)
    BY <1>5, <1>6
  <2>3. b \in pool' <=> b \in pool /\ b # n
    BY <1>4
  <2>4. CASE b = n
    BY <2>1, <2>2, <2>3, <2>4, <1>2, <1>4, <1>5
       DEF Apart, Nowhere, NotInq, NotArp, NotFrag, NotHeld
  <2>5. CASE b # n
    BY <2>1, <2>2, <2>3, <2>5, <1>4
       DEF Apart, Nowhere, NotInq, NotArp, NotFrag, NotHeld
  <2> QED BY <2>4, <2>5
<1>11. PlaceInv'
  <2>1. \A b \in Buf : b # n => pkt'[b] = pkt[b]
    BY <1>1, <1>3 DEF Types
  <2>2. pkt[n] = Blank /\ pkt[n].kind # "error"
    BY <1>1, <1>2, BlankIsPacket DEF PlaceInv
  <2>3. \A b \in Buf : b \in pool' => pkt'[b] = Blank
    BY <1>1, <1>4, <2>1 DEF PlaceInv
  <2> QED BY <2>1, <2>2, <2>3, <1>10, <1>1, <1>4, PlaceStep
<1> QED BY <1>1, <1>4, <1>7, <1>8, <1>9, <1>11 DEF IInv, ArpInv, FragInv, InqInv

LEMMA EnqCheckKeeps ==
    ASSUME IInv, NEW p \in Procs, enqCheck(p)
    PROVE  IInv'
<1>1. Types /\ ArpInv /\ FragInv /\ InqInv /\ ProcInv /\ RoomInv /\ PlaceInv
  BY DEF IInv
<1>2. /\ pc[p].at = "enq"
      /\ pc' = [pc EXCEPT ![p] = [@ EXCEPT !.b = pc[p].b,
                  !.at = IF Full(ipinq[NI_LOCAL], NI_INQSZ) THEN "refused" ELSE "insert"]]
      /\ UNCHANGED <<pool, pkt, arptable, aenext, ipfqt, joined, ipinq, ifnext, ipmsg, ip, load>>
  BY DEF enqCheck, EnqChecked, arpVars, fragVars, ipVars
<1>3. /\ pc'[p].b = pc[p].b /\ pc'[p].i = pc[p].i
      /\ pc'[p].at \in {"refused", "insert"}
      /\ pc'[p].at = "insert" => ~ Full(ipinq[NI_LOCAL], NI_INQSZ)
      /\ pc'[p] \in [at : Holding \union {"idle", "wake", "ipftimer"},
                     b : Buf \union {NoBuf}, i : Nat]
      /\ \A r \in Procs : r # p => pc'[r] = pc[r]
  BY <1>1, <1>2 DEF Types, Holding
<1>4. Types'
  BY <1>1, <1>2, <1>3 DEF Types
<1>5. ProcInv'
  <2>1. \A r \in Procs : pc'[r].b = pc[r].b
    BY <1>3
  <2>2. \A r \in Procs : (pc'[r].at \in Holding <=> pc[r].at \in Holding)
    BY <1>2, <1>3 DEF Holding
  <2> QED BY <2>1, <2>2, <1>1, <1>2, <1>3 DEF ProcInv
<1>6. RoomInv'
  <2>1. ipinq[NI_LOCAL] \in Seq(Buf) /\ NI_INQSZ \in Nat
    BY <1>1, NetworkAssumption DEF Types, If
  <2>2. ~ Full(ipinq[NI_LOCAL], NI_INQSZ) => Len(ipinq[NI_LOCAL]) < NI_INQSZ
    BY <2>1, InSeq DEF Full
  <2> QED BY <2>2, <1>1, <1>2, <1>3 DEF RoomInv
<1>7. PlaceInv'
  <2>1. \A r \in Procs : pc'[r].b = pc[r].b
    BY <1>3
  <2>2. \A b \in Buf : Apart(b)' /\ (Nowhere(b)' => Nowhere(b))
    BY <2>1, <1>1, <1>2 DEF Apart, Nowhere, NotInq, NotArp, NotFrag, NotHeld, PlaceInv
  <2> QED BY <2>2, <1>1, <1>2, PlaceStepSame
<1> QED BY <1>1, <1>2, <1>4, <1>5, <1>6, <1>7 DEF IInv, ArpInv, FragInv, InqInv

(* The only process in enq finds the room it has seen: nothing is refused   *)
(* that is in the queue.                                                    *)
LEMMA EnqInsertKeeps ==
    ASSUME IInv, AloneInEnq, NEW p \in Procs, enqInsert(p)
    PROVE  IInv'
<1>1. Types /\ ArpInv /\ FragInv /\ InqInv /\ ProcInv /\ RoomInv /\ PlaceInv
  BY DEF IInv
<1>2. PICK n : n = pc[p].b
  OBVIOUS
<1>3. PICK q : q = Inserted(ipinq[NI_LOCAL], n, [b \in Buf |-> 0])
  OBVIOUS
<1>4. /\ pc[p].at = "insert"
      /\ ipinq' = [ipinq EXCEPT ![NI_LOCAL] = q]
      /\ pc' = [pc EXCEPT ![p] = IF Refused(q, NI_INQSZ) THEN [@ EXCEPT !.at = "refused"]
                                 ELSE [@ EXCEPT !.at = "wake", !.b = NoBuf]]
      /\ UNCHANGED <<pool, pkt, arptable, aenext, ipfqt, joined, ifnext, ipmsg, ip, load>>
  BY <1>2, <1>3 DEF enqInsert, arpVars, fragVars
<1>5. /\ n \in Buf /\ n # NoBuf /\ NI_LOCAL \in If
      /\ ipinq[NI_LOCAL] \in Seq(Buf) /\ NoDup(ipinq[NI_LOCAL])
      /\ n \notin ToSet(ipinq[NI_LOCAL]) /\ Len(ipinq[NI_LOCAL]) < NI_INQSZ
      /\ NoBuf \notin Buf
  <2>1. n \in Buf /\ n # NoBuf /\ NI_LOCAL \in If
    BY <1>1, <1>2, <1>4 DEF Types, ProcInv, Holding, If
  <2>2. Apart(n)
    BY <1>1, <2>1 DEF PlaceInv
  <2>3. n \notin ToSet(ipinq[NI_LOCAL])
    BY <1>2, <2>1, <2>2 DEF Apart, NotHeld
  <2> QED BY <1>1, <1>4, <2>1, <2>3, Interfaces DEF Types, InqInv, RoomInv
<1>6. /\ q \in Seq(Buf) /\ NoDup(q) /\ ToSet(q) = ToSet(ipinq[NI_LOCAL]) \union {n}
      /\ Len(q) = Len(ipinq[NI_LOCAL]) + 1
  BY <1>3, <1>5, InsertedQueue
<1>7. ~ Refused(q, NI_INQSZ)
  <2>1. Len(ipinq[NI_LOCAL]) \in Nat /\ NI_INQSZ \in Nat
    BY <1>5, InSeq, NetworkAssumption
  <2> QED BY <2>1, <1>5, <1>6 DEF Refused
<1>8. /\ pc'[p].at = "wake" /\ pc'[p].b = NoBuf /\ pc'[p].i = pc[p].i
      /\ pc'[p] \in [at : Holding \union {"idle", "wake", "ipftimer"},
                     b : Buf \union {NoBuf}, i : Nat]
      /\ \A r \in Procs : r # p => pc'[r] = pc[r]
  BY <1>1, <1>4, <1>7 DEF Types
<1>9. ipinq'[NI_LOCAL] = q /\ \A i \in If : i # NI_LOCAL => ipinq'[i] = ipinq[i]
  BY <1>1, <1>4, <1>5 DEF Types
<1>10. Types'
  BY <1>1, <1>4, <1>6, <1>7 DEF Types
<1>11. InqInv'
  BY <1>1, <1>6, <1>9 DEF InqInv
<1>12. ProcInv'
  BY <1>1, <1>4, <1>8 DEF ProcInv, Holding
<1>13. RoomInv'
  BY <1>4, <1>8 DEF RoomInv, AloneInEnq
<1>14. ASSUME NEW b \in Buf PROVE Apart(b)' /\ (Nowhere(b)' => Nowhere(b))
  <2>1. Apart(b)
    BY <1>1 DEF PlaceInv
  <2>2. \A i \in If : b \in ToSet(ipinq'[i]) <=> b \in ToSet(ipinq[i]) \/ (i = NI_LOCAL /\ b = n)
    BY <1>6, <1>9
  <2>3. \A r \in Procs : pc'[r].b = b <=> pc[r].b = b /\ r # p
    BY <1>5, <1>8
  <2>4. CASE b = n
    BY <2>1, <2>2, <2>3, <2>4, <1>2, <1>4, <1>5
       DEF Apart, Nowhere, NotInq, NotArp, NotFrag, NotHeld
  <2>5. CASE b # n
    BY <2>1, <2>2, <2>3, <2>5, <1>2, <1>4
       DEF Apart, Nowhere, NotInq, NotArp, NotFrag, NotHeld
  <2> QED BY <2>4, <2>5
<1>15. PlaceInv'
  BY <1>14, <1>1, <1>4, PlaceStepSame
<1> QED BY <1>1, <1>4, <1>10, <1>11, <1>12, <1>13, <1>15 DEF IInv, ArpInv, FragInv

LEMMA EnqRefusedKeeps ==
    ASSUME IInv, NEW p \in Procs, enqRefused(p)
    PROVE  IInv'
<1>1. Types /\ ArpInv /\ FragInv /\ InqInv /\ ProcInv /\ RoomInv /\ PlaceInv
  BY DEF IInv
<1>2. PICK n : n = pc[p].b
  OBVIOUS
<1>3. /\ pc[p].at = "refused"
      /\ pool' = pool \union {n}
      /\ Forget
      /\ pc' = [pc EXCEPT ![p] = [@ EXCEPT !.at = "wake", !.b = NoBuf]]
      /\ UNCHANGED <<arptable, aenext, ipfqt, joined, ipinq, ifnext, ipmsg, ip, load>>
  BY <1>2 DEF enqRefused, arpVars, fragVars, ipVars
<1>4. n \in Buf /\ n # NoBuf /\ NoBuf \notin Buf
  BY <1>1, <1>2, <1>3, Interfaces DEF Types, ProcInv, Holding
<1>5. /\ pc'[p].at = "wake" /\ pc'[p].b = NoBuf /\ pc'[p].i = pc[p].i
      /\ pc'[p] \in [at : Holding \union {"idle", "wake", "ipftimer"},
                     b : Buf \union {NoBuf}, i : Nat]
      /\ \A r \in Procs : r # p => pc'[r] = pc[r]
  BY <1>1, <1>3 DEF Types
<1>6. Types'
  BY <1>1, <1>3, <1>4, <1>5, ForgetPackets DEF Types
<1>7. ProcInv'
  BY <1>1, <1>3, <1>5 DEF ProcInv, Holding
<1>8. RoomInv'
  BY <1>1, <1>3, <1>5 DEF RoomInv
<1>9. ASSUME NEW b \in Buf PROVE Apart(b)' /\ (Nowhere(b)' => Nowhere(b))
  <2>1. Apart(b)
    BY <1>1 DEF PlaceInv
  <2>2. \A r \in Procs : pc'[r].b = b <=> pc[r].b = b /\ r # p
    BY <1>4, <1>5
  <2>3. b \in pool' <=> b \in pool \/ b = n
    BY <1>3
  <2>4. CASE b = n
    BY <2>1, <2>2, <2>3, <2>4, <1>2, <1>3, <1>4
       DEF Apart, Nowhere, NotInq, NotArp, NotFrag, NotHeld
  <2>5. CASE b # n
    BY <2>1, <2>2, <2>3, <2>5, <1>2, <1>3
       DEF Apart, Nowhere, NotInq, NotArp, NotFrag, NotHeld
  <2> QED BY <2>4, <2>5
<1>10. PlaceInv'
  BY <1>9, <1>1, <1>3, PlaceStepForget DEF Types
<1> QED BY <1>1, <1>3, <1>6, <1>7, <1>8, <1>10 DEF IInv, ArpInv, FragInv, InqInv

(* What ipftimer goes on with. *)
LEMMA NextQueueFacts ==
    ASSUME NEW i \in Nat
    PROVE  /\ NextQueue(i) = Idle \/ \E j \in Queue : /\ NextQueue(i) = Frame("ipftimer", NoBuf, j)
                                                      /\ ipfqt[j].state # "IPFF_FREE"
                                                      /\ j >= i
           /\ NextQueue(i).b = NoBuf
<1> DEFINE used == {j \in Scanned : j >= i /\ ipfqt[j].state # "IPFF_FREE"}
<1>1. used \in SUBSET Nat /\ Scanned = Queue
  BY FragAssumption DEF Scanned, Queue
<1>2. used # {} => Min(used) \in used
  BY <1>1, MinElement
<1>3. NextQueue(i) = IF used = {} THEN Idle ELSE Frame("ipftimer", NoBuf, Min(used))
  BY DEF NextQueue
<1>4. CASE used = {}
  BY <1>3, <1>4 DEF Frame, Idle
<1>5. CASE used # {}
  <2>1. PICK j \in Queue : j = Min(used) /\ ipfqt[j].state # "IPFF_FREE" /\ j >= i
    BY <1>1, <1>2, <1>5
  <2>2. NextQueue(i) = Frame("ipftimer", NoBuf, j)
    BY <1>3, <1>5, <2>1
  <2>3. NextQueue(i).b = NoBuf
    BY <2>2 DEF Frame
  <2> HIDE DEF used
  <2> QED BY <2>1, <2>2, <2>3
<1> QED BY <1>4, <1>5

LEMMA WakeKeeps ==
    ASSUME IInv, NEW p \in Procs, wakeIpproc(p)
    PROVE  IInv'
<1>1. Types /\ ArpInv /\ FragInv /\ InqInv /\ ProcInv /\ RoomInv /\ PlaceInv
  BY DEF IInv
<1>2. PICK f : f = IF p = Timer THEN NextQueue(pc[p].i + 1) ELSE Idle
  OBVIOUS
<1>3. /\ pc[p].at = "wake"
      /\ ipmsg' = Woken(NI_LOCAL)
      /\ pc' = [pc EXCEPT ![p] = f]
      /\ UNCHANGED <<pool, pkt, arptable, aenext, ipfqt, joined, ipinq, ifnext, ip, load>>
  BY <1>2 DEF wakeIpproc, arpVars, fragVars
<1>4. /\ \/ f = Idle
         \/ p = Timer /\ \E j \in Queue : /\ f = Frame("ipftimer", NoBuf, j)
                                           /\ ipfqt[j].state # "IPFF_FREE"
      /\ f.b = NoBuf
  <2>1. pc[p].i + 1 \in Nat
    BY <1>1 DEF Types
  <2> QED BY <2>1, <1>2, NextQueueFacts DEF Idle, Frame
<1>5. /\ f \in [at : Holding \union {"idle", "wake", "ipftimer"}, b : Buf \union {NoBuf}, i : Nat]
      /\ f.at \in {"idle", "ipftimer"}
      /\ f.at = "idle" => f = Idle
      /\ f.at = "ipftimer" => p = Timer /\ f.i \in Queue /\ ipfqt[f.i].state # "IPFF_FREE"
  BY <1>4, FragAssumption DEF Idle, Frame, Queue
<1>6. pc'[p] = f /\ pc[p].b = NoBuf /\ \A r \in Procs : r # p => pc'[r] = pc[r]
  BY <1>1, <1>3 DEF Types, ProcInv, Holding
<1>7. Types'
  BY <1>1, <1>3, <1>5 DEF Types, Woken, If
<1>8. ProcInv'
  <2>1. Timer \in Procs /\ IpProc \in Procs /\ Timer # IpProc
    BY DEF Procs, Timer, IpProc
  <2> QED BY <2>1, <1>1, <1>3, <1>4, <1>5, <1>6 DEF ProcInv, Holding
<1>9. RoomInv'
  BY <1>1, <1>3, <1>5, <1>6 DEF RoomInv
<1>10. PlaceInv'
  <2>1. \A r \in Procs : pc'[r].b = pc[r].b
    BY <1>4, <1>6
  <2>2. \A b \in Buf : Apart(b)' /\ (Nowhere(b)' => Nowhere(b))
    BY <2>1, <1>1, <1>3 DEF Apart, Nowhere, NotInq, NotArp, NotFrag, NotHeld, PlaceInv
  <2> QED BY <2>2, <1>1, <1>3, PlaceStepSame
<1> QED BY <1>1, <1>3, <1>7, <1>8, <1>9, <1>10 DEF IInv, ArpInv, FragInv, InqInv
-----------------------------------------------------------------------------
(* The IP process takes packets *)

LEMMA GetpKeeps ==
    ASSUME IInv, getpClear \/ getpReceive
    PROVE  IInv'
<1>1. Types /\ ArpInv /\ FragInv /\ InqInv /\ ProcInv /\ RoomInv /\ PlaceInv
  BY DEF IInv
<1>2. /\ ip.at # "route" /\ ip'.at = "scan" /\ ip'.b = NoBuf
      /\ pc[IpProc] = Idle
      /\ Types'
      /\ UNCHANGED <<pool, pkt, arptable, aenext, ipfqt, ipinq, pc, load>>
  <2>1. CASE getpClear
    <3>1. /\ pc[IpProc] = Idle
          /\ UNCHANGED <<pool, pkt, arptable, aenext, ipfqt, ipinq, pc, load>>
          /\ ip.at # "route" /\ ip'.at = "scan" /\ ip'.b = NoBuf
      BY <2>1 DEF getpClear, arpVars
    <3>2. Types'
      BY <2>1, <1>1 DEF getpClear, arpVars, Types
    <3> QED BY <3>1, <3>2
  <2>2. CASE getpReceive
    <3>1. /\ UNCHANGED <<pool, pkt, arptable, aenext, ipfqt, ipinq, pc, load>>
          /\ ip.at = "receive" /\ ip'.at = "scan" /\ ip'.b = NoBuf
          /\ ip' = [at |-> "scan", b |-> NoBuf, i |-> 0]
          /\ ifnext' = ipmsg /\ ipmsg # NoMsg /\ ipmsg' = NoMsg
      BY <2>2 DEF getpReceive, arpVars, fragVars
    <3>2. pc[IpProc] = Idle
      BY <3>1, <1>1 DEF ProcInv, Procs
    <3>3. ifnext' \in 0 .. 2
      BY <3>1, <1>1, Interfaces DEF Types
    <3>4. Types'
      BY <3>1, <3>3, <1>1 DEF Types
    <3> QED BY <3>1, <3>2, <3>4
  <2> QED BY <2>1, <2>2
<1>3. ip.b = NoBuf
  BY <1>1, <1>2 DEF ProcInv
<1>4. ProcInv' /\ RoomInv'
  BY <1>1, <1>2, <1>3 DEF ProcInv, RoomInv, Idle, Frame
<1>5. PlaceInv'
  <2>1. \A b \in Buf : Apart(b)' /\ (Nowhere(b)' => Nowhere(b))
    BY <1>1, <1>2, <1>3 DEF Apart, Nowhere, NotInq, NotArp, NotFrag, NotHeld, PlaceInv
  <2> QED BY <2>1, <1>1, <1>2, PlaceStepSame
<1> QED BY <1>1, <1>2, <1>4, <1>5 DEF IInv, ArpInv, FragInv, InqInv

LEMMA ScanKeeps ==
    ASSUME IInv, getpScan
    PROVE  IInv'
<1>1. Types /\ ArpInv /\ FragInv /\ InqInv /\ ProcInv /\ RoomInv /\ PlaceInv
  BY DEF IInv
<1>2. PICK n \in If : n = ifnext % Cardinality(If)
  BY <1>1, Interfaces DEF Types
<1>3. /\ ip.at = "scan" /\ ip.b = NoBuf
      /\ UNCHANGED <<pool, pkt, arptable, aenext, ipfqt, joined, pc, load>>
      /\ pc[IpProc] = Idle /\ ip.i \in 0 .. 2
  BY <1>1 DEF getpScan, arpVars, fragVars, ProcInv, Procs, Types
<1>4. \/ /\ ip' = [ip EXCEPT !.at = "receive"]
         /\ UNCHANGED <<ipinq, ifnext, ipmsg>>
      \/ /\ ip.i < 2 /\ ifnext' = n + 1
         /\ ip' = [ip EXCEPT !.i = @ + 1]
         /\ UNCHANGED <<ipinq, ipmsg>>
      \/ /\ ipinq[n] # <<>>
         /\ ip' = [at |-> "route", b |-> Head(ipinq[n]), i |-> n]
         /\ ipinq' = [ipinq EXCEPT ![n] = Tail(@)]
         /\ ifnext' = n
         /\ UNCHANGED ipmsg
  BY <1>2, Interfaces DEF getpScan, AfterRound
<1>5. ASSUME ip'.b = NoBuf, ip'.at # "route", ip' \in [at : {"scan", "receive"}, b : {NoBuf}, i : 0 .. 2],
             ifnext' \in 0 .. 2, UNCHANGED <<ipinq, ipmsg>>
      PROVE  IInv'
  <2>1. Types'
    BY <1>1, <1>3, <1>5 DEF Types
  <2>2. ProcInv' /\ RoomInv'
    BY <1>1, <1>3, <1>5 DEF ProcInv, RoomInv, Idle, Frame
  <2>3. PlaceInv'
    <3>1. \A b \in Buf : Apart(b)' /\ (Nowhere(b)' => Nowhere(b))
      BY <1>1, <1>3, <1>5 DEF Apart, Nowhere, NotInq, NotArp, NotFrag, NotHeld, PlaceInv
    <3> QED BY <3>1, <1>1, <1>3, PlaceStepSame
  <2> QED BY <2>1, <2>2, <2>3, <1>1, <1>3, <1>5 DEF IInv, ArpInv, FragInv, InqInv
<1>6. CASE /\ ip' = [ip EXCEPT !.at = "receive"]
           /\ UNCHANGED <<ipinq, ifnext, ipmsg>>
  BY <1>1, <1>3, <1>5, <1>6 DEF Types
<1>7. CASE /\ ip.i < 2 /\ ifnext' = n + 1
           /\ ip' = [ip EXCEPT !.i = @ + 1]
           /\ UNCHANGED <<ipinq, ipmsg>>
  <2>1. n + 1 \in 0 .. 2 /\ ip.i + 1 \in 0 .. 2
    BY <1>3, <1>7, Interfaces
  <2> QED BY <2>1, <1>1, <1>3, <1>5, <1>7 DEF Types
<1>8. CASE /\ ipinq[n] # <<>>
           /\ ip' = [at |-> "route", b |-> Head(ipinq[n]), i |-> n]
           /\ ipinq' = [ipinq EXCEPT ![n] = Tail(@)]
           /\ ifnext' = n
           /\ UNCHANGED ipmsg
  <2>1. ipinq[n] \in Seq(Buf) /\ NoDup(ipinq[n])
    BY <1>1 DEF Types, InqInv
  <2>2. PICK h \in Buf : h = Head(ipinq[n]) /\ h \in ToSet(ipinq[n])
    BY <2>1, <1>8, TailOfQueue, InSeq
  <2>3. /\ Tail(ipinq[n]) \in Seq(Buf) /\ Len(Tail(ipinq[n])) < Len(ipinq[n])
        /\ NoDup(Tail(ipinq[n]))
        /\ ToSet(Tail(ipinq[n])) = ToSet(ipinq[n]) \ {h}
    BY <2>1, <2>2, <1>8, TailOfQueue
  <2>4. ipinq'[n] = Tail(ipinq[n]) /\ \A i \in If : i # n => ipinq'[i] = ipinq[i]
    BY <1>1, <1>8 DEF Types
  <2>5. ip'.b = h /\ ip'.at = "route" /\ h # NoBuf /\ NoBuf \notin Buf
    BY <1>8, <2>2, Interfaces
  <2>6. Types'
    <3>1. n \in 0 .. 2
      BY Interfaces
    <3> QED BY <3>1, <2>2, <2>3, <1>1, <1>3, <1>8 DEF Types
  <2>7. InqInv'
    BY <1>1, <2>3, <2>4 DEF InqInv
  <2>8. ProcInv'
    BY <1>1, <1>3, <2>5 DEF ProcInv, Idle, Frame
  <2>9. RoomInv'
    <3>1. NI_LOCAL \in If /\ NI_INQSZ \in Nat
      BY NetworkAssumption DEF If
    <3>2. Len(ipinq'[NI_LOCAL]) \in Nat /\ Len(ipinq[NI_LOCAL]) \in Nat
      BY <3>1, <2>6, <1>1 DEF Types
    <3>3. Len(ipinq'[NI_LOCAL]) <= Len(ipinq[NI_LOCAL])
      <4>1. CASE n = NI_LOCAL
        BY <4>1, <3>2, <2>3, <2>4
      <4>2. CASE n # NI_LOCAL
        BY <4>2, <3>1, <3>2, <2>4
      <4> QED BY <4>1, <4>2
    <3> QED BY <3>1, <3>2, <3>3, <1>1, <1>3 DEF RoomInv
  <2>10. ASSUME NEW b \in Buf PROVE Apart(b)' /\ (Nowhere(b)' => Nowhere(b))
    <3>1. Apart(b)
      BY <1>1 DEF PlaceInv
    <3>2. \A i \in If : b \in ToSet(ipinq'[i]) <=> b \in ToSet(ipinq[i]) /\ ~ (i = n /\ b = h)
      BY <2>3, <2>4
    <3>3. ip'.b = b <=> b = h
      BY <2>5
    <3>4. CASE b = h
      BY <3>1, <3>2, <3>3, <3>4, <2>2, <1>3
         DEF Apart, Nowhere, NotInq, NotArp, NotFrag, NotHeld
    <3>5. CASE b # h
      BY <3>1, <3>2, <3>3, <3>5, <1>3, <2>5
         DEF Apart, Nowhere, NotInq, NotArp, NotFrag, NotHeld
    <3> QED BY <3>4, <3>5
  <2>11. PlaceInv'
    BY <2>10, <1>1, <1>3, PlaceStepSame
  <2> QED BY <2>6, <2>7, <2>8, <2>9, <2>11, <1>1, <1>3 DEF IInv, ArpInv, FragInv
<1> QED BY <1>4, <1>6, <1>7, <1>8

-----------------------------------------------------------------------------
(* The ARP cache *)

LEMMA TtlFacts ==
    /\ ARP_TIMEOUT \in 0 .. Max({ARP_TIMEOUT, ARP_RESEND})
    /\ ARP_RESEND \in 0 .. Max({ARP_TIMEOUT, ARP_RESEND})
    /\ 0 \in 0 .. Max({ARP_TIMEOUT, ARP_RESEND})
    /\ Max({ARP_TIMEOUT, ARP_RESEND}) \in Nat
<1>1. ARP_TIMEOUT \in Nat /\ ARP_RESEND \in Nat
  BY ArpAssumption
<1>2. PICK n \in Nat : ARP_TIMEOUT <= n /\ ARP_RESEND <= n
  BY <1>1
<1>3. {ARP_TIMEOUT, ARP_RESEND} \in SUBSET (0 .. n)
  BY <1>1, <1>2
<1> QED BY <1>1, <1>3, MaxElement

LEMMA FreeEntryType ==
    /\ FreeEntry \in ArpEntry /\ FreeEntry.state = "AS_FREE" /\ FreeEntry.queue = <<>>
BY TtlFacts, EmptyQueue DEF FreeEntry, ArpEntry, ArpStates

LEMMA AllocFacts ==
    ASSUME Types
    PROVE  arpalloc \in Entry
<1> DEFINE steps == {k \in 0 .. ARP_TSIZE - 1 :
                        arptable[(aenext + k) % ARP_TSIZE].state = "AS_FREE"}
           k == IF steps = {} THEN 0 ELSE Min(steps)
<1>1. steps \in SUBSET Nat /\ (steps # {} => Min(steps) \in steps)
  <2>1. steps \in SUBSET Nat
    OBVIOUS
  <2> HIDE DEF steps
  <2> QED BY <2>1, MinElement
<1>2. k \in Nat
  BY <1>1
<1>3. arpalloc = (aenext + k) % ARP_TSIZE
  BY DEF arpalloc
<1> HIDE DEF k
<1> QED BY <1>2, <1>3, EntryFacts DEF Types

LEMMA FindFacts ==
    ASSUME NEW h
    PROVE  arpfind(h) \subseteq Entry /\ (arpfind(h) # {} => Min(arpfind(h)) \in arpfind(h))
BY EntryFacts, MinElement DEF arpfind

(* What the entry loses goes back to the pool. *)
LEMMA DequeuedFacts ==
    ASSUME Types, ArpInv, NEW e \in Entry
    PROVE  Dequeued(e) = ToSet(arptable[e].queue) /\ Dequeued(e) \subseteq Buf
<1>1. ToSet(arptable[e].queue) \subseteq Buf
  BY InSeq DEF Types, ArpEntry
<1>2. CASE arptable[e].state = "AS_PENDING"
  BY <1>1, <1>2 DEF Dequeued
<1>3. CASE arptable[e].state # "AS_PENDING"
  BY <1>1, <1>3, EmptyQueue DEF Dequeued, ArpInv
<1> QED BY <1>2, <1>3

(* The cache gives up some packets: each entry keeps its own or loses all.   *)
LEMMA ArpGivesUp ==
    ASSUME Types, ArpInv, PlaceInv, Forget, load' = load,
           arptable' \in [Entry -> ArpEntry],
           \A e \in Entry : \/ /\ arptable'[e].queue = arptable[e].queue
                               /\ \/ arptable'[e].state = arptable[e].state
                                  \/ arptable[e].queue = <<>>
                            \/ arptable'[e].queue = <<>>,
           \A b : b \in pool' <=> \/ b \in pool
                                 \/ \E e \in Entry : /\ b \in ToSet(arptable[e].queue)
                                                      /\ arptable'[e].queue # arptable[e].queue,
           UNCHANGED <<ipfqt, ipinq, ip>>, \A p \in Procs : pc'[p].b = pc[p].b
    PROVE  /\ pool' \subseteq Buf /\ ArpInv' /\ PlaceInv'
           /\ pkt' \in [Buf -> Packet]
<1>1. \A e \in Entry : Dequeued(e) = ToSet(arptable[e].queue) /\ Dequeued(e) \subseteq Buf
  BY DequeuedFacts
<1>2. pool' \subseteq Buf
  BY <1>1 DEF Types
<1>3. ArpInv'
  <2>1. NoDup(<<>>) /\ Len(<<>>) = 0 /\ ARP_QSIZE \in Nat
    BY EmptyQueue, ArpAssumption
  <2> QED BY <2>1 DEF ArpInv
<1>4. ASSUME NEW b \in Buf PROVE Apart(b)' /\ (Nowhere(b)' => Nowhere(b))
  <2>1. Apart(b)
    BY DEF PlaceInv
  <2>2. \A e \in Entry : b \in ToSet(arptable'[e].queue) <=>
           b \in ToSet(arptable[e].queue) /\ arptable'[e].queue = arptable[e].queue
    BY EmptyQueue
  <2>3. b \in pool' <=> b \in pool \/ \E e \in Entry : /\ b \in ToSet(arptable[e].queue)
                                                       /\ arptable'[e].queue # arptable[e].queue
    OBVIOUS
  <2>4. CASE \E e \in Entry : /\ b \in ToSet(arptable[e].queue)
                              /\ arptable'[e].queue # arptable[e].queue
    <3>1. PICK e \in Entry : b \in ToSet(arptable[e].queue) /\ arptable'[e].queue # arptable[e].queue
      BY <2>4
    <3> QED BY <2>1, <2>2, <2>3, <3>1 DEF Apart, Nowhere, NotInq, NotArp, NotFrag, NotHeld
  <2>5. CASE ~ \E e \in Entry : /\ b \in ToSet(arptable[e].queue)
                                /\ arptable'[e].queue # arptable[e].queue
    <3>1. /\ b \in pool' <=> b \in pool
          /\ \A e \in Entry : b \in ToSet(arptable'[e].queue) <=> b \in ToSet(arptable[e].queue)
      BY <2>2, <2>3, <2>5
    <3> QED BY <2>1, <3>1 DEF Apart, Nowhere, NotInq, NotArp, NotFrag, NotHeld
  <2> QED BY <2>4, <2>5
<1> QED BY <1>2, <1>3, <1>4, PlaceStepForget, ForgetPackets DEF Types
LEMMA ArpInterruptKeeps ==
    ASSUME IInv, NEW h \in load.arp, NEW forUs \in BOOLEAN, arpInterrupt(h, forUs)
    PROVE  IInv'
<1>1. Types /\ ArpInv /\ FragInv /\ InqInv /\ ProcInv /\ RoomInv /\ PlaceInv
  BY DEF IInv
<1>2. /\ arp_in(h, forUs) /\ Forget
      /\ UNCHANGED <<ipfqt, joined, ipinq, ifnext, ipmsg, ip, pc, load>>
  BY DEF arpInterrupt, fragVars, ipVars
<1>3. h \in Hosts
  BY <1>1, LoadFacts DEF Types
<1>4. PICK e \in Entry : e = IF arpfind(h) = {} THEN arpalloc ELSE Min(arpfind(h))
  BY <1>1, AllocFacts, FindFacts
<1>5. PICK a \in ArpEntry :
         /\ arptable' = [arptable EXCEPT ![e] = a]
         /\ \/ /\ a.queue = arptable[e].queue /\ a.state = arptable[e].state
               /\ pool' = pool
            \/ a.queue = <<>> /\ pool' = pool \union Dequeued(e)
         /\ aenext' \in Entry
  <2>1. arptable[e] \in ArpEntry
    BY <1>1 DEF Types
  <2>2. CASE arpfind(h) # {} /\ ~ forUs
    <3>1. /\ arptable' = [arptable EXCEPT ![e].ttl = ARP_TIMEOUT]
          /\ UNCHANGED <<aenext, pool>>
      BY <2>2, <1>2, <1>4 DEF arp_in
    <3>2. PICK a : a = [arptable[e] EXCEPT !.ttl = ARP_TIMEOUT]
      OBVIOUS
    <3>3. a \in ArpEntry /\ a.queue = arptable[e].queue /\ a.state = arptable[e].state
      BY <3>2, <2>1, TtlFacts DEF ArpEntry
    <3>4. arptable' = [arptable EXCEPT ![e] = a]
      BY <3>1, <3>2
    <3> QED BY <3>1, <3>3, <3>4, <1>1 DEF Types
  <2>3. CASE arpfind(h) # {} /\ forUs
    <3>1. /\ arptable' = [arptable EXCEPT ![e].state = "AS_RESOLVED", ![e].ttl = ARP_TIMEOUT,
                                          ![e].queue = <<>>]
          /\ pool' = pool \union Dequeued(e)
          /\ UNCHANGED aenext
      BY <2>3, <1>2, <1>4 DEF arp_in, Resolved
    <3>2. PICK a : a = [arptable[e] EXCEPT !.state = "AS_RESOLVED", !.ttl = ARP_TIMEOUT, !.queue = <<>>]
      OBVIOUS
    <3>3. a \in ArpEntry /\ a.queue = <<>>
      BY <3>2, <2>1, TtlFacts, EmptyQueue DEF ArpEntry, ArpStates
    <3>4. arptable' = [arptable EXCEPT ![e] = a]
      BY <3>1, <3>2, <1>1 DEF Types
    <3> QED BY <3>1, <3>3, <3>4, <1>1 DEF Types
  <2>4. CASE arpfind(h) = {}
    <3>1. /\ arptable' = [arptable EXCEPT ![e] =
                [FreeEntry EXCEPT !.state = "AS_RESOLVED", !.pra = h, !.ttl = ARP_TIMEOUT]]
          /\ aenext' = (e + 1) % ARP_TSIZE
          /\ pool' = pool \union Dequeued(e)
      BY <2>4, <1>2, <1>4 DEF arp_in
    <3>2. PICK a : a = [FreeEntry EXCEPT !.state = "AS_RESOLVED", !.pra = h, !.ttl = ARP_TIMEOUT]
      OBVIOUS
    <3>3. a \in ArpEntry /\ a.queue = <<>>
      BY <3>2, <1>3, TtlFacts, FreeEntryType DEF ArpEntry, ArpStates
    <3> QED BY <3>1, <3>2, <3>3, EntryFacts
  <2> QED BY <2>2, <2>3, <2>4
<1>6. /\ arptable'[e] = a /\ \A f \in Entry : f # e => arptable'[f] = arptable[f]
      /\ arptable' \in [Entry -> ArpEntry]
  BY <1>1, <1>5 DEF Types
<1>7. Dequeued(e) = ToSet(arptable[e].queue)
  BY <1>1, DequeuedFacts
<1>8. ASSUME NEW b
      PROVE  b \in pool' <=> \/ b \in pool
                             \/ \E f \in Entry : /\ b \in ToSet(arptable[f].queue)
                                                 /\ arptable'[f].queue # arptable[f].queue
  <2>1. ToSet(<<>>) = {}
    BY EmptyQueue
  <2>2. CASE a.queue = arptable[e].queue
    <3>1. pool' = pool
      BY <2>1, <2>2, <1>5, <1>7
    <3> QED BY <3>1, <2>2, <1>6
  <2>3. CASE a.queue # arptable[e].queue
    BY <2>3, <1>5, <1>6, <1>7
  <2> QED BY <2>2, <2>3
<1>9. \A f \in Entry : \/ /\ arptable'[f].queue = arptable[f].queue
                          /\ \/ arptable'[f].state = arptable[f].state
                             \/ arptable[f].queue = <<>>
                       \/ arptable'[f].queue = <<>>
  BY <1>5, <1>6
<1>10. /\ pool' \subseteq Buf /\ ArpInv' /\ PlaceInv' /\ pkt' \in [Buf -> Packet]
  BY <1>1, <1>2, <1>6, <1>8, <1>9, ArpGivesUp
<1>11. Types'
  BY <1>1, <1>2, <1>5, <1>6, <1>10 DEF Types
<1> QED BY <1>1, <1>2, <1>10, <1>11 DEF IInv, FragInv, InqInv, ProcInv, RoomInv

LEMMA ArpflushKeeps ==
    ASSUME IInv, arpflush, UNCHANGED <<pkt, fragVars, ipVars, pc, load>>
    PROVE  IInv'
<1>1. Types /\ ArpInv /\ FragInv /\ InqInv /\ ProcInv /\ RoomInv /\ PlaceInv
  BY DEF IInv
<1>2. /\ arptable' = [e \in Entry |-> IF arptable[e].state = "AS_RESOLVED" THEN FreeEntry
                                      ELSE arptable[e]]
      /\ UNCHANGED <<aenext, pool, pkt, ipfqt, joined, ipinq, ifnext, ipmsg, ip, pc, load>>
  BY DEF arpflush, fragVars, ipVars
<1>3. arptable' \in [Entry -> ArpEntry]
  BY <1>1, <1>2, FreeEntryType DEF Types
<1>4. \A e \in Entry : /\ arptable'[e].queue = arptable[e].queue
                       /\ \/ arptable'[e].state = arptable[e].state
                          \/ arptable[e].queue = <<>>
  BY <1>1, <1>2, FreeEntryType DEF ArpInv
<1>5. Forget
  <2>1. \A b \in Buf : pkt[b] = IF b \in pool THEN Blank ELSE pkt[b]
    BY <1>1 DEF PlaceInv
  <2>2. pkt = [b \in Buf |-> IF b \in pool THEN Blank ELSE pkt[b]]
    BY <2>1, <1>1 DEF Types
  <2> QED BY <2>2, <1>2 DEF Forget
<1>6. ArpInv' /\ PlaceInv'
  BY <1>1, <1>2, <1>3, <1>4, <1>5, ArpGivesUp
<1> QED BY <1>1, <1>2, <1>3, <1>6 DEF IInv, Types, FragInv, InqInv, ProcInv, RoomInv

(* An entry that ages keeps its packets or is given up with them.           *)
LEMMA AgedFacts ==
    ASSUME Types, NEW e \in Entry
    PROVE  /\ Aged(arptable[e]) \in ArpEntry
           /\ \/ /\ Aged(arptable[e]).queue = arptable[e].queue
                 /\ Aged(arptable[e]).state = arptable[e].state
              \/ Aged(arptable[e]) = FreeEntry
<1>1. PICK a \in ArpEntry : a = arptable[e]
  BY DEF Types
<1>2. CASE a = FreeEntry
  BY <1>1, <1>2, FreeEntryType DEF Aged
<1>3. CASE a # FreeEntry /\ a.ttl > 1
  <2>1. Aged(a) = [a EXCEPT !.ttl = @ - 1]
    BY <1>3 DEF Aged
  <2>2. a.ttl - 1 \in 0 .. Max({ARP_TIMEOUT, ARP_RESEND})
    BY <1>3, TtlFacts DEF ArpEntry
  <2> QED BY <2>1, <2>2, <1>1 DEF ArpEntry
<1>4. CASE a # FreeEntry /\ ~ (a.ttl > 1)
  <2>1. \/ Aged(a) = FreeEntry
        \/ Aged(a) = [a EXCEPT !.ttl = ARP_RESEND, !.attempts = @ + 1]
    BY <1>4 DEF Aged
  <2>2. a.attempts + 1 \in Nat
    BY DEF ArpEntry
  <2> QED BY <2>1, <2>2, <1>1, TtlFacts, FreeEntryType DEF ArpEntry
<1> QED BY <1>2, <1>3, <1>4

LEMMA ArptimerKeeps ==
    ASSUME IInv, arptimerStep
    PROVE  IInv'
<1>1. Types /\ ArpInv /\ FragInv /\ InqInv /\ ProcInv /\ RoomInv /\ PlaceInv
  BY DEF IInv
<1>2. PICK f : f = NextQueue(0)
  OBVIOUS
<1>3. /\ pc[Timer] = Idle
      /\ arptable' = [e \in Entry |-> Aged(arptable[e])]
      /\ pool' = pool \union UNION {Dequeued(e) :
                        e \in {g \in Entry : Aged(arptable[g]).state = "AS_FREE"}}
      /\ Forget
      /\ pc' = [pc EXCEPT ![Timer] = f]
      /\ UNCHANGED <<aenext, ipfqt, joined, ipinq, ifnext, ipmsg, ip, load>>
  BY <1>2 DEF arptimerStep, arptimer, fragVars, ipVars
<1>4. arptable' \in [Entry -> ArpEntry]
  BY <1>3, <1>1, AgedFacts
<1>5. /\ f \in [at : Holding \union {"idle", "wake", "ipftimer"}, b : Buf \union {NoBuf}, i : Nat]
      /\ f.at \in {"idle", "ipftimer"} /\ f.b = NoBuf
      /\ f.at = "idle" => f = Idle
      /\ f.at = "ipftimer" => f.i \in Queue /\ ipfqt[f.i].state # "IPFF_FREE"
  BY <1>2, NextQueueFacts, FragAssumption DEF Idle, Frame, Queue
<1>6. Timer \in Procs /\ IpProc \in Procs /\ Timer # IpProc
  BY DEF Procs, Timer, IpProc
<1>7. pc'[Timer] = f /\ pc[Timer].b = NoBuf /\ \A r \in Procs : r # Timer => pc'[r] = pc[r]
  BY <1>1, <1>3, <1>6 DEF Types, Idle, Frame
<1>8. \A e \in Entry : \/ /\ arptable'[e].queue = arptable[e].queue
                          /\ arptable'[e].state = arptable[e].state
                       \/ arptable'[e] = FreeEntry
  BY <1>1, <1>3, AgedFacts
<1>9. \A e \in Entry : Dequeued(e) = ToSet(arptable[e].queue)
  BY <1>1, DequeuedFacts
<1>10. ASSUME NEW b
       PROVE  b \in pool' <=> \/ b \in pool
                              \/ \E e \in Entry : /\ b \in ToSet(arptable[e].queue)
                                                  /\ arptable'[e].queue # arptable[e].queue
  <2>1. b \in pool' <=> b \in pool \/ \E e \in Entry : /\ arptable'[e].state = "AS_FREE"
                                                       /\ b \in ToSet(arptable[e].queue)
    BY <1>3, <1>9
  <2>2. \A e \in Entry : b \in ToSet(arptable[e].queue) =>
           (arptable'[e].state = "AS_FREE" <=> arptable'[e].queue # arptable[e].queue)
    <3> SUFFICES ASSUME NEW e \in Entry, b \in ToSet(arptable[e].queue)
                 PROVE  arptable'[e].state = "AS_FREE" <=> arptable'[e].queue # arptable[e].queue
      OBVIOUS
    <3>1. arptable[e].queue # <<>> /\ arptable[e].state = "AS_PENDING"
      BY <1>1, EmptyQueue DEF ArpInv
    <3> QED BY <3>1, <1>8, FreeEntryType
  <2> QED BY <2>1, <2>2
<1>11. /\ pool' \subseteq Buf /\ ArpInv' /\ PlaceInv' /\ pkt' \in [Buf -> Packet]
  <2>1. \A p \in Procs : pc'[p].b = pc[p].b
    BY <1>5, <1>7
  <2>2. \A e \in Entry : \/ /\ arptable'[e].queue = arptable[e].queue
                            /\ \/ arptable'[e].state = arptable[e].state
                               \/ arptable[e].queue = <<>>
                         \/ arptable'[e].queue = <<>>
    BY <1>8, FreeEntryType
  <2> QED BY <2>1, <2>2, <1>1, <1>3, <1>4, <1>10, ArpGivesUp
<1>12. Types'
  BY <1>1, <1>3, <1>4, <1>5, <1>11 DEF Types
<1>13. ProcInv'
  BY <1>1, <1>3, <1>5, <1>6, <1>7 DEF ProcInv, Holding
<1>14. RoomInv'
  BY <1>1, <1>3, <1>5, <1>7 DEF RoomInv
<1> QED BY <1>1, <1>3, <1>11, <1>12, <1>13, <1>14 DEF IInv, FragInv, InqInv
-----------------------------------------------------------------------------
(* The IP process routes a packet *)

(* What routePacket leaves to show. *)
Routed(b) ==
    /\ ip.at = "route" /\ b = ip.b
    /\ ip' = [at |-> "clear", b |-> NoBuf, i |-> 0]
    /\ UNCHANGED <<ipinq, ifnext, ipmsg, load>>

LEMMA RoutedFacts ==
    ASSUME Types, ProcInv, NEW b, Routed(b)
    PROVE  /\ b \in Buf /\ ip.b = b /\ ip'.b = NoBuf /\ NoBuf \notin Buf /\ pc[IpProc] = Idle
           /\ ip' \in [at : {"clear", "scan", "receive", "route"}, b : Buf \union {NoBuf}, i : 0 .. 2]
           /\ ip'.at = "clear"
BY Interfaces DEF Types, ProcInv, Routed, Procs

LEMMA DiscardKeeps ==
    ASSUME IInv, NEW b, Routed(b), Forget, pool' = pool \union {b},
           UNCHANGED <<arptable, aenext, ipfqt, joined, pc>>
    PROVE  IInv'
<1>1. Types /\ ArpInv /\ FragInv /\ InqInv /\ ProcInv /\ RoomInv /\ PlaceInv
  BY DEF IInv
<1>2. /\ b \in Buf /\ ip.b = b /\ ip'.b = NoBuf /\ NoBuf \notin Buf /\ pc[IpProc] = Idle
      /\ ip' \in [at : {"clear", "scan", "receive", "route"}, b : Buf \union {NoBuf}, i : 0 .. 2]
      /\ ip'.at = "clear"
  BY <1>1, RoutedFacts
<1>3. UNCHANGED <<ipinq, ifnext, ipmsg, load>>
  BY DEF Routed
<1>4. Types'
  BY <1>1, <1>2, <1>3, ForgetPackets DEF Types
<1>5. ProcInv' /\ RoomInv'
  BY <1>1, <1>2, <1>3 DEF ProcInv, RoomInv
<1>6. ASSUME NEW c \in Buf PROVE Apart(c)' /\ (Nowhere(c)' => Nowhere(c))
  <2>1. Apart(c)
    BY <1>1 DEF PlaceInv
  <2>2. (c \in pool' <=> c \in pool \/ c = b) /\ ip'.b # c /\ (ip.b = c <=> c = b)
    BY <1>2
  <2> QED BY <2>1, <2>2, <1>3 DEF Apart, Nowhere, NotInq, NotArp, NotFrag, NotHeld
<1>7. PlaceInv'
  BY <1>6, <1>1, <1>3, PlaceStepForget DEF Types
<1> QED BY <1>1, <1>3, <1>4, <1>5, <1>7 DEF IInv, ArpInv, FragInv, InqInv

LEMMA OutputKeeps ==
    ASSUME IInv, NEW b, Routed(b), output(b)
    PROVE  IInv'
<1>1. Types /\ ArpInv /\ FragInv /\ InqInv /\ ProcInv /\ RoomInv /\ PlaceInv
  BY DEF IInv
<1>2. /\ b \in Buf /\ ip.b = b /\ ip'.b = NoBuf /\ NoBuf \notin Buf /\ pc[IpProc] = Idle
      /\ ip' \in [at : {"clear", "scan", "receive", "route"}, b : Buf \union {NoBuf}, i : 0 .. 2]
      /\ ip'.at = "clear"
  BY <1>1, RoutedFacts
<1>3. UNCHANGED <<ipinq, ifnext, ipmsg, load, ipfqt, joined, pc>> /\ Forget
  BY DEF Routed, output, fragVars
<1>4. PICK h \in Hosts : netwrite(b, h)
  <2>1. pkt[b].to \in Hosts \union {"local"}
    BY <1>1, <1>2 DEF Types, Packet
  <2> QED BY <2>1 DEF output
<1>5. PICK e \in Entry : e = IF arpfind(h) = {} THEN arpalloc ELSE Min(arpfind(h))
  BY <1>1, AllocFacts, FindFacts
<1>6. arptable[e] \in ArpEntry /\ arptable[e].queue \in Seq(Buf)
  BY <1>1 DEF Types, ArpEntry
<1>7. Apart(b)
  BY <1>1, <1>2 DEF PlaceInv
<1>8. CASE UNCHANGED <<arptable, aenext>> /\ pool' = pool \union {b}
  BY <1>3, <1>8, DiscardKeeps
<1>9. ASSUME NEW a \in ArpEntry, arptable' = [arptable EXCEPT ![e] = a], aenext' \in Entry,
             a.state = "AS_PENDING", NoDup(a.queue), Len(a.queue) <= ARP_QSIZE,
             b \in ToSet(a.queue),
             \/ ToSet(a.queue) = ToSet(arptable[e].queue) \union {b} /\ pool' = pool
             \/ ToSet(a.queue) = {b} /\ pool' = pool \union ToSet(arptable[e].queue)
      PROVE  IInv'
  <2>1. arptable'[e] = a /\ \A f \in Entry : f # e => arptable'[f] = arptable[f]
    BY <1>1, <1>9 DEF Types
  <2>2. ArpInv'
    BY <2>1, <1>1, <1>9 DEF ArpInv
  <2>3. pool' \subseteq Buf
    BY <1>1, <1>6, <1>9, InSeq DEF Types
  <2>4. Types'
    BY <2>3, <1>1, <1>2, <1>3, <1>9, ForgetPackets DEF Types
  <2>5. ProcInv' /\ RoomInv'
    BY <1>1, <1>2, <1>3 DEF ProcInv, RoomInv
  <2>6. ASSUME NEW c \in Buf PROVE Apart(c)' /\ (Nowhere(c)' => Nowhere(c))
    <3>1. Apart(c)
      BY <1>1 DEF PlaceInv
    <3>2. ip'.b # c /\ (ip.b = c <=> c = b)
      BY <1>2
    <3>3. CASE c = b
      <4>1. /\ c \notin pool /\ c \notin ToSet(arptable[e].queue)
            /\ \A f \in Entry : c \in ToSet(arptable'[f].queue) <=> f = e
        BY <3>1, <3>2, <3>3, <2>1, <1>9 DEF Apart, NotArp
      <4>2. c \notin pool'
        BY <4>1, <1>9
      <4> QED BY <3>1, <3>2, <3>3, <4>1, <4>2, <1>3
              DEF Apart, Nowhere, NotInq, NotArp, NotFrag, NotHeld
    <3>4. CASE c # b /\ ToSet(a.queue) = ToSet(arptable[e].queue) \union {b} /\ pool' = pool
      <4>1. \A f \in Entry : c \in ToSet(arptable'[f].queue) <=> c \in ToSet(arptable[f].queue)
        BY <3>4, <2>1
      <4> QED BY <3>1, <3>2, <3>4, <4>1, <1>3
              DEF Apart, Nowhere, NotInq, NotArp, NotFrag, NotHeld
    <3>5. CASE c # b /\ ToSet(a.queue) = {b} /\ pool' = pool \union ToSet(arptable[e].queue)
      <4>1. \A f \in Entry : c \in ToSet(arptable'[f].queue) <=> c \in ToSet(arptable[f].queue) /\ f # e
        BY <3>5, <2>1
      <4>2. c \in pool' <=> c \in pool \/ c \in ToSet(arptable[e].queue)
        BY <3>5
      <4> QED BY <3>1, <3>2, <3>5, <4>1, <4>2, <1>3
              DEF Apart, Nowhere, NotInq, NotArp, NotFrag, NotHeld
    <3> QED BY <3>3, <3>4, <3>5, <1>9
  <2>7. PlaceInv'
    BY <2>6, <1>1, <1>3, PlaceStepForget DEF Types
  <2> QED BY <2>2, <2>4, <2>5, <2>7, <1>1, <1>3 DEF IInv, FragInv, InqInv
<1>10. CASE arpfind(h) = {}
  <2>1. /\ arptable' = [arptable EXCEPT ![e] =
                 [state |-> "AS_PENDING", pra |-> h, ttl |-> ARP_RESEND,
                  attempts |-> 0, queue |-> <<b>>]]
        /\ aenext' = (e + 1) % ARP_TSIZE
        /\ pool' = pool \union Dequeued(e)
    BY <1>4, <1>5, <1>10 DEF netwrite
  <2>2. PICK a : a = [state |-> "AS_PENDING", pra |-> h, ttl |-> ARP_RESEND,
                      attempts |-> 0, queue |-> <<b>>]
    OBVIOUS
  <2>3. /\ <<b>> \in Seq(Buf) /\ Len(<<b>>) = 1 /\ NoDup(<<b>>) /\ ToSet(<<b>>) = {b}
        /\ 1 <= ARP_QSIZE
    BY <1>2, OneInQueue, ArpAssumption
  <2>4. a \in ArpEntry /\ a.queue = <<b>> /\ a.state = "AS_PENDING"
    BY <2>2, <2>3, TtlFacts DEF ArpEntry, ArpStates
  <2>5. pool' = pool \union ToSet(arptable[e].queue) /\ aenext' \in Entry
    BY <2>1, <1>1, DequeuedFacts, EntryFacts
  <2> QED BY <2>1, <2>2, <2>3, <2>4, <2>5, <1>9
<1>11. CASE arpfind(h) # {} /\ arptable[e].state = "AS_PENDING" /\ ~ Full(arptable[e].queue, ARP_QSIZE)
  <2>1. /\ arptable' = [arptable EXCEPT ![e].queue = Append(@, b)]
        /\ UNCHANGED <<aenext, pool>>
    BY <1>4, <1>5, <1>11 DEF netwrite
  <2>2. PICK a : a = [arptable[e] EXCEPT !.queue = Append(arptable[e].queue, b)]
    OBVIOUS
  <2>3. /\ b \notin ToSet(arptable[e].queue) /\ NoDup(arptable[e].queue)
        /\ Len(arptable[e].queue) \in Nat
    BY <1>1, <1>2, <1>6, <1>7, InSeq DEF Apart, NotArp, ArpInv
  <2>4. PICK q \in Seq(Buf) :
           /\ q = Append(arptable[e].queue, b)
           /\ Len(q) = Len(arptable[e].queue) + 1 /\ NoDup(q)
           /\ ToSet(q) = ToSet(arptable[e].queue) \union {b}
    BY <2>3, <1>2, <1>6, AppendQueue
  <2>5. a \in ArpEntry /\ a.queue = q /\ a.state = "AS_PENDING" /\ Len(a.queue) <= ARP_QSIZE
    <3>1. a = [arptable[e] EXCEPT !.queue = q]
      BY <2>2, <2>4
    <3>2. a \in ArpEntry /\ a.queue = q /\ a.state = "AS_PENDING"
      BY <3>1, <1>6, <1>11 DEF ArpEntry
    <3>3. Len(q) <= ARP_QSIZE
      BY <2>3, <2>4, <1>11, ArpAssumption DEF Full
    <3> QED BY <3>2, <3>3
  <2>6. arptable' = [arptable EXCEPT ![e] = a] /\ aenext' \in Entry
    BY <2>1, <2>2, <1>1 DEF Types
  <2> QED BY <2>1, <2>4, <2>5, <2>6, <1>9
<1>12. CASE arpfind(h) # {} /\ ~ (arptable[e].state = "AS_PENDING" /\ ~ Full(arptable[e].queue, ARP_QSIZE))
  BY <1>4, <1>5, <1>8, <1>12 DEF netwrite, arpVars
<1> QED BY <1>10, <1>11, <1>12

(* A fragment joins a queue, or it and the queue's fragments are freed, or  *)
(* it alone is.                                                             *)
LEMMA ReassKeeps ==
    ASSUME IInv, NEW b, Routed(b), ipreass(b), Forget, pc[Timer] = Idle,
           UNCHANGED <<arptable, aenext, pc>>
    PROVE  IInv'
<1>1. Types /\ ArpInv /\ FragInv /\ InqInv /\ ProcInv /\ RoomInv /\ PlaceInv
  BY DEF IInv
<1>2. /\ b \in Buf /\ ip.b = b /\ ip'.b = NoBuf /\ NoBuf \notin Buf /\ pc[IpProc] = Idle
      /\ ip' \in [at : {"clear", "scan", "receive", "route"}, b : Buf \union {NoBuf}, i : 0 .. 2]
      /\ ip'.at = "clear"
  BY <1>1, RoutedFacts
<1>3. UNCHANGED <<ipinq, ifnext, ipmsg, load>>
  BY DEF Routed
<1>4. Apart(b) /\ IP_FTTL \in Nat /\ IP_FQSIZE \in Nat \ {0}
  BY <1>1, <1>2, FragAssumption DEF PlaceInv
<1>5. CASE UNCHANGED <<ipfqt, joined>> /\ pool' = pool \union {b}
  BY <1>5, DiscardKeeps
<1>6. ASSUME NEW i \in Queue, NEW w \in FragQueue, ipfqt' = [ipfqt EXCEPT ![i] = w],
             NoDup(w.q), Len(w.q) <= IP_FQSIZE, w.state # "IPFF_VALID" => w.q = <<>>,
             \/ ToSet(w.q) = ToSet(ipfqt[i].q) \union {b} /\ pool' = pool
             \/ w.q = <<>> /\ pool' = pool \union {b} \union ToSet(ipfqt[i].q)
      PROVE  IInv'
  <2>1. ipfqt'[i] = w /\ \A j \in Queue : j # i => ipfqt'[j] = ipfqt[j]
    BY <1>1, <1>6 DEF Types
  <2>2. FragInv'
    BY <2>1, <1>1, <1>6 DEF FragInv
  <2>3. pool' \subseteq Buf
    <3>1. ipfqt[i].q \in Seq(Buf)
      BY <1>1 DEF Types, FragQueue
    <3> QED BY <3>1, <1>1, <1>2, <1>6, InSeq DEF Types
  <2>4. Types'
    BY <2>3, <1>1, <1>2, <1>3, <1>6, ForgetPackets DEF Types
  <2>5. ProcInv' /\ RoomInv'
    BY <1>1, <1>2, <1>3 DEF ProcInv, RoomInv, Idle, Frame
  <2>6. ASSUME NEW c \in Buf PROVE Apart(c)' /\ (Nowhere(c)' => Nowhere(c))
    <3>1. Apart(c)
      BY <1>1 DEF PlaceInv
    <3>2. ip'.b # c /\ (ip.b = c <=> c = b)
      BY <1>2
    <3>3. CASE ToSet(w.q) = ToSet(ipfqt[i].q) \union {b} /\ pool' = pool
      <4>1. \A j \in Queue : c \in ToSet(ipfqt'[j].q) <=>
                                c \in ToSet(ipfqt[j].q) \/ (j = i /\ c = b)
        BY <3>3, <2>1
      <4>2. CASE c = b
        BY <3>1, <3>2, <3>3, <4>1, <4>2, <1>3
           DEF Apart, Nowhere, NotInq, NotArp, NotFrag, NotHeld
      <4>3. CASE c # b
        BY <3>1, <3>2, <3>3, <4>1, <4>3, <1>3
           DEF Apart, Nowhere, NotInq, NotArp, NotFrag, NotHeld
      <4> QED BY <4>2, <4>3
    <3>4. CASE w.q = <<>> /\ pool' = pool \union {b} \union ToSet(ipfqt[i].q)
      <4>1. \A j \in Queue : c \in ToSet(ipfqt'[j].q) <=> c \in ToSet(ipfqt[j].q) /\ j # i
        BY <3>4, <2>1, EmptyQueue
      <4>2. c \in pool' <=> c \in pool \/ c = b \/ c \in ToSet(ipfqt[i].q)
        BY <3>4
      <4>3. CASE c = b
        BY <3>1, <3>2, <4>1, <4>2, <4>3, <1>3
           DEF Apart, Nowhere, NotInq, NotArp, NotFrag, NotHeld
      <4>4. CASE c # b
        BY <3>1, <3>2, <4>1, <4>2, <4>4, <1>3
           DEF Apart, Nowhere, NotInq, NotArp, NotFrag, NotHeld
      <4> QED BY <4>3, <4>4
    <3> QED BY <3>3, <3>4, <1>6
  <2>7. PlaceInv'
    BY <2>6, <1>1, <1>3, PlaceStepForget DEF Types
  <2> QED BY <2>2, <2>4, <2>5, <2>7, <1>1, <1>3 DEF IInv, ArpInv, InqInv
<1>7. ASSUME NEW i \in Queue, addTo(i, b)
      PROVE  IInv'
  <2>1. PICK u \in FragQueue : u = ipfqt[i]
    BY <1>1 DEF Types
  <2>2. /\ u.q \in Seq(Buf) /\ NoDup(u.q) /\ b \notin ToSet(u.q) /\ Len(u.q) \in Nat
    BY <2>1, <1>1, <1>2, <1>4, InSeq DEF FragQueue, FragInv, Apart, NotFrag
  <2>3. SortKey \in [Buf -> Int]
    BY <1>1 DEF SortKey, Types, Packet
  <2>4. PICK q \in Seq(Buf) :
           /\ q = Inserted(u.q, b, SortKey)
           /\ Len(q) = Len(u.q) + 1 /\ NoDup(q)
           /\ ToSet(q) = ToSet(u.q) \union {b}
    BY <2>2, <2>3, <1>2, InsertedQueue
  <2>5. CASE u.state = "IPFF_BOGUS" /\ pool' = pool \union {b} /\ UNCHANGED fragVars
    BY <2>5, <1>5 DEF fragVars
  <2>6. CASE /\ ipfqt' = [ipfqt EXCEPT ![i] = Overflowed(u)]
             /\ pool' = pool \union {b} \union (ToSet(u.q) \ ToSet(Overflowed(u).q))
    <3>1. PICK w : w = Overflowed(u)
      OBVIOUS
    <3>2. w \in FragQueue /\ w.q = <<>> /\ w.state = "IPFF_BOGUS"
      BY <3>1, EmptyQueue DEF Overflowed, FragQueue
    <3>3. NoDup(w.q) /\ Len(w.q) <= IP_FQSIZE /\ ToSet(w.q) = {}
      BY <3>2, <1>4, EmptyQueue
    <3> QED BY <2>1, <2>6, <3>1, <3>2, <3>3, <1>6
  <2>7. CASE ipfqt' = [ipfqt EXCEPT ![i] = FreeQueue] /\ pool' = pool \union ToSet(q)
    <3>1. PICK w \in FragQueue : w = FreeQueue /\ w.q = <<>>
      <4>1. FreeQueue \in FragQueue /\ FreeQueue.q = <<>>
        BY <1>4, EmptyQueue DEF FreeQueue, FragQueue
      <4> QED BY <4>1
    <3>2. pool' = pool \union {b} \union ToSet(ipfqt[i].q)
      BY <2>1, <2>4, <2>7
    <3>3. NoDup(w.q) /\ Len(w.q) <= IP_FQSIZE
      BY <3>1, <1>4, EmptyQueue
    <3> QED BY <2>7, <3>1, <3>2, <3>3, <1>6
  <2>8. CASE /\ ~ Full(u.q, IP_FQSIZE) /\ u.state = "IPFF_VALID"
             /\ ipfqt' = [ipfqt EXCEPT ![i] = [u EXCEPT !.q = q, !.ttl = IP_FTTL]]
             /\ pool' = pool
    <3>1. PICK w : w = [u EXCEPT !.q = q, !.ttl = IP_FTTL]
      OBVIOUS
    <3>2. w \in FragQueue /\ w.q = q /\ w.state = "IPFF_VALID"
      <4>1. u.state = "IPFF_VALID" /\ u.id \in Nat /\ IP_FTTL \in 0 .. IP_FTTL
        BY <2>8, <1>4 DEF FragQueue
      <4>2. w.q = q /\ w.state = u.state
        BY <3>1 DEF FragQueue
      <4>3. w \in FragQueue
        BY <3>1, <4>1 DEF FragQueue
      <4> QED BY <4>1, <4>2, <4>3
    <3>3. Len(w.q) <= IP_FQSIZE
      BY <3>2, <2>2, <2>4, <2>8, <1>4 DEF Full
    <3> QED BY <2>1, <2>4, <2>8, <3>1, <3>2, <3>3, <1>6
  <2>9. \/ u.state = "IPFF_BOGUS" /\ pool' = pool \union {b} /\ UNCHANGED fragVars
        \/ /\ ipfqt' = [ipfqt EXCEPT ![i] = Overflowed(u)]
           /\ pool' = pool \union {b} \union (ToSet(u.q) \ ToSet(Overflowed(u).q))
        \/ ipfqt' = [ipfqt EXCEPT ![i] = FreeQueue] /\ pool' = pool \union ToSet(q)
        \/ /\ ~ Full(u.q, IP_FQSIZE) /\ u.state = "IPFF_VALID"
           /\ ipfqt' = [ipfqt EXCEPT ![i] = [u EXCEPT !.q = q, !.ttl = IP_FTTL]]
           /\ pool' = pool
    BY ZenonT(30), <2>1, <2>4, <1>7 DEF addTo
  <2> QED BY <2>5, <2>6, <2>7, <2>8, <2>9
<1>8. CASE \E i \in Queue :
              /\ ipfqt[i].state = "IPFF_FREE"
              /\ ipfqt' = [ipfqt EXCEPT ![i] =
                     [state |-> "IPFF_VALID", id |-> pkt[b].id, ttl |-> IP_FTTL, q |-> <<b>>]]
              /\ pool' = pool
  <2>1. PICK i \in Queue :
              /\ ipfqt[i].state = "IPFF_FREE"
              /\ ipfqt' = [ipfqt EXCEPT ![i] =
                     [state |-> "IPFF_VALID", id |-> pkt[b].id, ttl |-> IP_FTTL, q |-> <<b>>]]
              /\ pool' = pool
    BY <1>8
  <2>2. PICK w : w = [state |-> "IPFF_VALID", id |-> pkt[b].id, ttl |-> IP_FTTL, q |-> <<b>>]
    OBVIOUS
  <2>3. /\ <<b>> \in Seq(Buf) /\ Len(<<b>>) = 1 /\ NoDup(<<b>>) /\ ToSet(<<b>>) = {b}
        /\ ToSet(ipfqt[i].q) = {}
    BY <2>1, <1>1, <1>2, OneInQueue, EmptyQueue DEF FragInv
  <2>4. pkt[b].id \in Nat
    BY <1>1, <1>2 DEF Types, Packet
  <2>5. w \in FragQueue /\ w.q = <<b>> /\ w.state = "IPFF_VALID"
    BY <2>2, <2>3, <2>4, <1>4 DEF FragQueue
  <2>6. Len(w.q) <= IP_FQSIZE
    BY <2>3, <2>5, <1>4
  <2> QED BY <2>1, <2>2, <2>3, <2>5, <2>6, <1>6
<1>9. Queue \subseteq Nat
  BY <1>4 DEF Queue
<1> DEFINE match == {i \in Queue : ipfqt[i].state # "IPFF_FREE" /\ ipfqt[i].id = pkt[b].id}
           unused == {i \in Queue : ipfqt[i].state = "IPFF_FREE"}
<1>10. /\ match # {} => Min(match) \in match
       /\ unused # {} => Min(unused) \in unused
  <2>1. match \in SUBSET Nat /\ unused \in SUBSET Nat
    BY <1>9
  <2> QED BY <2>1, MinElement
<1>11. \/ match # {} /\ addTo(Min(match), b)
       \/ /\ unused # {}
          /\ ipfqt' = [ipfqt EXCEPT ![Min(unused)] =
                 [state |-> "IPFF_VALID", id |-> pkt[b].id, ttl |-> IP_FTTL, q |-> <<b>>]]
          /\ pool' = pool
       \/ pool' = pool \union {b} /\ UNCHANGED <<ipfqt, joined>>
  BY DEF ipreass, fragVars
<1>12. CASE match # {} /\ addTo(Min(match), b)
  BY <1>7, <1>10, <1>12
<1>13. CASE /\ unused # {}
            /\ ipfqt' = [ipfqt EXCEPT ![Min(unused)] =
                 [state |-> "IPFF_VALID", id |-> pkt[b].id, ttl |-> IP_FTTL, q |-> <<b>>]]
            /\ pool' = pool
  BY <1>8, <1>10, <1>13
<1> QED BY <1>5, <1>11, <1>12, <1>13
(* An echo request stays in its buffer; that of an error is forgotten.      *)
LEMMA EchoKeeps ==
    ASSUME IInv, NEW b, Routed(b), pkt[b].kind # "bad",
           pkt' = [pkt EXCEPT ![b] = [Blank EXCEPT !.to = pkt[b].from]],
           pc' = [pc EXCEPT ![IpProc] = Frame("enq", b, 0)],
           UNCHANGED <<pool, arptable, aenext, ipfqt, joined>>
    PROVE  IInv'
<1>1. Types /\ ArpInv /\ FragInv /\ InqInv /\ ProcInv /\ RoomInv /\ PlaceInv
  BY DEF IInv
<1>2. /\ b \in Buf /\ ip.b = b /\ ip'.b = NoBuf /\ NoBuf \notin Buf /\ pc[IpProc] = Idle
      /\ ip' \in [at : {"clear", "scan", "receive", "route"}, b : Buf \union {NoBuf}, i : 0 .. 2]
      /\ ip'.at = "clear"
  BY <1>1, RoutedFacts
<1>3. UNCHANGED <<ipinq, ifnext, ipmsg, load>>
  BY DEF Routed
<1>4. IpProc \in Procs /\ Timer \in Procs /\ Timer # IpProc
  BY DEF Procs, Timer, IpProc
<1>5. /\ pc'[IpProc].at = "enq" /\ pc'[IpProc].b = b /\ pc[IpProc].b = NoBuf
      /\ \A r \in Procs : r # IpProc => pc'[r] = pc[r]
  BY <1>1, <1>2, <1>4 DEF Types, Frame, Idle
<1>6. Types'
  <2>1. pkt[b].from \in Hosts
    BY <1>1, <1>2 DEF Types, Packet
  <2>2. [Blank EXCEPT !.to = pkt[b].from] \in Packet
    BY <2>1, BlankIsPacket DEF Packet
  <2>3. Frame("enq", b, 0) \in [at : Holding \union {"idle", "wake", "ipftimer"},
                                b : Buf \union {NoBuf}, i : Nat]
    BY <1>2 DEF Frame, Holding
  <2> QED BY <2>2, <2>3, <1>1, <1>2, <1>3 DEF Types
<1>7. ProcInv' /\ RoomInv'
  BY <1>1, <1>2, <1>3, <1>4, <1>5 DEF ProcInv, RoomInv, Holding
<1>8. ASSUME NEW c \in Buf PROVE Apart(c)' /\ (Nowhere(c)' => Nowhere(c))
  <2>1. Apart(c)
    BY <1>1 DEF PlaceInv
  <2>2. \A r \in Procs : pc'[r].b = c <=> pc[r].b = c \/ (r = IpProc /\ c = b)
    BY <1>2, <1>5
  <2>3. ip'.b # c /\ (ip.b = c <=> c = b)
    BY <1>2
  <2>4. CASE c = b
    BY <2>1, <2>2, <2>3, <2>4, <1>3, <1>4
       DEF Apart, Nowhere, NotInq, NotArp, NotFrag, NotHeld
  <2>5. CASE c # b
    BY <2>1, <2>2, <2>3, <2>5, <1>3
       DEF Apart, Nowhere, NotInq, NotArp, NotFrag, NotHeld
  <2> QED BY <2>4, <2>5
<1>9. PlaceInv'
  <2>1. \A c \in Buf : c # b => pkt'[c] = pkt[c]
    BY <1>1 DEF Types
  <2>2. b \notin pool
    BY <1>1, <1>2 DEF PlaceInv, Apart
  <2>3. ~ Nowhere(b)'
    BY <1>2, <1>4, <1>5 DEF Nowhere, NotHeld
  <2>4. \A c \in Buf : c \in pool' => pkt'[c] = Blank
    BY <2>1, <2>2, <1>1 DEF PlaceInv
  <2> QED BY <2>1, <2>3, <2>4, <1>1, <1>3, <1>8, PlaceStep
<1> QED BY <1>1, <1>3, <1>6, <1>7, <1>9 DEF IInv, ArpInv, FragInv, InqInv

LEMMA ErrorKeeps ==
    ASSUME IInv, NEW b, Routed(b), pkt[b].kind = "error",
           UNCHANGED <<pool, pkt, arptable, aenext, ipfqt, joined, pc>>
    PROVE  IInv'
<1>1. Types /\ ArpInv /\ FragInv /\ InqInv /\ ProcInv /\ RoomInv /\ PlaceInv
  BY DEF IInv
<1>2. /\ b \in Buf /\ ip.b = b /\ ip'.b = NoBuf /\ NoBuf \notin Buf /\ pc[IpProc] = Idle
      /\ ip' \in [at : {"clear", "scan", "receive", "route"}, b : Buf \union {NoBuf}, i : 0 .. 2]
      /\ ip'.at = "clear"
  BY <1>1, RoutedFacts
<1>3. UNCHANGED <<ipinq, ifnext, ipmsg, load>>
  BY DEF Routed
<1>4. Types' /\ ProcInv' /\ RoomInv'
  <2>1. Types'
    BY <1>1, <1>2, <1>3 DEF Types
  <2> QED BY <2>1, <1>1, <1>2, <1>3 DEF ProcInv, RoomInv
<1>5. PlaceInv'
  <2>1. ASSUME NEW c \in Buf
        PROVE  Apart(c)' /\ (Nowhere(c)' => Nowhere(c) \/ pkt[c].kind = "error")
    <3>1. Apart(c) /\ ip'.b # c /\ (ip.b = c <=> c = b)
      BY <1>1, <1>2 DEF PlaceInv
    <3>2. Nowhere(c)' /\ c # b => Nowhere(c)
      BY <3>1, <1>3 DEF Nowhere, NotInq, NotArp, NotFrag, NotHeld
    <3>3. Apart(c)'
      BY <3>1, <1>3 DEF Apart, NotInq, NotArp, NotFrag, NotHeld
    <3> QED BY <3>2, <3>3
  <2>2. \A c \in Buf : c \in pool' => pkt'[c] = Blank
    BY <1>1 DEF PlaceInv
  <2> QED BY <2>1, <2>2, <1>1, <1>3, PlaceStep
<1> QED BY <1>1, <1>3, <1>4, <1>5 DEF IInv, ArpInv, FragInv, InqInv

LEMMA RouteKeeps ==
    ASSUME IInv, routePacket
    PROVE  IInv'
<1>1. PICK b : b = ip.b
  OBVIOUS
<1>2. Routed(b) /\ (discard(b) \/ output(b) \/ input(b))
  BY <1>1 DEF routePacket, NextPacket, Routed
<1>3. CASE discard(b)
  BY <1>2, <1>3, DiscardKeeps DEF discard, arpVars, fragVars
<1>4. CASE output(b)
  BY <1>2, <1>4, OutputKeeps
<1>5. CASE input(b)
  <2>1. UNCHANGED <<arptable, aenext>> /\ pc[Timer] = Idle /\ pkt[b].kind # "bad"
    BY <1>5 DEF input, arpVars, Discarded
  <2>2. CASE pkt[b].kind = "frag" /\ ipreass(b) /\ Forget /\ UNCHANGED pc
    BY <1>2, <2>1, <2>2, ReassKeeps
  <2>3. CASE pool' = pool \union {b} /\ Forget /\ UNCHANGED <<fragVars, pc>>
    BY <1>2, <2>1, <2>3, DiscardKeeps DEF fragVars
  <2>4. CASE /\ pkt' = [pkt EXCEPT ![b] = [Blank EXCEPT !.to = pkt[b].from]]
             /\ pc' = [pc EXCEPT ![IpProc] = Frame("enq", b, 0)]
             /\ UNCHANGED <<pool, fragVars>>
    BY <1>2, <2>1, <2>4, EchoKeeps DEF fragVars
  <2>5. CASE pkt[b].kind = "error" /\ UNCHANGED <<pool, pkt, fragVars, pc>>
    BY <1>2, <2>1, <2>5, ErrorKeeps DEF fragVars
  <2> QED BY <1>5, <2>2, <2>3, <2>4, <2>5 DEF input
<1> QED BY <1>2, <1>3, <1>4, <1>5

-----------------------------------------------------------------------------
(* The slow timer and the reassembly queues *)

LEMMA IpftimerKeeps ==
    ASSUME IInv, ipftimerStep
    PROVE  IInv'
<1>1. Types /\ ArpInv /\ FragInv /\ InqInv /\ ProcInv /\ RoomInv /\ PlaceInv
  BY DEF IInv
<1>2. PICK i : i = pc[Timer].i
  OBVIOUS
<1>3. /\ pc[Timer].at = "ipftimer" /\ ipftimer(i)
      /\ UNCHANGED <<arptable, aenext, ipinq, ifnext, ipmsg, ip, load>>
  BY <1>2 DEF ipftimerStep, arpVars, ipVars
<1>4. /\ i \in Queue /\ i \in Nat /\ ipfqt[i].state # "IPFF_FREE"
      /\ Timer \in Procs /\ IpProc \in Procs /\ Timer # IpProc
      /\ pc[Timer].b = NoBuf /\ NoBuf \notin Buf
  BY <1>1, <1>2, <1>3, Interfaces DEF ProcInv, Holding, Procs, Timer, IpProc, Queue
<1>5. PICK u \in FragQueue : u = ipfqt[i]
  BY <1>1, <1>4 DEF Types
<1>6. PICK w \in FragQueue :
         /\ ipfqt' = [ipfqt EXCEPT ![i] = w]
         /\ \/ /\ ~ Expires(i) /\ w.q = u.q /\ w.state = u.state
               /\ pool' = pool
            \/ /\ Expires(i) /\ w.q = <<>> /\ w.state = "IPFF_FREE"
               /\ pool' = pool \union (ToSet(u.q) \ ToSet(Expired(i)))
  <2>1. CASE /\ ~ Expires(i)
             /\ ipfqt' = [ipfqt EXCEPT ![i].ttl = @ - 1]
             /\ UNCHANGED <<pool, joined>>
    <3>1. PICK w : w = [u EXCEPT !.ttl = @ - 1]
      OBVIOUS
    <3>2. u.ttl \in 0 .. IP_FTTL /\ ~ (u.ttl <= 1) /\ IP_FTTL \in Nat
      BY <1>5, <2>1, FragAssumption DEF FragQueue, Expires
    <3>3. w \in FragQueue /\ w.q = u.q /\ w.state = u.state
      <4>1. u.ttl - 1 \in 0 .. IP_FTTL
        BY <3>2
      <4> QED BY <3>1, <4>1 DEF FragQueue
    <3>4. ipfqt' = [ipfqt EXCEPT ![i] = w]
      BY <2>1, <3>1, <1>5
    <3> QED BY <2>1, <3>3, <3>4
  <2>2. CASE /\ Expires(i)
             /\ ipfqt' = [ipfqt EXCEPT ![i] = FreeQueue]
             /\ pool' = pool \union (ToSet(ipfqt[i].q) \ ToSet(Expired(i)))
    <3>1. FreeQueue \in FragQueue /\ FreeQueue.q = <<>> /\ FreeQueue.state = "IPFF_FREE"
      BY FragAssumption, EmptyQueue DEF FreeQueue, FragQueue
    <3> QED BY <2>2, <3>1, <1>5
  <2> QED BY <1>3, <2>1, <2>2 DEF ipftimer
<1>7. ipfqt'[i] = w /\ \A j \in Queue : j # i => ipfqt'[j] = ipfqt[j]
  BY <1>1, <1>4, <1>6 DEF Types
<1>8. u.q \in Seq(Buf) /\ NoDup(u.q) /\ ToSet(u.q) \subseteq Buf
  BY <1>1, <1>4, <1>5, InSeq DEF FragQueue, FragInv
<1>9. FragInv'
  <2>1. NoDup(<<>>) /\ Len(<<>>) = 0 /\ IP_FQSIZE \in Nat
    BY EmptyQueue, FragAssumption
  <2> QED BY <2>1, <1>1, <1>4, <1>5, <1>6, <1>7 DEF FragInv
<1>10. pool' \subseteq Buf /\ ipfqt' \in [Queue -> FragQueue]
  BY <1>1, <1>6, <1>8 DEF Types
<1>11. CASE Expired(i) = <<>>
  <2>1. PICK f : f = NextQueue(i + 1)
    OBVIOUS
  <2>2. pc' = [pc EXCEPT ![Timer] = f] /\ Forget
    BY <1>2, <1>11, <2>1 DEF ipftimerStep
  <2>3. /\ f \in [at : Holding \union {"idle", "wake", "ipftimer"}, b : Buf \union {NoBuf}, i : Nat]
        /\ f.at \in {"idle", "ipftimer"} /\ f.b = NoBuf
        /\ f.at = "idle" => f = Idle
        /\ f.at = "ipftimer" => f.i \in Queue /\ ipfqt[f.i].state # "IPFF_FREE" /\ f.i # i
    <3>1. i + 1 \in Nat
      BY <1>4
    <3>2. \A j \in Queue : j >= i + 1 => j # i
      BY <1>4 DEF Queue
    <3>3. CASE f = Idle
      BY <3>3 DEF Idle, Frame
    <3>4. CASE \E j \in Queue : f = Frame("ipftimer", NoBuf, j) /\ ipfqt[j].state # "IPFF_FREE" /\ j >= i + 1
      BY <3>2, <3>4 DEF Frame, Queue
    <3> QED BY <2>1, <3>1, <3>3, <3>4, NextQueueFacts
  <2>4. pc'[Timer] = f /\ \A r \in Procs : r # Timer => pc'[r] = pc[r]
    BY <1>1, <1>4, <2>2 DEF Types
  <2>5. Types'
    BY <2>2, <2>3, <1>1, <1>3, <1>10, ForgetPackets DEF Types
  <2>6. ProcInv' /\ RoomInv'
    <3>1. ProcInv'
      BY <2>3, <2>4, <1>1, <1>3, <1>4, <1>7 DEF ProcInv, Holding
    <3> QED BY <3>1, <2>3, <2>4, <1>1, <1>3 DEF RoomInv
  <2>7. ASSUME NEW c \in Buf PROVE Apart(c)' /\ (Nowhere(c)' => Nowhere(c))
    <3>1. Apart(c) /\ \A r \in Procs : pc'[r].b = pc[r].b
      BY <1>1, <1>4, <2>3, <2>4 DEF PlaceInv
    <3>2. CASE ~ Expires(i)
      <4>1. pool' = pool /\ \A j \in Queue : c \in ToSet(ipfqt'[j].q) <=> c \in ToSet(ipfqt[j].q)
        BY <3>2, <1>5, <1>6, <1>7
      <4> QED BY <3>1, <4>1, <1>3 DEF Apart, Nowhere, NotInq, NotArp, NotFrag, NotHeld
    <3>3. CASE Expires(i)
      <4>1. c \in pool' <=> c \in pool \/ c \in ToSet(ipfqt[i].q)
        BY <3>3, <1>5, <1>6, <1>11, EmptyQueue
      <4>2. \A j \in Queue : c \in ToSet(ipfqt'[j].q) <=> c \in ToSet(ipfqt[j].q) /\ j # i
        BY <3>3, <1>6, <1>7, EmptyQueue
      <4> QED BY <3>1, <4>1, <4>2, <1>3, <1>4 DEF Apart, Nowhere, NotInq, NotArp, NotFrag, NotHeld
    <3> QED BY <3>2, <3>3
  <2>8. PlaceInv'
    BY <2>2, <2>7, <1>1, <1>3, PlaceStepForget DEF Types
  <2> QED BY <2>5, <2>6, <2>8, <1>1, <1>3, <1>9 DEF IInv, ArpInv, InqInv
<1>12. CASE Expired(i) # <<>>
  <2>1. Expires(i) /\ u.q # <<>> /\ Expired(i) = <<Head(u.q)>>
    BY <1>5, <1>12 DEF Expired
  <2>2. PICK h \in Buf : h = Head(u.q) /\ h \in ToSet(u.q)
    BY <2>1, <1>8, TailOfQueue
  <2>3. Expired(i)[1] = h /\ ToSet(Expired(i)) = {h}
    BY <2>1, <2>2, OneInQueue
  <2>4. /\ pc' = [pc EXCEPT ![Timer] = Frame("enq", h, i)]
        /\ pkt' = [b \in Buf |-> IF b = h THEN [Blank EXCEPT !.to = pkt[b].from]
                                 ELSE IF b \in pool' THEN Blank ELSE pkt[b]]
    BY <1>2, <1>12, <2>3 DEF ipftimerStep
  <2>5. /\ pc'[Timer].at = "enq" /\ pc'[Timer].b = h
        /\ \A r \in Procs : r # Timer => pc'[r] = pc[r]
    BY <1>1, <1>4, <2>4 DEF Types, Frame
  <2>6. Types'
    <3>1. [Blank EXCEPT !.to = pkt[h].from] \in Packet
      <4>1. pkt[h].from \in Hosts
        BY <1>1, <2>2 DEF Types, Packet
      <4> QED BY <4>1, BlankIsPacket DEF Packet
    <3>2. pkt' \in [Buf -> Packet]
      BY <2>4, <3>1, <1>1, BlankIsPacket DEF Types
    <3>3. Frame("enq", h, i) \in [at : Holding \union {"idle", "wake", "ipftimer"},
                                  b : Buf \union {NoBuf}, i : Nat]
      BY <2>2, <1>4 DEF Frame, Holding
    <3> QED BY <2>4, <3>2, <3>3, <1>1, <1>3, <1>10 DEF Types
  <2>7. ProcInv' /\ RoomInv'
    BY <2>2, <2>5, <1>1, <1>3, <1>4 DEF ProcInv, RoomInv, Holding
  <2>8. /\ w.q = <<>> /\ pool' = pool \union (ToSet(u.q) \ {h})
    BY <2>1, <2>3, <1>6
  <2>9. ASSUME NEW c \in Buf PROVE Apart(c)' /\ (Nowhere(c)' => Nowhere(c))
    <3>1. Apart(c)
      BY <1>1 DEF PlaceInv
    <3>2. c \in pool' <=> c \in pool \/ (c \in ToSet(ipfqt[i].q) /\ c # h)
      BY <2>8, <1>5
    <3>3. \A j \in Queue : c \in ToSet(ipfqt'[j].q) <=> c \in ToSet(ipfqt[j].q) /\ j # i
      BY <2>8, <1>7, EmptyQueue
    <3>4. \A r \in Procs : pc'[r].b = c <=> pc[r].b = c \/ (r = Timer /\ c = h)
      BY <1>4, <2>5
    <3>5. CASE c = h
      BY <3>1, <3>2, <3>3, <3>4, <3>5, <2>2, <1>3, <1>4, <1>5
         DEF Apart, Nowhere, NotInq, NotArp, NotFrag, NotHeld
    <3>6. CASE c # h
      BY <3>1, <3>2, <3>3, <3>4, <3>6, <1>3, <1>4
         DEF Apart, Nowhere, NotInq, NotArp, NotFrag, NotHeld
    <3> QED BY <3>5, <3>6
  <2>10. PlaceInv'
    <3>1. h \notin pool'
      BY <2>2, <2>8, <1>1, <1>4, <1>5 DEF PlaceInv, Apart, NotFrag
    <3>2. ~ Nowhere(h)'
      BY <2>2, <2>5, <1>4 DEF Nowhere, NotHeld
    <3>3. \A b \in Buf : b \in pool' => pkt'[b] = Blank
      BY <2>4, <3>1
    <3>4. \A b \in Buf : b \in pool' => ~ Nowhere(b)'
      BY DEF Nowhere
    <3>5. \A b \in Buf : b # h /\ b \notin pool' => pkt'[b] = pkt[b]
      BY <2>4
    <3> QED BY <2>9, <3>2, <3>3, <3>4, <3>5, <1>1, <1>3, PlaceStep
  <2> QED BY <2>6, <2>7, <2>10, <1>1, <1>3, <1>9 DEF IInv, ArpInv, InqInv
<1> QED BY <1>11, <1>12

-----------------------------------------------------------------------------
(* The invariant *)

LEMMA InitHolds == Init => IInv
<1> SUFFICES ASSUME Init PROVE IInv
  OBVIOUS
<1>1. /\ load \in Workloads /\ pool = load.bufs /\ pkt = [b \in Buf |-> Blank]
      /\ arptable = [e \in Entry |-> FreeEntry] /\ aenext = 0
      /\ ipfqt = [i \in Queue |-> FreeQueue]
      /\ ipinq = [i \in If |-> <<>>] /\ ifnext = NI_LOCAL /\ ipmsg = NoMsg
      /\ ip = [at |-> "clear", b |-> NoBuf, i |-> 0]
      /\ pc = [p \in Procs |-> Idle]
  BY DEF Init, ArpInit, FragInit, Procs
<1>2. /\ <<>> \in Seq(Buf) /\ Len(<<>>) = 0 /\ NoDup(<<>>) /\ ToSet(<<>>) = {}
      /\ ARP_QSIZE \in Nat /\ IP_FQSIZE \in Nat /\ NoBuf \notin Buf
  BY EmptyQueue, ArpAssumption, FragAssumption, Interfaces
<1>3. Types
  <2>1. load.bufs \subseteq Buf
    BY <1>1, LoadFacts
  <2>2. 0 \in Entry
    BY ArpAssumption DEF Entry
  <2>3. FreeQueue \in FragQueue
    BY <1>2, FragAssumption DEF FreeQueue, FragQueue
  <2> QED BY <2>1, <2>2, <2>3, <1>1, <1>2, BlankIsPacket, FreeEntryType
          DEF Types, Idle, Frame, NI_LOCAL
<1>4. ArpInv /\ FragInv /\ InqInv
  BY <1>1, <1>2, FreeEntryType DEF ArpInv, FragInv, InqInv, FreeQueue
<1>5. ProcInv /\ RoomInv
  BY <1>1 DEF ProcInv, RoomInv, Idle, Frame, Holding, Procs
<1>6. PlaceInv
  BY <1>1, <1>2, FreeEntryType
     DEF PlaceInv, Apart, Nowhere, NotInq, NotArp, NotFrag, NotHeld, Idle, Frame, FreeQueue
<1> QED BY <1>3, <1>4, <1>5, <1>6 DEF IInv

LEMMA StepKeeps ==
    ASSUME IInv, AloneInEnq, [Next]_vars
    PROVE  IInv'
<1>1. CASE UNCHANGED vars
  BY <1>1 DEF vars, arpVars, fragVars, ipVars, IInv, Types, ArpInv, FragInv, InqInv, ProcInv,
              RoomInv, PlaceInv, Apart, Nowhere, NotInq, NotArp, NotFrag, NotHeld
<1>2. CASE \E c \in load.arrive : ip_in(c)
  BY <1>2, IpInKeeps
<1>3. CASE \E h \in load.arp, forUs \in BOOLEAN : arpInterrupt(h, forUs)
  BY <1>3, ArpInterruptKeeps
<1>4. CASE arpflush /\ UNCHANGED <<pkt, fragVars, ipVars, pc, load>>
  BY <1>4, ArpflushKeeps
<1>5. ASSUME NEW p \in Procs, sending(p)
      PROVE  IInv'
  BY <1>5, EnqCheckKeeps, EnqInsertKeeps, EnqRefusedKeeps, WakeKeeps DEF sending
<1>6. CASE \E p \in load.senders : ipsend(p) \/ sending(p)
  <2>1. load.senders \subseteq Procs
    BY LoadFacts DEF IInv, Types
  <2> QED BY <1>5, <1>6, <2>1, IpsendKeeps
<1>7. CASE ipproc
  <2>1. IpProc \in Procs
    BY DEF Procs
  <2> QED BY <1>5, <1>7, <2>1, GetpKeeps, ScanKeeps, RouteKeeps DEF ipproc
<1>8. CASE slowtimer
  <2>1. Timer \in Procs
    BY DEF Procs
  <2> QED BY <1>5, <1>8, <2>1, ArptimerKeeps, IpftimerKeeps DEF slowtimer
<1> QED BY <1>1, <1>2, <1>3, <1>4, <1>6, <1>7, <1>8 DEF Next
-----------------------------------------------------------------------------
(* From the invariant to the property *)

LEMMA TypeFromTypes ==
    ASSUME Types, ArpInv, FragInv
    PROVE  TypeOK
<1>1. \A e \in Entry : /\ arptable[e].state \in ArpStates
                       /\ arptable[e].ttl \in 0 .. Max({ARP_TIMEOUT, ARP_RESEND})
                       /\ Len(arptable[e].queue) <= ARP_QSIZE
  BY DEF Types, ArpEntry, ArpInv
<1>2. \A i \in Queue : /\ ipfqt[i].state \in {"IPFF_FREE", "IPFF_VALID", "IPFF_BOGUS"}
                       /\ ipfqt[i].ttl \in 0 .. IP_FTTL
                       /\ Len(ipfqt[i].q) <= IP_FQSIZE
  BY DEF Types, FragQueue, FragInv
<1> QED BY <1>1, <1>2, Interfaces DEF TypeOK, Types

LEMMA FoundNone ==
    ASSUME NEW q \in Seq(Buf), NEW b, NEW name, NEW i, b \notin ToSet(q)
    PROVE  Found(b, name, i, q) = {}
BY InSeq DEF Found

LEMMA FoundOnce ==
    ASSUME NEW q \in Seq(Buf), NoDup(q), NEW b \in ToSet(q), NEW name, NEW i
    PROVE  \E x : Found(b, name, i, q) = {x}
<1>1. PICK k \in 1 .. Len(q) : q[k] = b
  BY InSeq
<1>2. {j \in 1 .. Len(q) : q[j] = b} = {k}
  BY <1>1 DEF NoDup
<1>3. Found(b, name, i, q) = {<<name, i, j>> : j \in {k}}
  BY <1>2 DEF Found
<1>4. {<<name, i, j>> : j \in {k}} = {<<name, i, k>>}
  OBVIOUS
<1> QED BY <1>3, <1>4

(* A buffer that is somewhere, and nowhere else, has one place.             *)
LEMMA OnePlace ==
    ASSUME IInv, NEW b \in Buf, ~ Nowhere(b)
    PROVE  \E x : Places(b) = {x}
<1>1. Types /\ ArpInv /\ FragInv /\ InqInv /\ ProcInv /\ Apart(b)
  BY DEF IInv, PlaceInv
<1> DEFINE inpool == IF b \in pool THEN {<<"pool", 0, 0>>} ELSE {}
           inqs   == UNION {Found(b, "ipinq", i, ipinq[i]) : i \in If}
           arps   == UNION {Found(b, "arp", e, arptable[e].queue) :
                               e \in {f \in Entry : arptable[f].state # "AS_FREE"}}
           frags  == UNION {Found(b, "frag", i, ipfqt[i].q) :
                               i \in {k \in Queue : ipfqt[k].state = "IPFF_VALID"}}
           hands  == {<<p, 0, 0>> : p \in {r \in DOMAIN pc : pc[r].b = b}}
           routed == IF ip.b = b THEN {<<"route", 0, 0>>} ELSE {}
<1>2. Places(b) = inpool \union inqs \union arps \union frags \union hands \union routed
  BY Zenon DEF Places
<1>3. /\ \A i \in If : ipinq[i] \in Seq(Buf) /\ NoDup(ipinq[i])
      /\ \A e \in Entry : /\ arptable[e].queue \in Seq(Buf) /\ NoDup(arptable[e].queue)
                          /\ b \in ToSet(arptable[e].queue) => arptable[e].state # "AS_FREE"
      /\ \A i \in Queue : /\ ipfqt[i].q \in Seq(Buf) /\ NoDup(ipfqt[i].q)
                          /\ b \in ToSet(ipfqt[i].q) => ipfqt[i].state = "IPFF_VALID"
  BY <1>1, EmptyQueue DEF Types, ArpEntry, FragQueue, ArpInv, FragInv, InqInv
<1>4. b \notin pool => inpool = {}
  OBVIOUS
<1>5. NotInq(b) => inqs = {}
  BY <1>3, FoundNone DEF NotInq
<1>6. NotArp(b) => arps = {}
  BY <1>3, FoundNone DEF NotArp
<1>7. NotFrag(b) => frags = {}
  BY <1>3, FoundNone DEF NotFrag
<1>8. NotHeld(b) => hands = {}
  BY <1>1 DEF NotHeld, Types
<1>9. ip.b # b => routed = {}
  OBVIOUS
<1>10. CASE b \in pool
  <2>1. inpool = {<<"pool", 0, 0>>}
    BY <1>10
  <2>2. inqs = {} /\ arps = {} /\ frags = {} /\ hands = {} /\ routed = {}
    BY <1>1, <1>5, <1>6, <1>7, <1>8, <1>9, <1>10 DEF Apart
  <2> HIDE DEF inpool, inqs, arps, frags, hands, routed
  <2> QED BY <2>1, <2>2, <1>2
<1>11. CASE \E i \in If : b \in ToSet(ipinq[i])
  <2>1. PICK i \in If : b \in ToSet(ipinq[i])
    BY <1>11
  <2>2. PICK x : Found(b, "ipinq", i, ipinq[i]) = {x}
    BY <2>1, <1>3, FoundOnce
  <2>3. \A j \in If : j # i => Found(b, "ipinq", j, ipinq[j]) = {}
    BY <2>1, <1>1, <1>3, FoundNone DEF Apart
  <2>4. inqs = {x}
    BY <2>2, <2>3
  <2>5. inpool = {} /\ arps = {} /\ frags = {} /\ hands = {} /\ routed = {}
    BY <2>1, <1>1, <1>4, <1>6, <1>7, <1>8, <1>9 DEF Apart, NotInq
  <2> HIDE DEF inpool, inqs, arps, frags, hands, routed
  <2> QED BY <2>4, <2>5, <1>2
<1>12. CASE \E e \in Entry : b \in ToSet(arptable[e].queue)
  <2>1. PICK e \in Entry : b \in ToSet(arptable[e].queue)
    BY <1>12
  <2>2. PICK x : Found(b, "arp", e, arptable[e].queue) = {x}
    BY <2>1, <1>3, FoundOnce
  <2>3. \A f \in Entry : f # e => Found(b, "arp", f, arptable[f].queue) = {}
    BY <2>1, <1>1, <1>3, FoundNone DEF Apart
  <2>4. arps = {x}
    BY <2>1, <2>2, <2>3, <1>3
  <2>5. inpool = {} /\ inqs = {} /\ frags = {} /\ hands = {} /\ routed = {}
    BY <2>1, <1>1, <1>4, <1>5, <1>7, <1>8, <1>9 DEF Apart, NotInq, NotArp
  <2> HIDE DEF inpool, inqs, arps, frags, hands, routed
  <2> QED BY <2>4, <2>5, <1>2
<1>13. CASE \E i \in Queue : b \in ToSet(ipfqt[i].q)
  <2>1. PICK i \in Queue : b \in ToSet(ipfqt[i].q)
    BY <1>13
  <2>2. PICK x : Found(b, "frag", i, ipfqt[i].q) = {x}
    BY <2>1, <1>3, FoundOnce
  <2>3. \A j \in Queue : j # i => Found(b, "frag", j, ipfqt[j].q) = {}
    BY <2>1, <1>1, <1>3, FoundNone DEF Apart
  <2>4. frags = {x}
    BY <2>1, <2>2, <2>3, <1>3
  <2>5. inpool = {} /\ inqs = {} /\ arps = {} /\ hands = {} /\ routed = {}
    BY <2>1, <1>1, <1>4, <1>5, <1>6, <1>8, <1>9 DEF Apart, NotInq, NotArp, NotFrag
  <2> HIDE DEF inpool, inqs, arps, frags, hands, routed
  <2> QED BY <2>4, <2>5, <1>2
<1>14. CASE \E p \in Procs : pc[p].b = b
  <2>1. PICK p \in Procs : pc[p].b = b
    BY <1>14
  <2>2. {r \in DOMAIN pc : pc[r].b = b} = {p}
    BY <2>1, <1>1 DEF Apart, Types
  <2>3. hands = {<<p, 0, 0>>}
    BY <2>2
  <2>4. inpool = {} /\ inqs = {} /\ arps = {} /\ frags = {} /\ routed = {}
    BY <2>1, <1>1, <1>4, <1>5, <1>6, <1>7, <1>9 DEF Apart, NotInq, NotArp, NotFrag, NotHeld
  <2> HIDE DEF inpool, inqs, arps, frags, hands, routed
  <2> QED BY <2>3, <2>4, <1>2
<1>15. CASE ip.b = b
  <2>1. routed = {<<"route", 0, 0>>}
    BY <1>15
  <2>2. inpool = {} /\ inqs = {} /\ arps = {} /\ frags = {} /\ hands = {}
    BY <1>15, <1>1, <1>4, <1>5, <1>6, <1>7, <1>8 DEF Apart, NotInq, NotArp, NotFrag, NotHeld
  <2> HIDE DEF inpool, inqs, arps, frags, hands, routed
  <2> QED BY <2>1, <2>2, <1>2
<1> QED BY <1>10, <1>11, <1>12, <1>13, <1>14, <1>15 DEF Nowhere, NotInq, NotArp, NotFrag, NotHeld

LEMMA InvPlaces == IInv => PacketInOnePlace
<1> SUFFICES ASSUME IInv PROVE PacketInOnePlace
  OBVIOUS
<1>1. TypeOK
  BY TypeFromTypes DEF IInv
<1>2. ASSUME NEW b \in load.bufs, pkt[b].kind # "error"
      PROVE  Cardinality(Places(b)) = 1
  <2>1. b \in Buf /\ ~ Nowhere(b)
    BY <1>2, LoadFacts DEF IInv, Types, PlaceInv
  <2> QED BY <2>1, OnePlace, FS_Singleton
<1> QED BY <1>1, <1>2 DEF PacketInOnePlace

(* Every packet buffer is in exactly one place, however queues overflow,    *)
(* entries are evicted, and fragments expire (gpq.c, arp_alloc.c, arp_dq.c, *)
(* arp_timer.c, ip_fadd.c, ip_ftimer.c), as long as no two processes are    *)
(* between enq's look at the count and its insertion.                       *)
THEOREM PacketsKept == Spec /\ []AloneInEnq => []PacketInOnePlace
<1>1. Init => IInv
  BY InitHolds
<1>2. IInv /\ AloneInEnq /\ [Next]_vars => IInv'
  BY StepKeeps
<1>3. IInv => PacketInOnePlace
  BY InvPlaces
<1> QED BY <1>1, <1>2, <1>3, PTL DEF Spec
-----------------------------------------------------------------------------
(* The message that wakes the IP process: no hypothesis on enq, and of the   *)
(* state only what its wait depends on.                                      *)

WakeTypes ==
    /\ load \in Workloads
    /\ ipinq = [i \in If |-> ipinq[i]]
    /\ ifnext \in 0 .. 2
    /\ ipmsg \in If \union {NoMsg}
    /\ ip = [at |-> ip.at, b |-> ip.b, i |-> ip.i] /\ ip.i \in 0 .. 2
    /\ pc = [p \in Procs |-> pc[p]]
    /\ \A p \in Procs : pc[p] = Frame(pc[p].at, pc[p].b, pc[p].i)

WInv == WakeTypes /\ WakeInv

LEMMA FrameExcept ==
    ASSUME NEW f, NEW at, NEW b, f = Frame(f.at, f.b, f.i)
    PROVE  /\ [f EXCEPT !.at = at] = Frame(at, f.b, f.i)
           /\ [f EXCEPT !.at = at, !.b = b] = Frame(at, b, f.i)
           /\ [f EXCEPT !.b = b, !.at = at] = Frame(at, b, f.i)
<1>1. PICK x, y, z : x = f.at /\ y = f.b /\ z = f.i
  OBVIOUS
<1>2. f = [at |-> x, b |-> y, i |-> z]
  BY <1>1 DEF Frame
<1>3. [f EXCEPT !.at = at] = [at |-> at, b |-> y, i |-> z]
  BY <1>2
<1>4. [f EXCEPT !.b = b] = [at |-> x, b |-> b, i |-> z]
  BY <1>2
<1>5. [[at |-> at, b |-> y, i |-> z] EXCEPT !.b = b] = [at |-> at, b |-> b, i |-> z]
  OBVIOUS
<1>6. [[at |-> x, b |-> b, i |-> z] EXCEPT !.at = at] = [at |-> at, b |-> b, i |-> z]
  OBVIOUS
<1>7. /\ [f EXCEPT !.at = at, !.b = b] = [[f EXCEPT !.at = at] EXCEPT !.b = b]
      /\ [f EXCEPT !.b = b, !.at = at] = [[f EXCEPT !.b = b] EXCEPT !.at = at]
  OBVIOUS
<1> QED BY <1>1, <1>3, <1>4, <1>5, <1>6, <1>7 DEF Frame

LEMMA InqExcept ==
    ASSUME ipinq = [i \in If |-> ipinq[i]], NEW n \in If, NEW q,
           ipinq' = [ipinq EXCEPT ![n] = q]
    PROVE  /\ ipinq' = [i \in If |-> ipinq'[i]]
           /\ \A i \in If : i # n => ipinq'[i] = ipinq[i]
OBVIOUS

LEMMA WInvInit == Init => WInv
<1> SUFFICES ASSUME Init PROVE WInv
  OBVIOUS
<1>1. Procs = Senders \union {Timer, IpProc}
  BY DEF Procs
<1>2. NI_LOCAL \in 0 .. 2 /\ ip.i \in 0 .. 2
  BY DEF Init, NI_LOCAL
<1>3. WakeTypes
  BY <1>1, <1>2 DEF Init, WakeTypes, Idle, Frame
<1>4. WakeInv
  BY DEF Init, WakeInv
<1> QED BY <1>3, <1>4 DEF WInv

(* A step of one process that leaves the queues and the message alone, and  *)
(* is not the sending of it.                                                *)
LEMMA ProcessStep ==
    ASSUME WInv, NEW p \in Procs, NEW at, NEW b, NEW i,
           pc' = [pc EXCEPT ![p] = Frame(at, b, i)],
           pc[p].at \in {"wake", "refused"} => at \in {"wake", "refused"},
           UNCHANGED ipVars, load' = load
    PROVE  WInv'
<1>1. /\ pc'[p] = Frame(at, b, i) /\ pc' = [r \in Procs |-> pc'[r]]
      /\ \A r \in Procs : r # p => pc'[r] = pc[r]
  BY DEF WInv, WakeTypes
<1>2. \A r \in Procs : pc'[r] = Frame(pc'[r].at, pc'[r].b, pc'[r].i)
  BY <1>1 DEF WInv, WakeTypes, Frame
<1>3. WakeTypes'
  BY <1>1, <1>2 DEF WInv, WakeTypes, ipVars
<1>4. \A n \in If : Heard(n) => Heard(n)'
  <2>1. pc'[p].at = at
    BY <1>1 DEF Frame
  <2> QED BY <1>1, <2>1 DEF Heard, ipVars
<1>5. WakeInv'
  <2>1. \A n \in {1, 2} : n - 1 \in If
    BY DEF If, NI_LOCAL, NI_PRIMARY
  <2>2. ip' = ip /\ ifnext' = ifnext
    BY DEF ipVars
  <2> QED BY <1>4, <2>1, <2>2 DEF WInv, WakeInv
<1> QED BY <1>3, <1>5 DEF WInv

(* Once there is a message, it is heard; so it is while one is about to be   *)
(* sent, by what only the local queue depends on.                            *)
LEMMA MessageStep ==
    ASSUME WInv, WakeTypes', ip' = ip, ifnext' = ifnext,
           \A n \in If : Heard(n)'
    PROVE  WInv'
<1>1. \A n \in {1, 2} : n - 1 \in If
  BY DEF If, NI_LOCAL, NI_PRIMARY
<1>2. WakeInv'
  BY <1>1 DEF WInv, WakeInv
<1> QED BY <1>2 DEF WInv

LEMMA IpInHeard ==
    ASSUME WInv, NEW c \in load.arrive, ip_in(c)
    PROVE  WInv'
<1>1. /\ ipmsg' \in If /\ UNCHANGED <<ifnext, ip, pc, load>>
      /\ ipinq' = [i \in If |-> ipinq'[i]]
  BY DEF ip_in, Woken, WInv, WakeTypes, If
<1>2. WakeTypes'
  BY <1>1 DEF WInv, WakeTypes
<1>3. \A n \in If : Heard(n)'
  BY <1>1 DEF Heard, If, NI_LOCAL, NI_PRIMARY, NoMsg
<1> QED BY <1>1, <1>2, <1>3, MessageStep

LEMMA EnqInsertHeard ==
    ASSUME WInv, NEW p \in Procs, enqInsert(p)
    PROVE  WInv'
<1>0. pc[p] = Frame(pc[p].at, pc[p].b, pc[p].i)
  BY DEF WInv, WakeTypes
<1>1. PICK at, b, i : /\ pc' = [pc EXCEPT ![p] = Frame(at, b, i)]
                      /\ at \in {"wake", "refused"}
  <2> DEFINE q == Inserted(ipinq[NI_LOCAL], pc[p].b, [b \in Buf |-> 0])
  <2>1. CASE Refused(q, NI_INQSZ)
    <3>1. pc' = [pc EXCEPT ![p] = [pc[p] EXCEPT !.at = "refused"]]
      BY <2>1 DEF enqInsert
    <3>2. [pc[p] EXCEPT !.at = "refused"] = Frame("refused", pc[p].b, pc[p].i)
      BY <1>0, FrameExcept
    <3> QED BY <3>1, <3>2
  <2>2. CASE ~ Refused(q, NI_INQSZ)
    <3>1. pc' = [pc EXCEPT ![p] = [pc[p] EXCEPT !.at = "wake", !.b = NoBuf]]
      BY <2>2 DEF enqInsert
    <3>2. [pc[p] EXCEPT !.at = "wake", !.b = NoBuf] = Frame("wake", NoBuf, pc[p].i)
      BY <1>0, FrameExcept
    <3> QED BY <3>1, <3>2
  <2> QED BY <2>1, <2>2
<1>2. /\ pc'[p] = Frame(at, b, i) /\ pc' = [r \in Procs |-> pc'[r]]
      /\ \A r \in Procs : r # p => pc'[r] = pc[r]
  BY <1>1 DEF WInv, WakeTypes
<1>3. \A r \in Procs : pc'[r] = Frame(pc'[r].at, pc'[r].b, pc'[r].i)
  BY <1>2 DEF WInv, WakeTypes, Frame
<1>a. PICK q : ipinq' = [ipinq EXCEPT ![NI_LOCAL] = q]
  BY DEF enqInsert
<1>4. /\ ipinq' = [n \in If |-> ipinq'[n]] /\ ipinq'[NI_PRIMARY] = ipinq[NI_PRIMARY]
      /\ UNCHANGED <<ifnext, ipmsg, ip, load>>
  <2>1. NI_LOCAL \in If /\ NI_PRIMARY \in If /\ NI_LOCAL # NI_PRIMARY
    BY DEF If, NI_LOCAL, NI_PRIMARY
  <2> QED BY <2>1, <1>a, InqExcept DEF enqInsert, WInv, WakeTypes
<1>5. WakeTypes'
  BY <1>2, <1>3, <1>4 DEF WInv, WakeTypes
<1>6. Heard(NI_LOCAL)'
  BY <1>1, <1>2 DEF Heard, Frame
<1>7. Heard(NI_PRIMARY) => Heard(NI_PRIMARY)'
  BY <1>4 DEF Heard, NI_LOCAL, NI_PRIMARY
<1>8. WakeInv'
  <2>1. If = {NI_LOCAL, NI_PRIMARY} /\ \A n \in {1, 2} : n - 1 \in If
    BY DEF If, NI_LOCAL, NI_PRIMARY
  <2>2. \A n \in If : Heard(n) => Heard(n)'
    BY <1>6, <1>7, <2>1
  <2> QED BY <1>4, <2>1, <2>2 DEF WInv, WakeInv
<1> QED BY <1>5, <1>8 DEF WInv

LEMMA WakeHeard ==
    ASSUME WInv, NEW p \in Procs, wakeIpproc(p)
    PROVE  WInv'
<1>1. PICK at, b, i : pc' = [pc EXCEPT ![p] = Frame(at, b, i)]
  BY DEF wakeIpproc, NextQueue, Idle
<1>2. /\ pc'[p] = Frame(at, b, i) /\ pc' = [r \in Procs |-> pc'[r]]
      /\ \A r \in Procs : r # p => pc'[r] = pc[r]
  BY <1>1 DEF WInv, WakeTypes
<1>3. \A r \in Procs : pc'[r] = Frame(pc'[r].at, pc'[r].b, pc'[r].i)
  BY <1>2 DEF WInv, WakeTypes, Frame
<1>4. ipmsg' \in If /\ UNCHANGED <<ipinq, ifnext, ip, load>>
  BY DEF wakeIpproc, Woken, WInv, WakeTypes, If
<1>5. WakeTypes'
  BY <1>2, <1>3, <1>4 DEF WInv, WakeTypes
<1>6. \A n \in If : Heard(n)'
  BY <1>4 DEF Heard, If, NI_LOCAL, NI_PRIMARY, NoMsg
<1> QED BY <1>4, <1>5, <1>6, MessageStep

LEMMA GetpHeard ==
    ASSUME WInv, getpClear \/ getpReceive \/ (routePacket /\ UNCHANGED pc)
    PROVE  WInv'
<1>1. /\ UNCHANGED <<ipinq, pc, load>> /\ ipmsg' \in If \union {NoMsg} /\ ifnext' \in 0 .. 2
      /\ ip' = [at |-> ip'.at, b |-> ip'.b, i |-> ip'.i] /\ ip'.i = 0
      /\ ip'.at \in {"scan", "clear"}
  BY DEF getpClear, getpReceive, routePacket, NextPacket, WInv, WakeTypes, If, NI_LOCAL,
         NI_PRIMARY, NoMsg
<1>2. WakeTypes'
  BY <1>1 DEF WInv, WakeTypes
<1>3. WakeInv'
  BY <1>1 DEF WakeInv
<1> QED BY <1>2, <1>3 DEF WInv

(* An echo reply: the IP process becomes a sender. *)
LEMMA RouteHeard ==
    ASSUME WInv, routePacket
    PROVE  WInv'
<1>1. CASE UNCHANGED pc
  BY <1>1, GetpHeard
<1>2. ASSUME NEW b, pc' = [pc EXCEPT ![IpProc] = Frame("enq", b, 0)]
      PROVE  WInv'
  <2>1. IpProc \in Procs
    BY DEF Procs
  <2>2. /\ pc'[IpProc] = Frame("enq", b, 0) /\ pc' = [r \in Procs |-> pc'[r]]
        /\ \A r \in Procs : r # IpProc => pc'[r] = pc[r]
    BY <1>2, <2>1 DEF WInv, WakeTypes
  <2>3. \A r \in Procs : pc'[r] = Frame(pc'[r].at, pc'[r].b, pc'[r].i)
    BY <2>2 DEF WInv, WakeTypes, Frame
  <2>4. /\ UNCHANGED <<ipinq, ifnext, ipmsg, load>>
        /\ ip' = [at |-> ip'.at, b |-> ip'.b, i |-> ip'.i] /\ ip'.i = 0 /\ ip'.at = "clear"
    BY DEF routePacket, NextPacket
  <2>5. WakeTypes'
    BY <2>2, <2>3, <2>4 DEF WInv, WakeTypes
  <2>6. WakeInv'
    BY <2>4 DEF WakeInv
  <2> QED BY <2>5, <2>6 DEF WInv
<1> QED BY <1>1, <1>2 DEF routePacket, discard, output, input

LEMMA ScanHeard ==
    ASSUME WInv, getpScan
    PROVE  WInv'
<1>0. PICK n : n = ifnext % 2
  OBVIOUS
<1>1. Cardinality(If) = 2 /\ If = {0, 1}
  BY Interfaces
<1>2. n \in {0, 1} /\ (ifnext = 1 => n = 1) /\ (ifnext = 2 => n = 0)
  BY <1>0 DEF WInv, WakeTypes
<1>3. ip.at = "scan" /\ UNCHANGED <<pc, load>>
  BY DEF getpScan
<1>4. CASE ip.i = 2 /\ ip' = [ip EXCEPT !.at = "receive"] /\ UNCHANGED <<ipinq, ifnext, ipmsg>>
  <2>1. ip' = [at |-> "receive", b |-> ip.b, i |-> ip.i]
    BY <1>4 DEF WInv, WakeTypes
  <2>2. WakeTypes'
    BY <1>3, <1>4, <2>1 DEF WInv, WakeTypes
  <2>3. \A m \in If : Heard(m)'
    BY <1>3, <1>4 DEF WInv, WakeInv, Heard
  <2>4. WakeInv'
    BY <2>1, <2>3 DEF WakeInv
  <2> QED BY <2>2, <2>4 DEF WInv
<1>5. CASE /\ ip.i < 2 /\ ipinq[n] = <<>> /\ ifnext' = n + 1
           /\ ip' = [ip EXCEPT !.i = @ + 1] /\ UNCHANGED <<ipinq, ipmsg>>
  <2>1. ip' = [at |-> "scan", b |-> ip.b, i |-> ip.i + 1] /\ ip.i \in {0, 1}
    BY <1>3, <1>5 DEF WInv, WakeTypes
  <2>2. ifnext' \in {1, 2} /\ ifnext' - 1 = n
    BY <1>2, <1>5
  <2>3. WakeTypes'
    BY <1>3, <1>5, <2>1, <2>2 DEF WInv, WakeTypes
  <2>4. Heard(n)'
    BY <1>5 DEF Heard
  <2>5. ip.i = 1 => \A m \in If : Heard(m)'
    <3> SUFFICES ASSUME ip.i = 1, NEW m \in If PROVE Heard(m)'
      OBVIOUS
    <3>1. PICK k : k = ifnext - 1
      OBVIOUS
    <3>2. (m = n \/ m = k) /\ Heard(k)
      BY <1>1, <1>2, <1>3, <3>1 DEF WInv, WakeInv
    <3>3. Heard(k) => Heard(k)'
      BY <1>3, <1>5 DEF Heard
    <3> QED BY <2>4, <3>2, <3>3
  <2>6. WakeInv'
    BY <2>1, <2>2, <2>4, <2>5 DEF WakeInv
  <2> QED BY <2>3, <2>6 DEF WInv
<1>6. CASE /\ ip' = [at |-> "route", b |-> Head(ipinq[n]), i |-> n]
           /\ ipinq' = [ipinq EXCEPT ![n] = Tail(@)] /\ ifnext' = n /\ UNCHANGED ipmsg
  <2>a. ipinq' = [i \in If |-> ipinq'[i]]
    BY <1>1, <1>2, <1>6, InqExcept DEF WInv, WakeTypes
  <2>b. /\ ip' = [at |-> ip'.at, b |-> ip'.b, i |-> ip'.i] /\ ip'.i \in 0 .. 2
        /\ ifnext' \in 0 .. 2
    BY <1>2, <1>6
  <2>1. WakeTypes'
    BY <1>3, <1>6, <2>a, <2>b DEF WInv, WakeTypes
  <2>2. WakeInv'
    BY <1>6 DEF WakeInv
  <2> QED BY <2>1, <2>2 DEF WInv
<1> QED BY <1>0, <1>1, <1>4, <1>5, <1>6 DEF getpScan, AfterRound

LEMMA WInvStep ==
    ASSUME WInv, [Next]_vars
    PROVE  WInv'
<1>1. CASE UNCHANGED <<ipVars, pc, load>>
  BY <1>1 DEF ipVars, WInv, WakeTypes, WakeInv, Heard
<1>2. CASE \E c \in load.arrive : ip_in(c)
  BY <1>2, IpInHeard
<1>3. ASSUME NEW p \in Procs, sending(p)
      PROVE  WInv'
  <2>0. pc[p] = Frame(pc[p].at, pc[p].b, pc[p].i)
    BY <1>3 DEF WInv, WakeTypes
  <2>1. CASE enqCheck(p)
    <3>1. pc' = [pc EXCEPT ![p] =
                    Frame(IF Full(ipinq[NI_LOCAL], NI_INQSZ) THEN "refused" ELSE "insert",
                          pc[p].b, pc[p].i)]
      <4> DEFINE at == IF Full(ipinq[NI_LOCAL], NI_INQSZ) THEN "refused" ELSE "insert"
      <4>1. pc' = [pc EXCEPT ![p] = [pc[p] EXCEPT !.b = pc[p].b, !.at = at]]
        BY <2>1 DEF enqCheck, EnqChecked
      <4>2. [pc[p] EXCEPT !.b = pc[p].b, !.at = at] = Frame(at, pc[p].b, pc[p].i)
        BY <2>0, FrameExcept
      <4> QED BY <4>1, <4>2
    <3>2. pc[p].at = "enq" /\ UNCHANGED ipVars /\ load' = load
      BY <2>1 DEF enqCheck
    <3> QED BY <3>1, <3>2, ProcessStep
  <2>2. CASE enqInsert(p)
    BY <2>2, EnqInsertHeard
  <2>3. CASE enqRefused(p)
    <3>1. pc' = [pc EXCEPT ![p] = Frame("wake", NoBuf, pc[p].i)]
      <4>1. pc' = [pc EXCEPT ![p] = [pc[p] EXCEPT !.at = "wake", !.b = NoBuf]]
        BY <2>3 DEF enqRefused
      <4>2. [pc[p] EXCEPT !.at = "wake", !.b = NoBuf] = Frame("wake", NoBuf, pc[p].i)
        BY <2>0, FrameExcept
      <4> QED BY <4>1, <4>2
    <3>2. UNCHANGED ipVars /\ load' = load
      BY <2>3 DEF enqRefused
    <3> QED BY <3>1, <3>2, ProcessStep
  <2>4. CASE wakeIpproc(p)
    BY <2>4, WakeHeard
  <2> QED BY <1>3, <2>1, <2>2, <2>3, <2>4 DEF sending
<1>4. CASE \E p \in load.senders : ipsend(p) \/ sending(p)
  <2>1. load.senders \subseteq Procs
    BY LoadFacts DEF WInv, WakeTypes
  <2>2. ASSUME NEW p \in Procs, ipsend(p)
        PROVE  WInv'
    <3>1. pc[p].at = "idle"
      BY <2>2 DEF ipsend, Idle, Frame
    <3>2. pc' = [pc EXCEPT ![p] = Frame("enq", NewBuf, 0)] /\ UNCHANGED ipVars /\ load' = load
      BY <2>2 DEF ipsend
    <3> QED BY <3>1, <3>2, ProcessStep
  <2> QED BY <1>3, <1>4, <2>1, <2>2
<1>5. CASE ipproc
  <2>1. IpProc \in Procs
    BY DEF Procs
  <2> QED BY <1>3, <1>5, <2>1, GetpHeard, ScanHeard, RouteHeard DEF ipproc
<1>6. CASE slowtimer
  <2>1. Timer \in Procs
    BY DEF Procs
  <2>2. CASE arptimerStep
    <3>1. PICK at, b, i : pc' = [pc EXCEPT ![Timer] = Frame(at, b, i)]
      BY <2>2 DEF arptimerStep, NextQueue, Idle
    <3>2. pc[Timer].at = "idle" /\ UNCHANGED ipVars /\ load' = load
      BY <2>2 DEF arptimerStep, Idle, Frame
    <3> QED BY <2>1, <3>1, <3>2, ProcessStep
  <2>3. CASE ipftimerStep
    <3>1. PICK at, b, i : pc' = [pc EXCEPT ![Timer] = Frame(at, b, i)]
      BY <2>3 DEF ipftimerStep, NextQueue, Idle
    <3>2. pc[Timer].at = "ipftimer" /\ UNCHANGED ipVars /\ load' = load
      BY <2>3 DEF ipftimerStep
    <3> QED BY <2>1, <3>1, <3>2, ProcessStep
  <2> QED BY <1>3, <1>6, <2>1, <2>2, <2>3 DEF slowtimer
<1> QED BY <1>1, <1>2, <1>4, <1>5, <1>6 DEF Next, vars, arpInterrupt

LEMMA WInvWakes == WInv => NoLostWakeup
<1> SUFFICES ASSUME WInv, ip.at = "receive", ipmsg = NoMsg
             PROVE  /\ ipinq[NI_PRIMARY] = <<>>
                    /\ ipinq[NI_LOCAL] # <<>> =>
                          \E p \in DOMAIN pc : pc[p].at \in {"wake", "refused"}
  BY DEF NoLostWakeup
<1>1. DOMAIN pc = Procs
  BY DEF WInv, WakeTypes
<1>2. Heard(NI_LOCAL) /\ Heard(NI_PRIMARY)
  BY DEF WInv, WakeInv, If
<1> QED BY <1>1, <1>2 DEF Heard, NI_LOCAL, NI_PRIMARY

(* The IP process never waits for a message while a packet is in an input    *)
(* queue, unless whoever put it there is about to send the message           *)
(* (ip_getp.c:19-31, ip_in.c:18-22, ip_send.c:36-40): with any number of     *)
(* senders, and also when two of them are in enq together.                   *)
THEOREM WakeupsKept == Spec => []NoLostWakeup
<1>1. Init => WInv
  BY WInvInit
<1>2. WInv /\ [Next]_vars => WInv'
  BY WInvStep
<1>3. WInv => NoLostWakeup
  BY WInvWakes
<1> QED BY <1>1, <1>2, <1>3, PTL DEF Spec
-----------------------------------------------------------------------------
(* Workloads that cannot race in enq: at most one process puts packets in    *)
(* the local queue.                                                          *)

HasKind(k) == \E c \in load.sent \union load.arrive : c.kind = k

(* The senders; the IP process, if there are echo requests; and the slow     *)
(* timer, if there are fragments that can expire.                            *)
Enqueues(p) ==
    \/ p \in load.senders
    \/ p = IpProc /\ HasKind("echo")
    \/ p = Timer /\ load.timers /\ HasKind("frag")

OneEnqueues == \A p, r \in Procs : Enqueues(p) /\ Enqueues(r) => p = r

KindInv == \A b \in Buf : pkt[b].kind = "data" \/ HasKind(pkt[b].kind)
QueueInv == HasKind("frag") \/ \A i \in Queue : ipfqt[i].q = <<>>
TimerInv == pc[Timer].at # "idle" => load.timers
EnqInv == \A p \in Procs : pc[p].at \in {"enq", "insert"} => Enqueues(p)

EInv == OneEnqueues /\ KindInv /\ QueueInv /\ TimerInv /\ EnqInv

LEMMA LoadStays == [Next]_vars => load' = load
BY DEF Next, vars, ip_in, arpInterrupt, sending, ipsend, enqCheck, enqInsert, enqRefused,
       wakeIpproc, ipproc, getpClear, getpScan, getpReceive, routePacket, slowtimer,
       arptimerStep, ipftimerStep

LEMMA SendingPackets ==
    ASSUME Types, NEW p \in Procs, sending(p), NEW b \in Buf
    PROVE  pkt'[b] = pkt[b] \/ pkt'[b] = Blank
BY DEF Types, sending, enqCheck, enqInsert, enqRefused, wakeIpproc, Forget

(* A packet is a new one, a blank one or a reply, or what it was. *)
LEMMA PacketSteps ==
    ASSUME Types, [Next]_vars, NEW b \in Buf
    PROVE  \/ pkt'[b] = pkt[b]
           \/ pkt'[b].kind = "data"
           \/ pkt'[b] \in load.sent \union load.arrive
<1> DEFINE Goal == \/ pkt'[b] = pkt[b]
                   \/ pkt'[b].kind = "data"
                   \/ pkt'[b] \in load.sent \union load.arrive
<1>0. /\ \A to : [Blank EXCEPT !.to = to].kind = "data"
      /\ Blank.kind = "data"
  BY DEF Blank
<1>1. CASE UNCHANGED vars
  BY <1>1 DEF vars
<1>2. CASE \E c \in load.arrive : ip_in(c)
  BY <1>2 DEF ip_in, Types
<1>3. CASE \E h \in load.arp, forUs \in BOOLEAN : arpInterrupt(h, forUs)
  BY <1>0, <1>3 DEF arpInterrupt, Forget
<1>4. CASE arpflush /\ UNCHANGED <<pkt, fragVars, ipVars, pc, load>>
  BY <1>4
<1>5. ASSUME NEW p \in Procs, sending(p) PROVE Goal
  BY <1>0, <1>5, SendingPackets
<1>6. CASE \E p \in load.senders : ipsend(p) \/ sending(p)
  <2>1. load.senders \subseteq Procs
    BY LoadFacts DEF Types
  <2> QED BY <1>5, <1>6, <2>1 DEF ipsend, Types
<1>7. CASE ipproc
  <2>1. IpProc \in Procs
    BY DEF Procs
  <2>2. CASE getpClear \/ getpScan \/ getpReceive
    BY <2>2 DEF getpClear, getpScan, getpReceive
  <2>3. CASE routePacket
    <3>1. CASE UNCHANGED pkt \/ Forget
      BY <1>0, <3>1 DEF Forget
    <3>2. CASE pkt' = [pkt EXCEPT ![ip.b] = [Blank EXCEPT !.to = pkt[ip.b].from]]
      <4>1. PICK c : c = [Blank EXCEPT !.to = pkt[ip.b].from]
        OBVIOUS
      <4>2. c.kind = "data" /\ pkt' = [pkt EXCEPT ![ip.b] = c]
        BY <1>0, <3>2, <4>1
      <4> QED BY <4>2 DEF Types
    <3> QED BY <2>3, <3>1, <3>2 DEF routePacket, discard, output, input
  <2> QED BY <1>5, <1>7, <2>1, <2>2, <2>3 DEF ipproc
<1>8. CASE slowtimer
  <2>1. Timer \in Procs
    BY DEF Procs
  <2>2. CASE arptimerStep
    BY <1>0, <2>2 DEF arptimerStep, Forget
  <2>3. CASE ipftimerStep
    <3>1. CASE Forget
      BY <1>0, <3>1 DEF Forget
    <3>2. ASSUME NEW e, pkt' = [c \in Buf |->
                      IF c = e THEN [Blank EXCEPT !.to = pkt[c].from]
                      ELSE IF c \in pool' THEN Blank ELSE pkt[c]]
          PROVE  Goal
      <4>1. PICK c : c = [Blank EXCEPT !.to = pkt[b].from]
        OBVIOUS
      <4>2. c.kind = "data"
        BY <1>0, <4>1
      <4>3. pkt'[b] = c \/ pkt'[b] = Blank \/ pkt'[b] = pkt[b]
        BY <3>2, <4>1
      <4> QED BY <1>0, <4>2, <4>3
    <3> QED BY <2>3, <3>1, <3>2 DEF ipftimerStep
  <2> QED BY <1>5, <1>8, <2>1, <2>2, <2>3 DEF slowtimer
<1> QED BY <1>1, <1>2, <1>3, <1>4, <1>6, <1>7, <1>8 DEF Next

(* What a process does next, and what makes it.                             *)
LEMMA PcSteps ==
    ASSUME Types, [Next]_vars, NEW p \in Procs
    PROVE  \/ pc'[p] = pc[p]
           \/ sending(p)
           \/ p \in load.senders /\ ipsend(p)
           \/ p = IpProc /\ ip.at = "route" /\ pkt[ip.b].kind = "echo"
           \/ p = Timer /\ (arptimerStep \/ ipftimerStep)
<1> DEFINE Goal == \/ pc'[p] = pc[p]
                   \/ sending(p)
                   \/ p \in load.senders /\ ipsend(p)
                   \/ p = IpProc /\ ip.at = "route" /\ pkt[ip.b].kind = "echo"
                   \/ p = Timer /\ (arptimerStep \/ ipftimerStep)
<1>1. CASE UNCHANGED pc
  BY <1>1
<1>2. ASSUME NEW r \in Procs, sending(r) PROVE Goal
  <2>1. r # p => pc'[p] = pc[p]
    BY <1>2 DEF Types, sending, enqCheck, EnqChecked, enqInsert, enqRefused, wakeIpproc
  <2> QED BY <1>2, <2>1
<1>3. CASE \E r \in load.senders : ipsend(r) \/ sending(r)
  <2>1. load.senders \subseteq Procs
    BY LoadFacts DEF Types
  <2>2. \A r \in load.senders : ipsend(r) /\ r # p => pc'[p] = pc[p]
    BY DEF ipsend, Types
  <2> QED BY <1>2, <1>3, <2>1, <2>2
<1>4. CASE ipproc
  <2>1. IpProc \in Procs
    BY DEF Procs
  <2>2. CASE routePacket
    BY <1>1, <2>2 DEF routePacket, discard, output, input, Types
  <2> QED BY <1>1, <1>2, <1>4, <2>1, <2>2 DEF ipproc, getpClear, getpScan, getpReceive
<1>5. CASE slowtimer
  <2>1. Timer \in Procs
    BY DEF Procs
  <2>2. CASE arptimerStep \/ ipftimerStep
    BY <2>2, <2>1 DEF arptimerStep, ipftimerStep, Types
  <2> QED BY <1>2, <1>5, <2>1, <2>2 DEF slowtimer
<1> QED BY <1>1, <1>3, <1>4, <1>5 DEF Next, vars, ip_in, arpInterrupt

LEMMA KindKeeps ==
    ASSUME Types, KindInv, [Next]_vars
    PROVE  KindInv'
<1> SUFFICES ASSUME NEW b \in Buf PROVE (pkt[b].kind = "data" \/ HasKind(pkt[b].kind))'
  BY DEF KindInv
<1>1. load' = load
  BY LoadStays
<1> QED BY <1>1, PacketSteps DEF KindInv, HasKind

(* Only a fragment opens or lengthens a reassembly queue. *)
LEMMA QueueKeeps ==
    ASSUME IInv, KindInv, QueueInv, [Next]_vars
    PROVE  QueueInv'
<1>1. load' = load
  BY LoadStays
<1>2. CASE HasKind("frag")
  BY <1>1, <1>2 DEF QueueInv, HasKind
<1>3. CASE ~ HasKind("frag")
  <2>1. \A i \in Queue : ipfqt[i].q = <<>>
    BY <1>3 DEF QueueInv
  <2>2. CASE UNCHANGED ipfqt
    BY <2>1, <2>2 DEF QueueInv
  <2>3. CASE ipftimerStep
    <3>1. PICK j : ipftimer(j)
      BY <2>3 DEF ipftimerStep
    <3>2. ipfqt \in [Queue -> FragQueue]
      BY DEF IInv, Types
    <3>3. CASE ipfqt' = [ipfqt EXCEPT ![j] = FreeQueue]
      <4>1. FreeQueue.q = <<>>
        BY DEF FreeQueue
      <4> QED BY <2>1, <3>2, <3>3, <4>1 DEF QueueInv
    <3>4. CASE ipfqt' = [ipfqt EXCEPT ![j].ttl = @ - 1]
      <4>1. \A i \in Queue : ipfqt'[i].q = ipfqt[i].q
        BY <3>2, <3>4 DEF FragQueue
      <4> QED BY <2>1, <4>1 DEF QueueInv
    <3> QED BY <3>1, <3>3, <3>4 DEF ipftimer
  <2>4. CASE routePacket
    <3>1. ip.b \in Buf
      BY <2>4 DEF IInv, Types, ProcInv, routePacket
    <3>2. pkt[ip.b].kind # "frag"
      BY <1>3, <3>1 DEF KindInv
    <3> QED BY <2>2, <2>4, <3>2 DEF routePacket, discard, output, input, fragVars
  <2> QED BY <2>2, <2>3, <2>4
          DEF Next, vars, fragVars, ip_in, arpInterrupt, sending, ipsend, enqCheck, enqInsert,
              enqRefused, wakeIpproc, ipproc, getpClear, getpScan, getpReceive, slowtimer,
              arptimerStep
<1> QED BY <1>2, <1>3

LEMMA TimerKeeps ==
    ASSUME IInv, TimerInv, [Next]_vars
    PROVE  TimerInv'
<1>1. load' = load
  BY LoadStays
<1>2. Timer \in Procs /\ Timer # IpProc /\ Timer \notin load.senders
  BY LoadFacts DEF IInv, Types, Procs, Timer, IpProc
<1>3. CASE load.timers
  BY <1>1, <1>3 DEF TimerInv
<1>4. CASE ~ load.timers
  <2>1. pc[Timer].at = "idle"
    BY <1>4 DEF TimerInv
  <2>2. ~ sending(Timer)
    BY <2>1 DEF sending, enqCheck, enqInsert, enqRefused, wakeIpproc
  <2>3. ~ arptimerStep /\ ~ ipftimerStep
    BY <1>4, <2>1 DEF arptimerStep, ipftimerStep
  <2>4. pc'[Timer] = pc[Timer]
    BY <1>2, <2>2, <2>3, PcSteps DEF IInv
  <2> QED BY <2>1, <2>4 DEF TimerInv
<1> QED BY <1>3, <1>4

LEMMA EnqKeeps ==
    ASSUME IInv, EInv, [Next]_vars
    PROVE  EnqInv'
<1>1. load' = load
  BY LoadStays
<1>2. SUFFICES ASSUME NEW p \in Procs, pc'[p].at \in {"enq", "insert"}
               PROVE  Enqueues(p)
  BY <1>1 DEF EnqInv, Enqueues, HasKind
<1>3. pc \in [Procs -> [at : Holding \union {"idle", "wake", "ipftimer"},
                        b : Buf \union {NoBuf}, i : Nat]]
  BY DEF IInv, Types
<1>4. CASE pc[p].at \in {"enq", "insert"}
  BY <1>4 DEF EInv, EnqInv
<1>5. ASSUME sending(p) PROVE pc[p].at \in {"enq", "insert"}
  <2>1. CASE enqRefused(p)
    <3>1. pc'[p].at = "wake"
      BY <2>1, <1>3 DEF enqRefused
    <3> QED BY <3>1, <1>2
  <2>2. CASE wakeIpproc(p)
    <3>1. pc'[p].at \in {"idle", "ipftimer"}
      BY <2>2, <1>3 DEF wakeIpproc, NextQueue, Idle, Frame
    <3> QED BY <3>1, <1>2
  <2> QED BY <1>5, <2>1, <2>2 DEF sending, enqCheck, enqInsert
<1>6. CASE p = IpProc /\ ip.at = "route" /\ pkt[ip.b].kind = "echo"
  <2>1. ip.b \in Buf
    BY <1>6 DEF IInv, Types, ProcInv
  <2>2. HasKind("echo")
    BY <1>6, <2>1 DEF EInv, KindInv
  <2> QED BY <1>6, <2>2 DEF Enqueues
<1>7. CASE p = Timer /\ arptimerStep
  <2>1. pc'[p].at \in {"idle", "ipftimer"}
    BY <1>7, <1>3 DEF arptimerStep, NextQueue, Idle, Frame
  <2> QED BY <2>1, <1>2
<1>8. CASE p = Timer /\ ipftimerStep
  <2>1. PICK i : i = pc[Timer].i
    OBVIOUS
  <2>2. pc[Timer].at = "ipftimer" /\ i \in Queue
    BY <1>8, <2>1 DEF ipftimerStep, IInv, ProcInv
  <2>3. CASE Expired(i) = <<>>
    <3>1. pc'[p].at \in {"idle", "ipftimer"}
      BY <1>8, <1>3, <2>1, <2>3 DEF ipftimerStep, NextQueue, Idle, Frame
    <3> QED BY <3>1, <1>2
  <2>4. CASE Expired(i) # <<>>
    <3>1. ipfqt[i].q # <<>>
      BY <2>4 DEF Expired
    <3>2. HasKind("frag") /\ load.timers
      BY <2>2, <3>1 DEF EInv, QueueInv, TimerInv
    <3> QED BY <1>8, <3>2 DEF Enqueues
  <2> QED BY <2>3, <2>4
<1>9. Types
  BY DEF IInv
<1> QED BY <1>2, <1>4, <1>5, <1>6, <1>7, <1>8, <1>9, PcSteps DEF Enqueues

LEMMA EInvInit == Init /\ OneEnqueues => EInv
<1> SUFFICES ASSUME Init, OneEnqueues PROVE EInv
  OBVIOUS
<1>1. \A b \in Buf : pkt[b].kind = "data"
  BY BlankIsPacket DEF Init
<1>2. \A i \in Queue : ipfqt[i].q = <<>>
  BY DEF Init, FragInit, FreeQueue
<1>3. \A p \in Procs : pc[p].at = "idle"
  BY DEF Init, Procs, Idle, Frame
<1>4. Timer \in Procs
  BY DEF Procs
<1> QED BY <1>1, <1>2, <1>3, <1>4 DEF EInv, KindInv, QueueInv, TimerInv, EnqInv

LEMMA AloneByLoad == EInv => AloneInEnq
BY DEF EInv, OneEnqueues, EnqInv, AloneInEnq

LEMMA EInvStep ==
    ASSUME IInv, EInv, [Next]_vars
    PROVE  IInv' /\ EInv'
<1>1. IInv'
  BY AloneByLoad, StepKeeps
<1>2. load' = load
  BY LoadStays
<1>3. OneEnqueues'
  BY <1>2 DEF EInv, OneEnqueues, Enqueues, HasKind
<1>4. KindInv' /\ QueueInv' /\ TimerInv'
  BY KindKeeps, QueueKeeps, TimerKeeps DEF EInv, IInv
<1> QED BY <1>1, <1>3, <1>4, EnqKeeps DEF EInv

(* Every packet buffer is in exactly one place under every workload in which *)
(* one process at most puts packets in the local queue: one sender alone, or *)
(* no sender and either echo requests or fragments that expire, with any     *)
(* other traffic.                                                            *)
THEOREM PacketsKeptAlone == Spec /\ OneEnqueues => []PacketInOnePlace
<1>1. Init /\ OneEnqueues => IInv /\ EInv
  BY InitHolds, EInvInit
<1>2. IInv /\ EInv /\ [Next]_vars => IInv' /\ EInv'
  BY EInvStep
<1>3. IInv => PacketInOnePlace
  BY InvPlaces
<1> QED BY <1>1, <1>2, <1>3, PTL DEF Spec
-----------------------------------------------------------------------------
(* Reassembly.  What is copied into the datagram is described by how far it   *)
(* reaches and by what is in it: unit u holds u - 1.                          *)

(* What holds of 0 and of the number after each of which it holds, holds of   *)
(* every number: T is the set of those of which it holds.                     *)
LEMMA EveryNumber ==
    ASSUME NEW T, 0 \in T, \A k \in Nat : k \in T => k + 1 \in T
    PROVE  \A k \in Nat : k \in T
<1> DEFINE Out == {k \in Nat : k \notin T}
<1>1. ASSUME Out # {} PROVE FALSE
  <2>1. PICK k \in Out : \A j \in Out : k <= j
    BY <1>1, LeastNumber
  <2>2. k # 0 /\ k \in Nat
    BY <2>1
  <2>3. k - 1 \in Nat /\ k - 1 \notin Out
    BY <2>1, <2>2
  <2>4. k - 1 \in T /\ (k - 1) + 1 = k
    BY <2>2, <2>3
  <2> QED BY <2>1, <2>3, <2>4
<1> QED BY <1>1

(* The turn of ipfcons for fragment i, after what it has copied before. *)
After(q, i) == IF i = 1 THEN 0 ELSE End(q[i - 1])
Longer(q, i, old) ==
    LET dlen == pkt[q[i]].len - Doff(q[i], After(q, i))
    IN [u \in 1 .. Max({After(q, i) + dlen, Len(old)}) |->
           IF u > After(q, i) /\ u <= After(q, i) + dlen
             THEN Unit(q[i], Doff(q[i], After(q, i)) + u - 1 - After(q, i))
             ELSE old[u]]
Copies(q, k, copied) ==
    copied = [i \in 0 .. k |-> IF i = 0 THEN <<>> ELSE Longer(q, i, copied[i - 1])]

LEMMA CopiesExist ==
    ASSUME NEW q \in Seq(Buf)
    PROVE  \E copied : /\ Copies(q, Len(q), copied)
                       /\ Assembled(q) = SubSeq(copied[Len(q)], 1, End(Last(q)))
<1> DEFINE T == {k \in Nat : \E copied : Copies(q, k, copied)}
<1>1. 0 \in T
  <2>1. Copies(q, 0, [i \in 0 .. 0 |-> <<>>])
    BY DEF Copies
  <2> QED BY <2>1
<1>2. ASSUME NEW k \in Nat, k \in T PROVE k + 1 \in T
  <2>1. PICK copied : Copies(q, k, copied)
    BY <1>2
  <2> DEFINE next == [i \in 0 .. k + 1 |->
                        IF i <= k THEN copied[i] ELSE Longer(q, k + 1, copied[k])]
  <2>2. \A i \in 0 .. k + 1 : next[i] = IF i = 0 THEN <<>> ELSE Longer(q, i, next[i - 1])
    <3> SUFFICES ASSUME NEW i \in 0 .. k + 1
                 PROVE  next[i] = IF i = 0 THEN <<>> ELSE Longer(q, i, next[i - 1])
      OBVIOUS
    <3>1. CASE i = k + 1
      <4>1. next[k] = copied[k] /\ i - 1 = k /\ i # 0 /\ ~ (i <= k)
        BY <3>1
      <4> QED BY <3>1, <4>1
    <3>2. CASE i \in 0 .. k
      <4>1. copied[i] = IF i = 0 THEN <<>> ELSE Longer(q, i, copied[i - 1])
        BY <2>1, <3>2 DEF Copies
      <4>2. i # 0 => next[i - 1] = copied[i - 1]
        BY <3>2
      <4> QED BY <3>2, <4>1, <4>2
    <3> QED BY <3>1, <3>2
  <2>3. Copies(q, k + 1, next)
    BY <2>2 DEF Copies
  <2> HIDE DEF next
  <2>4. \E f : Copies(q, k + 1, f)
    BY <2>3
  <2> QED BY <2>4
<1> HIDE DEF T
<1>3. Len(q) \in T
  BY <1>1, <1>2, EveryNumber, LenProperties
<1>4. \E copied : Copies(q, Len(q), copied)
  BY <1>3 DEF T
<1> DEFINE copied == CHOOSE copied : Copies(q, Len(q), copied)
<1>5. Copies(q, Len(q), copied)
  BY <1>4
<1>6. Assembled(q) = SubSeq(copied[Len(q)], 1, End(Last(q)))
  BY DEF Assembled, Copies, Longer, After
<1> QED BY <1>5, <1>6

LEMMA LargerOf ==
    ASSUME NEW m \in Nat, NEW n \in Nat
    PROVE  /\ Max({m, n}) = IF m >= n THEN m ELSE n
           /\ Max({m, n}) \in Nat
<1> DEFINE larger == IF m >= n THEN m ELSE n
<1>1. larger \in {m, n} /\ \A k \in {m, n} : larger >= k
  OBVIOUS
<1>2. \A x \in {m, n} : (\A k \in {m, n} : x >= k) => x = larger
  OBVIOUS
<1>3. Max({m, n}) \in {m, n} /\ \A k \in {m, n} : Max({m, n}) >= k
  BY <1>1 DEF Max
<1> QED BY <1>1, <1>2, <1>3

(* Where there is no hole, all that is copied is in its place. *)
Reaches(s, n) == n \in Nat /\ s = [u \in 1 .. n |-> u - 1]

LEMMA LongerReaches ==
    ASSUME Types, NEW q \in Seq(Buf), ~ Hole(q), NEW i \in 1 .. Len(q), NEW old, NEW n,
           Reaches(old, n), After(q, i) <= n
    PROVE  \E m : Reaches(Longer(q, i, old), m) /\ m >= End(q[i])
<1>1. /\ pkt[q[i]].off \in Nat /\ pkt[q[i]].len \in Nat
      /\ i # 1 => pkt[q[i - 1]].off \in Nat /\ pkt[q[i - 1]].len \in Nat
  <2>1. q[i] \in Buf /\ (i # 1 => q[i - 1] \in Buf)
    OBVIOUS
  <2> QED BY <2>1 DEF Types, Packet
<1>2. PICK off \in Nat : off = pkt[q[i]].off
  BY <1>1
<1>3. PICK len \in Nat : len = pkt[q[i]].len
  BY <1>1
<1>4. PICK from \in Nat : from = After(q, i)
  BY <1>1 DEF After, End
<1>5. off <= from
  <2>1. ~ (off > from)
    BY <1>2, <1>4 DEF Hole, After
  <2> QED BY <2>1
<1>6. n \in Nat /\ from <= n /\ Len(old) = n
  <2>1. n \in Nat /\ old = [u \in 1 .. n |-> u - 1]
    BY DEF Reaches
  <2>2. Len(old) = n
    BY <2>1
  <2> QED BY <1>4, <2>1, <2>2
<1>7. End(q[i]) = off + len
  BY <1>2, <1>3 DEF End
<1>8. Longer(q, i, old) = [u \in 1 .. Max({from + (len - (from - off)), n}) |->
           IF u > from /\ u <= from + (len - (from - off))
             THEN off + ((from - off) + u - 1 - from)
             ELSE old[u]]
  BY <1>2, <1>3, <1>4, <1>6 DEF Longer, Doff, Unit
<1>9. from + (len - (from - off)) = off + len
  OBVIOUS
<1>10. PICK m \in Nat : m = Max({off + len, n}) /\ m = IF off + len >= n THEN off + len ELSE n
  <2>1. off + len \in Nat
    OBVIOUS
  <2> QED BY <1>6, <2>1, LargerOf
<1>11. Longer(q, i, old) = [u \in 1 .. m |->
           IF u > from /\ u <= off + len THEN off + ((from - off) + u - 1 - from) ELSE old[u]]
  BY <1>8, <1>9, <1>10
<1>12. ASSUME NEW u \in 1 .. m
       PROVE  (IF u > from /\ u <= off + len THEN off + ((from - off) + u - 1 - from) ELSE old[u])
                 = u - 1
  <2>1. CASE u > from /\ u <= off + len
    BY <2>1
  <2>2. CASE ~ (u > from /\ u <= off + len)
    <3>1. u \in 1 .. n
      BY <1>6, <1>10, <2>2
    <3>2. old[u] = u - 1
      BY <3>1 DEF Reaches
    <3> QED BY <2>2, <3>2
  <2> QED BY <2>1, <2>2
<1>13. Longer(q, i, old) = [u \in 1 .. m |-> u - 1]
  BY <1>11, <1>12
<1>14. m >= off + len
  BY <1>6, <1>10
<1> QED BY <1>7, <1>13, <1>14 DEF Reaches

LEMMA AssembledExact ==
    ASSUME Types, NEW q \in Seq(Buf), Len(q) > 0, ~ Hole(q)
    PROVE  Assembled(q) = [u \in 1 .. End(Last(q)) |-> u - 1]
<1>1. PICK copied : /\ Copies(q, Len(q), copied)
                    /\ Assembled(q) = SubSeq(copied[Len(q)], 1, End(Last(q)))
  BY CopiesExist
<1>2. Len(q) \in Nat
  BY LenProperties
<1>3. \A i \in 0 .. Len(q) : copied[i] = IF i = 0 THEN <<>> ELSE Longer(q, i, copied[i - 1])
  BY <1>1 DEF Copies
<1> DEFINE T == {k \in Nat : k <= Len(q) =>
                    \E m : Reaches(copied[k], m) /\ (k # 0 => m >= End(q[k]))}
<1>4. 0 \in T
  <2>1. copied[0] = <<>>
    BY <1>2, <1>3
  <2>2. Reaches(<<>>, 0)
    BY DEF Reaches
  <2>3. Reaches(copied[0], 0) /\ 0 \in Nat
    BY <2>1, <2>2
  <2> QED BY <2>3
<1>5. ASSUME NEW k \in Nat, k \in T PROVE k + 1 \in T
  <2> SUFFICES ASSUME k + 1 <= Len(q)
               PROVE  \E m : Reaches(copied[k + 1], m) /\ m >= End(q[k + 1])
    OBVIOUS
  <2>1. k + 1 \in 1 .. Len(q) /\ k + 1 \in 0 .. Len(q) /\ k + 1 # 0 /\ (k + 1) - 1 = k
    BY <1>2
  <2>2. PICK n : Reaches(copied[k], n) /\ (k # 0 => n >= End(q[k]))
    BY <1>2, <1>5
  <2>3. After(q, k + 1) <= n
    <3>1. n \in Nat
      BY <2>2 DEF Reaches
    <3>2. CASE k = 0
      BY <3>1, <3>2 DEF After
    <3>3. CASE k # 0
      <4>1. After(q, k + 1) = End(q[k]) /\ k \in 1 .. Len(q)
        BY <2>1, <3>3, <1>2 DEF After
      <4>2. End(q[k]) \in Nat
        <5>1. q[k] \in Buf
          BY <4>1
        <5>2. pkt[q[k]].off \in Nat /\ pkt[q[k]].len \in Nat
          BY <5>1 DEF Types, Packet
        <5> QED BY <5>2 DEF End
      <4> QED BY <2>2, <3>1, <3>3, <4>1, <4>2
    <3> QED BY <3>2, <3>3
  <2>4. \E m : Reaches(Longer(q, k + 1, copied[k]), m) /\ m >= End(q[k + 1])
    BY <2>1, <2>2, <2>3, LongerReaches
  <2>5. copied[k + 1] = Longer(q, k + 1, copied[k])
    BY <1>3, <2>1
  <2> QED BY <2>4, <2>5
<1>6. Len(q) \in T
  <2> HIDE DEF T
  <2> QED BY <1>2, <1>4, <1>5, EveryNumber
<1>7. PICK m : Reaches(copied[Len(q)], m) /\ m >= End(q[Len(q)])
  BY <1>2, <1>6
<1>8. Last(q) = q[Len(q)] /\ q[Len(q)] \in Buf
  BY <1>2 DEF Last
<1>9. PICK n \in Nat : n = End(Last(q))
  BY <1>8 DEF End, Types, Packet
<1>10. m \in Nat /\ n <= m /\ copied[Len(q)] = [u \in 1 .. m |-> u - 1]
  BY <1>7, <1>8, <1>9 DEF Reaches
<1>11. Assembled(q) = SubSeq([u \in 1 .. m |-> u - 1], 1, n)
  BY <1>1, <1>9, <1>10
<1>12. SubSeq([u \in 1 .. m |-> u - 1], 1, n) = [u \in 1 .. n |-> u - 1]
  <2> DEFINE s == [u \in 1 .. m |-> u - 1]
  <2>1. s \in Seq(Int) /\ Len(s) = m /\ \A u \in 1 .. m : s[u] = u - 1
    BY <1>10
  <2> HIDE DEF s
  <2>2. /\ SubSeq(s, 1, n) \in Seq(Int) /\ Len(SubSeq(s, 1, n)) = n
        /\ \A u \in 1 .. n : SubSeq(s, 1, n)[u] = s[u]
    <3>1. SubSeq(s, 1, n) = [u \in 1 .. n |-> s[u]]
      BY <2>1, <1>10
    <3>2. \A u \in 1 .. n : s[u] \in Int
      BY <2>1, <1>10
    <3> QED BY <3>1, <3>2
  <2>3. DOMAIN SubSeq(s, 1, n) = 1 .. n
    BY <2>2
  <2>4. SubSeq(s, 1, n) = [u \in 1 .. n |-> SubSeq(s, 1, n)[u]]
    BY <2>2, <2>3
  <2>5. \A u \in 1 .. n : SubSeq(s, 1, n)[u] = u - 1
    BY <2>1, <2>2, <1>10
  <2>6. SubSeq(s, 1, n) = [u \in 1 .. n |-> u - 1]
    BY <2>4, <2>5
  <2> QED BY <2>6 DEF s
<1> QED BY <1>9, <1>11, <1>12

-----------------------------------------------------------------------------
(* What arrives are fragments of datagrams: one without the more-fragments    *)
(* flag ends where its datagram does.                                         *)
Ends(c) == c.kind = "frag" /\ ~ c.mf =>
               c.id \in Datagrams /\ c.off + c.len = Length[c.id]
Genuine == \A l \in Workloads : \A c \in l.arrive \union l.sent : Ends(c)

(* The fragments of a queue belong to its datagram. *)
Member(b, i) == pkt[b].kind = "frag" /\ pkt[b].id = ipfqt[i].id
EndInv == \A b \in Buf : Ends(pkt[b])
MemberInv == \A i \in Queue : \A b \in ToSet(ipfqt[i].q) : Member(b, i)

LEMMA EndKeeps ==
    ASSUME Genuine, Types, EndInv, [Next]_vars
    PROVE  EndInv'
<1> SUFFICES ASSUME NEW b \in Buf PROVE Ends(pkt'[b])
  BY DEF EndInv, Ends
<1>1. CASE pkt'[b] = pkt[b]
  BY <1>1 DEF EndInv, Ends
<1>2. CASE pkt'[b].kind = "data"
  BY <1>2 DEF Ends
<1>3. CASE pkt'[b] \in load.sent \union load.arrive
  BY <1>3 DEF Genuine, Types
<1> QED BY <1>1, <1>2, <1>3, PacketSteps

(* A step does not change a fragment that is in a queue before and after it. *)
LEMMA FragmentStays ==
    ASSUME IInv, IInv', [Next]_vars, NEW b \in Buf, ~ NotFrag(b), ~ NotFrag(b)'
    PROVE  pkt'[b] = pkt[b]
<1>1. Types /\ Apart(b) /\ Apart(b)'
  BY DEF IInv, PlaceInv
<1>2. b \notin pool /\ b \notin pool' /\ ip.b # b /\ NotHeld(b)'
  BY <1>1 DEF Apart, NotFrag
<1>3. CASE UNCHANGED pkt \/ Forget
  BY <1>2, <1>3 DEF Forget
<1>4. CASE \E c \in load.arrive : ip_in(c)
  <2>1. PICK c \in load.arrive : ip_in(c)
    BY <1>4
  <2>2. NewBuf # b
    BY <2>1, <1>2, NewBufFree DEF ip_in
  <2> QED BY <2>1, <2>2, <1>1 DEF ip_in, Types
<1>5. ASSUME NEW p, ipsend(p) PROVE pkt'[b] = pkt[b]
  <2>1. NewBuf # b
    BY <1>5, <1>2, NewBufFree DEF ipsend
  <2> QED BY <1>5, <2>1, <1>1 DEF ipsend, Types
<1>6. ASSUME NEW p, sending(p) PROVE pkt'[b] = pkt[b]
  BY <1>3, <1>6 DEF sending, enqCheck, enqInsert, enqRefused, wakeIpproc
<1>7. CASE routePacket
  <2>1. CASE pkt' = [pkt EXCEPT ![ip.b] = [Blank EXCEPT !.to = pkt[ip.b].from]]
    BY <2>1, <1>1, <1>2 DEF Types
  <2> QED BY <1>3, <1>7, <2>1 DEF routePacket, discard, output, input
<1>8. CASE ipftimerStep
  <2>1. PICK i : i = pc[Timer].i
    OBVIOUS
  <2>2. CASE /\ pc' = [pc EXCEPT ![Timer] = Frame("enq", Expired(i)[1], i)]
             /\ pkt' = [c \in Buf |->
                    IF c = Expired(i)[1] THEN [Blank EXCEPT !.to = pkt[c].from]
                    ELSE IF c \in pool' THEN Blank ELSE pkt[c]]
    <3>1. Timer \in Procs
      BY DEF Procs
    <3>2. pc'[Timer].b = Expired(i)[1]
      BY <2>2, <3>1, <1>1 DEF Types, Frame
    <3>3. b # Expired(i)[1]
      BY <3>1, <3>2, <1>2 DEF NotHeld
    <3> QED BY <2>2, <3>3, <1>2
  <2> QED BY <1>3, <1>8, <2>1, <2>2 DEF ipftimerStep
<1>9. CASE UNCHANGED vars
  BY <1>9 DEF vars
<1>10. CASE ipproc
  BY <1>3, <1>6, <1>7, <1>10 DEF ipproc, getpClear, getpScan, getpReceive
<1>11. CASE slowtimer
  BY <1>3, <1>6, <1>8, <1>11 DEF slowtimer, arptimerStep
<1> QED BY <1>3, <1>4, <1>5, <1>6, <1>9, <1>10, <1>11 DEF Next, arpInterrupt

(* What addTo makes of a queue and of joined. *)
LEMMA AddFacts ==
    ASSUME IInv, EndInv, MemberInv, NEW b \in Buf, NotFrag(b), pkt[b].kind = "frag",
           NEW i \in Queue, ipfqt[i].state # "IPFF_FREE", ipfqt[i].id = pkt[b].id, addTo(i, b)
    PROVE  /\ \A j \in Queue : j # i => ipfqt'[j] = ipfqt[j]
           /\ \/ ipfqt'[i] = ipfqt[i]
              \/ ipfqt'[i].q = <<>>
              \/ /\ ipfqt'[i].id = pkt[b].id
                 /\ ToSet(ipfqt'[i].q) = ToSet(ipfqt[i].q) \union {b}
           /\ \/ joined' = joined
              \/ joined'.data = Original(joined'.id)
<1>1. Types /\ FragInv
  BY DEF IInv
<1>2. PICK u \in FragQueue : u = ipfqt[i]
  BY <1>1 DEF Types
<1>3. u.q \in Seq(Buf) /\ NoDup(u.q) /\ b \notin ToSet(u.q) /\ Len(u.q) \in Nat
  BY <1>1, <1>2, InSeq DEF FragQueue, FragInv, NotFrag
<1>4. SortKey \in [Buf -> Int]
  BY <1>1 DEF SortKey, Types, Packet
<1>5. PICK q \in Seq(Buf) : /\ q = Inserted(u.q, b, SortKey)
                            /\ Len(q) = Len(u.q) + 1
                            /\ ToSet(q) = ToSet(u.q) \union {b}
  BY <1>3, <1>4, InsertedQueue
<1>6. \/ UNCHANGED fragVars
      \/ ipfqt' = [ipfqt EXCEPT ![i] = Overflowed(u)] /\ UNCHANGED joined
      \/ ipfqt' = [ipfqt EXCEPT ![i] = FreeQueue] /\ UNCHANGED joined
      \/ /\ ~ Hole(q) /\ ~ pkt[Last(q)].mf
         /\ ipfqt' = [ipfqt EXCEPT ![i] = FreeQueue]
         /\ joined' = [id |-> pkt[b].id, data |-> Assembled(q)]
      \/ ipfqt' = [ipfqt EXCEPT ![i] = [u EXCEPT !.q = q, !.ttl = IP_FTTL]] /\ UNCHANGED joined
  BY <1>2, <1>5, ZenonT(30) DEF addTo
<1>7. Overflowed(u).q = <<>> /\ FreeQueue.q = <<>>
  BY DEF Overflowed, FreeQueue, FragQueue
<1>8. ASSUME NEW w, ipfqt' = [ipfqt EXCEPT ![i] = w]
      PROVE  ipfqt'[i] = w /\ \A j \in Queue : j # i => ipfqt'[j] = ipfqt[j]
  BY <1>1, <1>8 DEF Types
<1>9. CASE UNCHANGED fragVars
  BY <1>9 DEF fragVars
<1>10. CASE ipfqt' = [ipfqt EXCEPT ![i] = Overflowed(u)] /\ UNCHANGED joined
  BY <1>7, <1>8, <1>10
<1>11. CASE ipfqt' = [ipfqt EXCEPT ![i] = FreeQueue] /\ UNCHANGED joined
  BY <1>7, <1>8, <1>11
<1>12. CASE ipfqt' = [ipfqt EXCEPT ![i] = [u EXCEPT !.q = q, !.ttl = IP_FTTL]] /\ UNCHANGED joined
  <2>1. PICK w : w = [u EXCEPT !.q = q, !.ttl = IP_FTTL]
    OBVIOUS
  <2>2. w.q = q /\ w.id = u.id
    BY <2>1 DEF FragQueue
  <2>3. ipfqt'[i] = w /\ \A j \in Queue : j # i => ipfqt'[j] = ipfqt[j]
    BY <1>8, <1>12, <2>1
  <2> QED BY <1>2, <1>5, <1>12, <2>2, <2>3
<1>13. CASE /\ ~ Hole(q) /\ ~ pkt[Last(q)].mf
            /\ ipfqt' = [ipfqt EXCEPT ![i] = FreeQueue]
            /\ joined' = [id |-> pkt[b].id, data |-> Assembled(q)]
  <2>1. Assembled(q) = [k \in 1 .. End(Last(q)) |-> k - 1]
    <3>1. Len(q) > 0
      BY <1>3, <1>5
    <3> QED BY <1>1, <1>13, <3>1, AssembledExact
  <2>2. Last(q) \in ToSet(q)
    <3>1. Len(q) \in 1 .. Len(q) /\ Last(q) = q[Len(q)]
      BY <1>3, <1>5 DEF Last
    <3> QED BY <3>1, InSeq
  <2>3. Last(q) \in Buf /\ pkt[Last(q)].kind = "frag" /\ pkt[Last(q)].id = pkt[b].id
    <3>1. Last(q) = b \/ Last(q) \in ToSet(ipfqt[i].q)
      BY <1>2, <1>5, <2>2
    <3>2. Last(q) \in Buf
      BY <1>5, <2>2, InSeq
    <3> QED BY <3>1, <3>2 DEF MemberInv, Member
  <2>4. End(Last(q)) = Length[pkt[b].id]
    BY <1>13, <2>3 DEF EndInv, Ends, End
  <2>5. Assembled(q) = Original(pkt[b].id)
    BY <2>1, <2>4 DEF Original
  <2> QED BY <1>7, <1>8, <1>13, <2>5
<1> QED BY <1>6, <1>9, <1>10, <1>11, <1>12, <1>13

(* The fragment b joins a queue, opens one, or is dropped. *)
LEMMA ReassFacts ==
    ASSUME IInv, EndInv, MemberInv, NEW b \in Buf, NotFrag(b), pkt[b].kind = "frag", ipreass(b)
    PROVE  /\ \A i \in Queue :
                 \/ ipfqt'[i] = ipfqt[i]
                 \/ ipfqt'[i].q = <<>>
                 \/ /\ ipfqt'[i].id = pkt[b].id
                    /\ ToSet(ipfqt'[i].q) = {b}
                 \/ /\ ipfqt'[i].id = pkt[b].id /\ ipfqt[i].id = pkt[b].id
                    /\ ToSet(ipfqt'[i].q) = ToSet(ipfqt[i].q) \union {b}
           /\ joined' = joined \/ joined'.data = Original(joined'.id)
<1> DEFINE match == {i \in Queue : ipfqt[i].state # "IPFF_FREE" /\ ipfqt[i].id = pkt[b].id}
           unused == {i \in Queue : ipfqt[i].state = "IPFF_FREE"}
<1>1. /\ match # {} => Min(match) \in match
      /\ unused # {} => Min(unused) \in unused
  <2>1. match \in SUBSET Nat /\ unused \in SUBSET Nat
    BY FragAssumption DEF Queue
  <2> QED BY <2>1, MinElement
<1>2. CASE match # {} /\ addTo(Min(match), b)
  <2>1. PICK i \in Queue : /\ ipfqt[i].state # "IPFF_FREE" /\ ipfqt[i].id = pkt[b].id
                           /\ addTo(i, b)
    BY <1>1, <1>2
  <2> QED BY <2>1, AddFacts
<1>3. CASE \E i \in Queue :
              /\ ipfqt' = [ipfqt EXCEPT ![i] =
                     [state |-> "IPFF_VALID", id |-> pkt[b].id, ttl |-> IP_FTTL, q |-> <<b>>]]
              /\ UNCHANGED joined
  <2>0. PICK w :
              /\ w = [state |-> "IPFF_VALID", id |-> pkt[b].id, ttl |-> IP_FTTL, q |-> <<b>>]
              /\ \E i \in Queue : ipfqt' = [ipfqt EXCEPT ![i] = w] /\ UNCHANGED joined
    BY <1>3
  <2>1. PICK i \in Queue : ipfqt' = [ipfqt EXCEPT ![i] = w] /\ UNCHANGED joined
    BY <2>0
  <2>2. w.q = <<b>> /\ w.id = pkt[b].id
    BY <2>0
  <2>3. ToSet(w.q) = {b}
    BY <2>2, OneInQueue
  <2>4. ipfqt'[i] = w /\ \A j \in Queue : j # i => ipfqt'[j] = ipfqt[j]
    BY <2>1 DEF IInv, Types
  <2> QED BY <2>1, <2>2, <2>3, <2>4
<1>4. \/ match # {} /\ addTo(Min(match), b)
      \/ /\ unused # {}
         /\ ipfqt' = [ipfqt EXCEPT ![Min(unused)] =
                [state |-> "IPFF_VALID", id |-> pkt[b].id, ttl |-> IP_FTTL, q |-> <<b>>]]
         /\ UNCHANGED joined
      \/ UNCHANGED <<ipfqt, joined>>
  BY DEF ipreass, fragVars
<1>5. CASE /\ unused # {}
           /\ ipfqt' = [ipfqt EXCEPT ![Min(unused)] =
                [state |-> "IPFF_VALID", id |-> pkt[b].id, ttl |-> IP_FTTL, q |-> <<b>>]]
           /\ UNCHANGED joined
  BY <1>1, <1>3, <1>5
<1>6. CASE UNCHANGED <<ipfqt, joined>>
  BY <1>6
<1> QED BY <1>2, <1>4, <1>5, <1>6

(* Only reassembly lengthens a queue or puts a datagram together. *)
Adds(b) == /\ b \in Buf /\ NotFrag(b) /\ pkt[b].kind = "frag"
           /\ ipreass(b) /\ Forget /\ ip.b = b

LEMMA FragmentSteps ==
    ASSUME IInv, [Next]_vars
    PROVE  \/ Adds(ip.b)
           \/ /\ \A i \in Queue : \/ ipfqt'[i].q = ipfqt[i].q /\ ipfqt'[i].id = ipfqt[i].id
                                  \/ ipfqt'[i].q = <<>>
              /\ joined' = joined \/ joined' = Nothing
<1>1. Types
  BY DEF IInv
<1>2. CASE UNCHANGED <<ipfqt, joined>>
  BY <1>2
<1>3. CASE routePacket
  <2>1. ip.b \in Buf /\ Apart(ip.b)
    BY <1>3 DEF IInv, Types, ProcInv, PlaceInv, routePacket
  <2>2. NotFrag(ip.b)
    BY <2>1 DEF Apart, NotFrag
  <2>3. \/ pkt[ip.b].kind = "frag" /\ ipreass(ip.b) /\ Forget
        \/ UNCHANGED fragVars
    BY <1>3 DEF routePacket, discard, output, input
  <2> QED BY <1>2, <2>1, <2>2, <2>3 DEF Adds, fragVars
<1>4. CASE getpClear
  BY <1>4 DEF getpClear
<1>5. CASE ipftimerStep
  <2>1. PICK j : ipftimer(j)
    BY <1>5 DEF ipftimerStep
  <2>2. CASE ipfqt' = [ipfqt EXCEPT ![j] = FreeQueue] /\ UNCHANGED joined
    <3>1. FreeQueue.q = <<>>
      BY DEF FreeQueue
    <3> QED BY <1>1, <2>2, <3>1 DEF Types
  <2>3. CASE ipfqt' = [ipfqt EXCEPT ![j].ttl = @ - 1] /\ UNCHANGED joined
    <3>1. \A i \in Queue : ipfqt'[i].q = ipfqt[i].q /\ ipfqt'[i].id = ipfqt[i].id
      BY <1>1, <2>3 DEF Types, FragQueue
    <3> QED BY <2>3, <3>1
  <2> QED BY <2>1, <2>2, <2>3 DEF ipftimer
<1> QED BY <1>2, <1>3, <1>4, <1>5
       DEF Next, vars, fragVars, ip_in, arpInterrupt, sending, ipsend, enqCheck, enqInsert,
           enqRefused, wakeIpproc, ipproc, getpScan, getpReceive, slowtimer, arptimerStep

LEMMA MemberKeeps ==
    ASSUME IInv, IInv', EndInv, MemberInv, [Next]_vars
    PROVE  MemberInv'
<1> SUFFICES ASSUME NEW i \in Queue, NEW b \in ToSet(ipfqt'[i].q)
             PROVE  pkt'[b].kind = "frag" /\ pkt'[b].id = ipfqt'[i].id
  BY DEF MemberInv, Member
<1>1. b \in Buf /\ ~ NotFrag(b)'
  <2>1. ipfqt'[i].q \in Seq(Buf)
    BY DEF IInv, Types, FragQueue
  <2> QED BY <2>1, InSeq DEF NotFrag
<1>2. ASSUME b \in ToSet(ipfqt[i].q), ipfqt'[i].id = ipfqt[i].id
      PROVE  pkt'[b].kind = "frag" /\ pkt'[b].id = ipfqt'[i].id
  <2>1. ~ NotFrag(b)
    BY <1>2 DEF NotFrag
  <2>2. pkt'[b] = pkt[b]
    BY <1>1, <2>1, FragmentStays
  <2> QED BY <1>2, <2>2 DEF MemberInv, Member
<1>3. ipfqt'[i].q # <<>>
  BY EmptyQueue
<1>4. CASE Adds(ip.b)
  <2>1. PICK c \in Buf : c = ip.b /\ Adds(c)
    BY <1>4 DEF Adds
  <2>2. \/ ipfqt'[i] = ipfqt[i]
        \/ /\ ipfqt'[i].id = pkt[c].id
           /\ ToSet(ipfqt'[i].q) = {c}
        \/ /\ ipfqt'[i].id = pkt[c].id /\ ipfqt[i].id = pkt[c].id
           /\ ToSet(ipfqt'[i].q) = ToSet(ipfqt[i].q) \union {c}
    BY <1>3, <2>1, ReassFacts DEF Adds
  <2>3. ASSUME b = c, ipfqt'[i].id = pkt[c].id
        PROVE  pkt'[b].kind = "frag" /\ pkt'[b].id = ipfqt'[i].id
    <3>1. b \notin pool'
      BY <1>1 DEF IInv, PlaceInv, Apart
    <3>2. pkt'[b] = pkt[b]
      BY <1>1, <2>1, <3>1 DEF Adds, Forget
    <3> QED BY <2>1, <2>3, <3>2 DEF Adds
  <2> QED BY <1>2, <2>2, <2>3
<1>5. CASE ipfqt'[i].q = ipfqt[i].q /\ ipfqt'[i].id = ipfqt[i].id
  BY <1>2, <1>5
<1> QED BY <1>3, <1>4, <1>5, FragmentSteps

LEMMA JoinKeeps ==
    ASSUME IInv, EndInv, MemberInv, ReassemblyExact, [Next]_vars
    PROVE  ReassemblyExact'
<1>1. \/ joined' = joined
      \/ joined' = Nothing
      \/ joined'.data = Original(joined'.id)
  <2>1. CASE Adds(ip.b)
    BY <2>1, ReassFacts DEF Adds
  <2> QED BY <2>1, FragmentSteps
<1> QED BY <1>1 DEF ReassemblyExact, Original, Nothing

RInv == EndInv /\ MemberInv /\ ReassemblyExact

LEMMA RInvInit == Init => RInv
<1> SUFFICES ASSUME Init PROVE RInv
  OBVIOUS
<1>1. EndInv
  BY BlankIsPacket DEF Init, EndInv, Ends
<1>2. \A i \in Queue : ipfqt[i].q = <<>>
  BY DEF Init, FragInit, FreeQueue
<1>3. MemberInv
  BY <1>2, EmptyQueue DEF MemberInv
<1>4. ReassemblyExact
  BY DEF Init, FragInit, ReassemblyExact
<1> QED BY <1>1, <1>3, <1>4 DEF RInv

LEMMA RInvStep ==
    ASSUME Genuine, IInv, IInv', RInv, [Next]_vars
    PROVE  RInv'
<1>1. EndInv'
  BY EndKeeps DEF RInv, IInv
<1> QED BY <1>1, MemberKeeps, JoinKeeps DEF RInv

(* A datagram that is put together is the one that was taken apart, however   *)
(* its fragments overlap, repeat and come, for datagrams and queues of any    *)
(* length, as long as no two processes are between enq's look at the count    *)
(* and its insertion: else a buffer may be used again while it waits in a     *)
(* queue (gpq.c:63-73, ip_fadd.c:26-38, ip_fjoin.c:22-46, ip_fcons.c:37-51).  *)
THEOREM DatagramsRebuilt ==
    ASSUME Genuine
    PROVE  Spec /\ []AloneInEnq => []ReassemblyExact
<1>1. Init => IInv /\ RInv
  BY InitHolds, RInvInit
<1>2. IInv /\ RInv /\ AloneInEnq /\ [Next]_vars => IInv' /\ RInv'
  BY StepKeeps, RInvStep
<1>3. RInv => ReassemblyExact
  BY DEF RInv
<1> QED BY <1>1, <1>2, <1>3, PTL DEF Spec

(* The same of the workloads in which one process at most puts packets in the *)
(* local queue.                                                               *)
THEOREM DatagramsRebuiltAlone ==
    ASSUME Genuine
    PROVE  Spec /\ OneEnqueues => []ReassemblyExact
<1>1. Init /\ OneEnqueues => IInv /\ EInv /\ RInv
  BY InitHolds, EInvInit, RInvInit
<1>2. IInv /\ EInv /\ RInv /\ [Next]_vars => IInv' /\ EInv' /\ RInv'
  BY EInvStep, RInvStep
<1>3. RInv => ReassemblyExact
  BY DEF RInv
<1> QED BY <1>1, <1>2, <1>3, PTL DEF Spec
===============================================================================
