-------------------------------- MODULE Asn1 --------------------------------
(***************************************************************************)
(* The basic encoding rules as the SNMP code writes and reads them         *)
(* (a1rwlen.c, a1rwint.c, a1rwoid.c): lengths, integers and object         *)
(* identifiers as sequences of octets.  CHAR_BITS is 8 in the code; with a *)
(* smaller octet every case of every branch is met by small numbers.       *)
(***************************************************************************)
EXTENDS Integers, Sequences, SequencesExt, Functions

CONSTANT CHAR_BITS
ASSUME Asn1Assumption == CHAR_BITS \in Nat /\ CHAR_BITS > 2

OCTET == 2 ^ CHAR_BITS
CHAR_HIBIT == OCTET \div 2
BYTE2_HIBIT == OCTET * CHAR_HIBIT
BYTE3_HIBIT == OCTET * BYTE2_HIBIT
BYTE4_HIBIT == OCTET * BYTE3_HIBIT

Octet(n, i) == (n \div OCTET ^ i) % OCTET
LastOctets(n, k) == [i \in 1..k |-> Octet(n, k - i)]
Number(base, digits) == FoldLeft(LAMBDA a, d : base * a + d, 0, digits)

(***************************************************************************)
(* Lengths: one octet below CHAR_HIBIT, else the number of octets with the *)
(* high bit set and the octets, two of them at most.                       *)
(***************************************************************************)
a1writelen(len) ==
    IF len < CHAR_HIBIT THEN <<len>>
    ELSE IF len <= OCTET - 1 THEN <<CHAR_HIBIT + 1, len>>
    ELSE <<CHAR_HIBIT + 2>> \o LastOctets(len, 2)

\* The length and the octets it took.
a1readlen(pack) ==
    IF pack[1] < CHAR_HIBIT THEN [len |-> pack[1], used |-> 1]
    ELSE LET n == pack[1] - CHAR_HIBIT
         IN [len |-> Number(OCTET, SubSeq(pack, 2, n + 1)), used |-> n + 1]

(***************************************************************************)
(* Integers of four octets, signed or not.  The number of octets is chosen *)
(* from the absolute value; an unsigned number with the high bit set takes *)
(* five, the first of them zero.  The reader refuses more than four and    *)
(* returns 0.                                                              *)
(***************************************************************************)
Signed(type) == type = "int"
Magnitude(val) == IF val < 0 THEN -val ELSE val
\* (for CodecReadsBack) the sign bit forgotten
BugOctetsFor(m) == IF m < OCTET THEN 1
                   ELSE IF m < OCTET ^ 2 THEN 2
                   ELSE IF m < OCTET ^ 3 THEN 3
                   ELSE 4
OctetsFor(m) == IF m < CHAR_HIBIT THEN 1
                ELSE IF m < BYTE2_HIBIT THEN 2
                ELSE IF m < BYTE3_HIBIT THEN 3
                ELSE 4

a1writeint(val) ==
    LET m == Magnitude(val)
    IN IF m < BYTE4_HIBIT
       THEN <<OctetsFor(m)>> \o LastOctets(val, OctetsFor(m))
       ELSE <<5, 0>> \o LastOctets(val, 4)

a1readint(pack) ==
    LET len == Len(pack)
        tot == Number(OCTET, [pack EXCEPT ![1] = @ % CHAR_HIBIT])
    IN IF len > 4 THEN 0
       ELSE IF pack[1] >= CHAR_HIBIT
       THEN tot - 2 ^ (len * CHAR_BITS - 1) ELSE tot

(***************************************************************************)
(* Object identifiers: a sub-identifier of two octets takes as many groups *)
(* of CHAR_BITS - 1 bits as it needs, all but the last with the high bit.  *)
(***************************************************************************)
a1writesub(id) ==
    (IF id >= BYTE2_HIBIT \div 2
     THEN <<CHAR_HIBIT + ((id \div CHAR_HIBIT ^ 2) % CHAR_HIBIT)>>
     ELSE <<>>)
    \o (IF id >= CHAR_HIBIT
        THEN <<CHAR_HIBIT + ((id \div CHAR_HIBIT) % CHAR_HIBIT)>> ELSE <<>>)
    \o <<id % CHAR_HIBIT>>

a1writeoid(oid) ==
    FlattenSeq([i \in DOMAIN oid |-> a1writesub(oid[i])])

\* The octets of the i-th sub-identifier follow the (i-1)-th octet without
\* the high bit.
a1readoid(pack) ==
    LET ends == SetToSortSeq({k \in DOMAIN pack : pack[k] < CHAR_HIBIT},
                             LAMBDA a, b : a < b)
        from(i) == IF i = 1 THEN 1 ELSE ends[i - 1] + 1
    IN [i \in DOMAIN ends |->
           Number(CHAR_HIBIT, [k \in 1..(ends[i] - from(i) + 1) |->
                                  pack[from(i) + k - 1] % CHAR_HIBIT])]

(***************************************************************************)
(* What is written is what is read: every length of two octets, every      *)
(* signed integer but the least, every unsigned one without the high bit   *)
(* (a1readint makes the others 0), and every object identifier.            *)
(***************************************************************************)
ReadsBack(n) ==
    /\ n \in 0..(OCTET ^ 2 - 1) =>
          /\ a1readlen(a1writelen(n)) =
                [len |-> n, used |-> Len(a1writelen(n))]
          /\ a1readoid(a1writeoid(<<n, 1, n>>)) = <<n, 1, n>>
    /\ n \in (1 - BYTE4_HIBIT)..(BYTE4_HIBIT - 1) =>
          LET w == a1writeint(n)
          IN Len(w) = w[1] + 1 /\ a1readint(Tail(w)) = n
=============================================================================
