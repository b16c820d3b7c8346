-------------------------------- MODULE NetBufs --------------------------------
(***************************************************************************)
(* What the network code shares: packet buffers and the priority queues of *)
(* xinu/sys/common/gpq.c that hold them.                                   *)
(*                                                                         *)
(* Bound: the pool of network buffers is never found empty by getbuf: the  *)
(* model takes a buffer only while there is one, and ARP requests, which   *)
(* go straight to the driver, are not counted.                             *)
(***************************************************************************)
EXTENDS Integers, Sequences, SequencesExt, FiniteSetsExt

CONSTANTS Buf,      \* packet buffers of Net.netpool
          Hosts     \* addresses on the Ethernet

ASSUME NetBufsAssumption == Buf \subseteq Nat \ {0} /\ Hosts # {}

VARIABLES pool,     \* the free buffers
          pkt       \* what each buffer holds

(* A packet: where it is from and to, what it is to IP, its precedence, and *)
(* for a fragment the datagram, offset, length and more-fragments flag.     *)
Kinds == {"data", "bad", "frag", "echo", "error"}
Packet == [from : Hosts, to : Hosts \union {"local"}, kind : Kinds, prec : Nat,
           id : Nat, off : Nat, len : Nat, mf : BOOLEAN]

Blank == [from |-> CHOOSE h \in Hosts : TRUE, to |-> "local", kind |-> "data", prec |-> 0,
          id |-> 0, off |-> 0, len |-> 0, mf |-> FALSE]

(* Free buffers are alike: getbuf takes one of them. *)
NewBuf == CHOOSE b \in pool : TRUE

(* enq keeps higher keys first and equal keys in the order they came; the   *)
(* search starts at the tail.                                               *)
Inserted(q, b, key) ==
    InsertAt(q, Max({j \in 1 .. Len(q) : key[b] <= key[q[j]]} \union {0}) + 1, b)

(* enq returns the room that is left, and its callers take a negative      *)
(* result for a refusal.                                                   *)
Full(q, max) == Len(q) >= max
Refused(q, max) == max - Len(q) < 0

===============================================================================
