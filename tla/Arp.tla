---------------------------------- MODULE Arp ----------------------------------
(***************************************************************************)
(* The ARP cache (xinu/ipnet/common/arp_*.c and net_write.c): packets wait *)
(* on an entry until its host answers, the entry is given up after too     *)
(* many requests, or the slot is taken for another host.  Every operation  *)
(* runs with interrupts disabled, arp_in in the Ethernet interrupt.        *)
(***************************************************************************)
EXTENDS NetBufs

CONSTANTS ARP_TSIZE, ARP_QSIZE, ARP_TIMEOUT, ARP_RESEND, ARP_MAXRETRY

ASSUME ArpAssumption ==
    /\ ARP_TSIZE \in Nat \ {0} /\ ARP_QSIZE \in Nat \ {0}
    /\ ARP_TIMEOUT \in Nat \ {0} /\ ARP_RESEND \in Nat \ {0} /\ ARP_MAXRETRY \in Nat

VARIABLES arptable, aenext

arpVars == <<arptable, aenext>>
Entry == 0 .. ARP_TSIZE - 1
ArpStates == {"AS_FREE", "AS_PENDING", "AS_RESOLVED"}

(* ae_queue is EMPTY exactly when the sequence is.  What a free entry holds *)
(* is not looked at.                                                        *)
FreeEntry == [state |-> "AS_FREE", pra |-> "local", ttl |-> 0, attempts |-> 0, queue |-> <<>>]

ArpInit ==
    /\ arptable = [e \in Entry |-> FreeEntry]
    /\ aenext = 0

arpfind(h) == {e \in Entry : arptable[e].state # "AS_FREE" /\ arptable[e].pra = h}

(* The first free entry from aenext on; with none, the one at aenext, whose *)
(* packets arpdq frees if it was pending.                                   *)
arpalloc ==
    LET steps == {k \in 0 .. ARP_TSIZE - 1 :
                     arptable[(aenext + k) % ARP_TSIZE].state = "AS_FREE"}
    IN (aenext + (IF steps = {} THEN 0 ELSE Min(steps))) % ARP_TSIZE

Dequeued(e) == IF arptable[e].state = "AS_PENDING" THEN ToSet(arptable[e].queue) ELSE {}

(* netwrite(pep) on the Ethernet.  Bound: the driver takes every packet it  *)
(* is given and frees it.                                                   *)
netwrite(b, h) ==
    LET found == arpfind(h)
        e == IF found = {} THEN arpalloc ELSE Min(found)
    IN IF found = {}
         THEN /\ arptable' = [arptable EXCEPT ![e] =
                     [state |-> "AS_PENDING", pra |-> h, ttl |-> ARP_RESEND,
                      attempts |-> 0, queue |-> <<b>>]]
              /\ aenext' = (e + 1) % ARP_TSIZE
              /\ pool' = pool \union Dequeued(e)
       ELSE IF arptable[e].state = "AS_PENDING" /\ ~ Full(arptable[e].queue, ARP_QSIZE)
         THEN /\ arptable' = [arptable EXCEPT ![e].queue = Append(@, b)]
              /\ UNCHANGED <<aenext, pool>>
       ELSE /\ pool' = pool \union {b}
            /\ UNCHANGED arpVars

(* An ARP packet from host h; forUs: it asks for, or answers, this host.    *)
BugResolved(e) == [arptable EXCEPT ![e].state = "AS_RESOLVED", ![e].ttl = ARP_TIMEOUT]
Resolved(e) ==
    [arptable EXCEPT ![e].state = "AS_RESOLVED", ![e].ttl = ARP_TIMEOUT, ![e].queue = <<>>]

arp_in(h, forUs) ==
    LET found == arpfind(h)
        e == IF found = {} THEN arpalloc ELSE Min(found)
    IN \/ /\ found # {} /\ ~ forUs
          /\ arptable' = [arptable EXCEPT ![e].ttl = ARP_TIMEOUT]
          /\ UNCHANGED <<aenext, pool>>
       \/ /\ found # {} /\ forUs
          /\ arptable' = Resolved(e)
          /\ pool' = pool \union Dequeued(e)
          /\ UNCHANGED aenext
       \/ /\ found = {} /\ forUs
          /\ arptable' = [arptable EXCEPT ![e] =
                 [FreeEntry EXCEPT !.state = "AS_RESOLVED", !.pra = h, !.ttl = ARP_TIMEOUT]]
          /\ aenext' = (e + 1) % ARP_TSIZE
          /\ pool' = pool \union Dequeued(e)

(* One second of arptimer. *)
Aged(a) ==
    IF a = FreeEntry THEN a
    ELSE IF a.ttl > 1 THEN [a EXCEPT !.ttl = @ - 1]
    ELSE IF a.state = "AS_RESOLVED" THEN FreeEntry
    ELSE IF a.attempts + 1 > ARP_MAXRETRY
      THEN FreeEntry
      ELSE [a EXCEPT !.ttl = ARP_RESEND, !.attempts = @ + 1]

arptimer ==
    /\ arptable' = [e \in Entry |-> Aged(arptable[e])]
    /\ pool' = pool \union UNION {Dequeued(e) :
                     e \in {f \in Entry : Aged(arptable[f]).state = "AS_FREE"}}
    /\ UNCHANGED aenext

arpflush ==
    /\ arptable' = [e \in Entry |-> IF arptable[e].state = "AS_RESOLVED"
                                     THEN FreeEntry
                                     ELSE arptable[e]]
    /\ UNCHANGED <<aenext, pool>>
===============================================================================
