---------------------------------- MODULE Frag ---------------------------------
(***************************************************************************)
(* IP reassembly (xinu/ipnet/common/ip_reass.c, ip_f*.c).  The IP process  *)
(* adds fragments, the slow timer gives old ones up; ipfmutex keeps the    *)
(* two apart.  Offsets and lengths are in units of eight bytes, and unit i *)
(* of a datagram holds the value i.                                        *)
(***************************************************************************)
EXTENDS NetBufs, TLC

CONSTANTS IP_FQSIZE,   \* number of queues, and the length of each
          IP_FTTL,
          MAXLRGBUF,   \* longest datagram that is put together
          Datagrams,
          Length       \* of each datagram

ASSUME FragAssumption ==
    /\ IP_FQSIZE \in Nat \ {0} /\ IP_FTTL \in Nat \ {0} /\ MAXLRGBUF \in Nat
    /\ Datagrams \subseteq Nat /\ Length \in [Datagrams -> Nat]

VARIABLES ipfqt,
          joined     \* history: the datagram just put together, as [id, data]

fragVars == <<ipfqt, joined>>
Queue == 0 .. IP_FQSIZE - 1
Nothing == [id |-> 0, data |-> <<>>]
FreeQueue == [state |-> "IPFF_FREE", id |-> 0, ttl |-> 0, q |-> <<>>]

FragInit == ipfqt = [i \in Queue |-> FreeQueue] /\ joined = Nothing

End(b) == pkt[b].off + pkt[b].len

(* ipfjoin: is there a hole in front of some fragment?  Each is compared   *)
(* with the end of the one before it.                                      *)
Hole(q) ==
    \E i \in 1 .. Len(q) : pkt[q[i]].off > (IF i = 1 THEN 0 ELSE End(q[i - 1]))

(* ipfcons copies what each fragment adds behind the end of the one before, *)
(* from its unit doff on; where fragments overlap that can be nothing, or a *)
(* step back.                                                               *)
Unit(b, k) == pkt[b].off + k
BugDoff(b, from) == 0
Doff(b, from) == from - pkt[b].off

Assembled(q) ==
    LET copied[i \in 0 .. Len(q)] ==
            IF i = 0 THEN <<>>
            ELSE LET from == IF i = 1 THEN 0 ELSE End(q[i - 1])
                     dlen == pkt[q[i]].len - Doff(q[i], from)
                 IN [u \in 1 .. Max({from + dlen, Len(copied[i - 1])}) |->
                        IF u > from /\ u <= from + dlen
                          THEN Unit(q[i], Doff(q[i], from) + u - 1 - from)
                          ELSE copied[i - 1][u]]
    IN SubSeq(copied[Len(q)], 1, End(Last(q)))

Original(id) == [u \in 1 .. Length[id] |-> u - 1]

(* ipfadd and ipfjoin on the queue of b's datagram.  A queue that overflows *)
(* gives everything up and refuses the rest until it expires.               *)
Overflowed(iq) == [iq EXCEPT !.state = "IPFF_BOGUS", !.q = <<>>]

SortKey == [b \in Buf |-> - pkt[b].off]

addTo(i, b) ==
    LET iq == ipfqt[i]
        q == Inserted(iq.q, b, SortKey)
        end == End(Last(q))
        whole == ~ Hole(q)
    IN \/ /\ iq.state = "IPFF_BOGUS"
          /\ pool' = pool \union {b}
          /\ UNCHANGED fragVars
       \/ /\ iq.state = "IPFF_VALID" /\ Full(iq.q, IP_FQSIZE)
          /\ ipfqt' = [ipfqt EXCEPT ![i] = Overflowed(iq)]
          /\ pool' = pool \union {b} \union (ToSet(iq.q) \ ToSet(Overflowed(iq).q))
          /\ UNCHANGED joined
       \/ /\ iq.state = "IPFF_VALID" /\ ~ Full(iq.q, IP_FQSIZE)
          /\ IF whole /\ end > MAXLRGBUF
               THEN /\ ipfqt' = [ipfqt EXCEPT ![i] = FreeQueue]
                    /\ pool' = pool \union ToSet(q)
                    /\ UNCHANGED joined
             ELSE IF whole /\ ~ pkt[Last(q)].mf
               THEN /\ ipfqt' = [ipfqt EXCEPT ![i] = FreeQueue]
                    /\ pool' = pool \union ToSet(q)
                    /\ joined' = [id |-> pkt[b].id, data |-> Assembled(q)]
             ELSE /\ ipfqt' = [ipfqt EXCEPT ![i] = [iq EXCEPT !.q = q, !.ttl = IP_FTTL]]
                  /\ UNCHANGED <<pool, joined>>

(* ipreass: a fragment joins the queue of its datagram, opens one, or is    *)
(* dropped because all are in use.  The datagram put together is handed on  *)
(* at once, in a large buffer that is not counted.                          *)
ipreass(b) ==
    LET match == {i \in Queue : ipfqt[i].state # "IPFF_FREE" /\ ipfqt[i].id = pkt[b].id}
        unused == {i \in Queue : ipfqt[i].state = "IPFF_FREE"}
    IN \/ match # {} /\ addTo(Min(match), b)
       \/ /\ match = {} /\ unused # {}
          /\ ipfqt' = [ipfqt EXCEPT ![Min(unused)] =
                 [state |-> "IPFF_VALID", id |-> pkt[b].id, ttl |-> IP_FTTL, q |-> <<b>>]]
          /\ UNCHANGED <<pool, joined>>
       \/ /\ match = {} /\ unused = {}
          /\ pool' = pool \union {b}
          /\ UNCHANGED fragVars

(* ipftimer on queue i, which is in use, one second later.  The first       *)
(* fragment goes back to its sender as an ICMP message.                     *)
Expires(i) == ipfqt[i].ttl <= 1

Expired(i) == IF Expires(i) /\ ipfqt[i].q # <<>> THEN <<Head(ipfqt[i].q)>> ELSE <<>>

ipftimer(i) ==
    \/ /\ ~ Expires(i)
       /\ ipfqt' = [ipfqt EXCEPT ![i].ttl = @ - 1]
       /\ UNCHANGED <<pool, joined>>
    \/ /\ Expires(i)
       /\ ipfqt' = [ipfqt EXCEPT ![i] = FreeQueue]
       /\ pool' = pool \union (ToSet(ipfqt[i].q) \ ToSet(Expired(i)))
       /\ UNCHANGED joined
===============================================================================
