------------------------------ MODULE Routing ------------------------------
(***************************************************************************)
(* The routing table (rt_*.c), the routing information protocol (rip_*.c)  *)
(* and what redirects do to the table (ip_redir.c, icmp_redir.c), on a few *)
(* machines joined by networks.  A route is a counted buffer of the pool   *)
(* ri_bpool: the table, and every process between rtget and rtfree, holds  *)
(* one count.  Each operation on the table is one step, for it holds       *)
(* Route.ri_mutex; the rip process, ripout, the slow timer and the IP      *)
(* process of one machine interleave between those steps.                  *)
(*                                                                         *)
(* A destination is [net, host, mask]: mask "net" is the mask of the class *)
(* of the network (such a route has host 0 unless something put an         *)
(* unmasked address there), mask "all" a route to one host.  A bucket of   *)
(* the hash table holds the routes of one network.  The broadcast routes   *)
(* that setmask adds for an interface never change and are left out, and   *)
(* so are subnets.  Time is counted in periods of RIPINT, the interval of  *)
(* the regular updates.                                                    *)
(***************************************************************************)
EXTENDS Integers, Sequences, FiniteSets, SequencesExt, FiniteSetsExt

CONSTANTS Machines,   \* the machines that run this system
          Peers,      \* other routers, which send what they like
          Nobody,     \* no machine
          Nets,       \* the networks, 1..n
          Loads,      \* the topologies and events checked (see MCManagement)
          RT_INF,     \* the time to live of a route that does not expire
          RTM_INF,    \* the metric of what cannot be reached, RIP_INFINITY
          RIPRTTL,    \* time to live of a route that was learned
          RIPZTIME,   \* time an unreachable route is still advertised
          IC_RDTTL,   \* time to live of a route from a redirect
          UPPLEN,     \* datagrams that wait at a port
          IP_TTL      \* hops a packet may make

ASSUME RoutingConstants ==
    /\ Nobody \notin Machines \cup Peers
    /\ IsFiniteSet(Nets) /\ Nets = 1..Cardinality(Nets)
    /\ {RIPRTTL, IC_RDTTL, UPPLEN, IP_TTL} \subseteq Nat \ {0}
    /\ RTM_INF \in Nat /\ RTM_INF > 1
    /\ RIPZTIME \in Nat /\ RIPZTIME > 1
    /\ RT_INF \in Nat /\ RT_INF > RIPRTTL /\ RT_INF > RIPZTIME /\ RT_INF > IC_RDTTL

VARIABLES load,     \* the topology, the buffers of the pool (RT_BPSIZE), the events
          up,       \* the machines that run
          rt,       \* rttable, ri_default and the pool, by machine
          inbox,    \* datagrams that wait at the RIP port
          rip,      \* the rip process: what it holds and has still to add
          out,      \* ripout: an update due, an update asked for
          wire,     \* packets on their way into a machine
          ip,       \* the IP process: a packet, the route it holds, one to add
          events    \* what may still go wrong or be sent

routingVars == <<load, up, rt, inbox, rip, out, wire, ip, events>>

AnyNet  == 0
Default == [net |-> AnyNet, host |-> 0, mask |-> "none"]
NetOf(n)    == [net |-> n, host |-> 0, mask |-> "net"]
HostOf(n, h) == [net |-> n, host |-> h, mask |-> "all"]

Hosts == {0} \cup Machines \cup Peers
Destinations == {Default} \cup [net : Nets, host : Hosts, mask : {"net", "all"}]
Gateways == Machines \cup Peers \cup {Nobody}

\* A load: the networks of each machine and its static routes, for which the
\* pool is large enough, and what is sent.
ASSUME LoadsAssumption ==
    \A l \in Loads :
        /\ DOMAIN l.attach \subseteq Machines
        /\ l.gateways \subseteq DOMAIN l.attach /\ l.frail \subseteq DOMAIN l.attach
        /\ l.bufs \in Nat
        /\ \A m \in DOMAIN l.attach :
              /\ l.attach[m] \in Seq(Nets) /\ l.attach[m] # <<>>
              /\ l.static[m] \in Seq([dst : Destinations, gw : Gateways, metric : Nat,
                                      ifn : Nat, ttl : Nat, ref : {1}])
              /\ Len(l.attach[m]) + Len(l.static[m]) <= l.bufs
        /\ l.packets \subseteq [src : Machines, dst : [net : Nets, host : Hosts]]
        /\ l.updates \subseteq Seq([dst : Destinations, metric : Nat])

(***************************************************************************)
(* The table.  t.buf are the buffers of the pool, t.chain[n] the bucket of *)
(* network n, longest mask first, t.dflt the default route or 0.           *)
(***************************************************************************)
NoRoute == [dst |-> Default, gw |-> Nobody, metric |-> 0, ifn |-> 0,
            ttl |-> 0, ref |-> 0]
Route(dst, gw, metric, ifn, ttl) ==
    [dst |-> dst, gw |-> gw, metric |-> metric, ifn |-> ifn, ttl |-> ttl,
     ref |-> 1]
Key(dst) == IF dst.mask = "all" THEN 2 ELSE 1

FreeBufs(t) == {b \in DOMAIN t.buf : t.buf[b].ref = 0}
EmptyTable == [buf   |-> [b \in 1..load.bufs |-> NoRoute],
               chain |-> [n \in Nets |-> <<>>],
               dflt  |-> 0]

\* (for RoutesCounted) a count given back twice
BugRtFree(t, b) == [t EXCEPT !.buf[b] = NoRoute]
RtFree(t, b) == IF t.buf[b].ref <= 1 THEN [t EXCEPT !.buf[b] = NoRoute]
                                     ELSE [t EXCEPT !.buf[b].ref = @ - 1]
RtHold(t, b) == [t EXCEPT !.buf[b].ref = @ + 1]

\* Where rtadd stops in the bucket: at a shorter mask or at the same route.
Place(t, dst) ==
    LET c == t.chain[dst.net] IN
    Min({Len(c) + 1} \cup
        {i \in DOMAIN c : \/ Key(dst) > Key(t.buf[c[i]].dst)
                          \/ t.buf[c[i]].dst = dst})

RtAddDefault(t, r) ==
    LET b  == Min(FreeBufs(t))
        t1 == [t EXCEPT !.buf[b] = r, !.dflt = b]
    IN IF t.dflt = 0 THEN t1 ELSE RtFree(t1, t.dflt)

\* The result is the table and whether ripout is sent a message.
RtAdd(t, r, dorip) ==
    LET b   == Min(FreeBufs(t))
        new == [t EXCEPT !.buf[b] = r]
        n   == r.dst.net
        i   == Place(t, r.dst)
        dup == i <= Len(t.chain[n]) /\ t.buf[t.chain[n][i]].dst = r.dst
        at  == t.chain[n][i]
        old == t.buf[at]
        changed == dorip /\ old.metric # r.metric
    IN IF r.dst = Default THEN [t |-> RtAddDefault(t, r), wake |-> FALSE]
       ELSE IF ~dup THEN
           [t |-> [new EXCEPT !.chain[n] = InsertAt(@, i, b)], wake |-> dorip]
       ELSE IF old.gw = r.gw THEN
           [t |-> [t EXCEPT !.buf[at].metric = r.metric,
                            !.buf[at].ttl =
                               IF ~dorip THEN @
                               ELSE IF changed /\ r.metric = RTM_INF THEN RIPZTIME
                               ELSE r.ttl],
            wake |-> changed]
       ELSE IF old.metric <= r.metric THEN [t |-> t, wake |-> FALSE]
       ELSE [t |-> [RtFree(new, at) EXCEPT !.chain[n][i] = b], wake |-> dorip]

\* rtdel compares only the network with that of the default route.
RtDel(t, dst) ==
    IF t.dflt # 0 /\ dst.net = t.buf[t.dflt].dst.net
    THEN [RtFree(t, t.dflt) EXCEPT !.dflt = 0]
    ELSE LET c     == t.chain[dst.net]
             found == {i \in DOMAIN c : t.buf[c[i]].dst = dst}
         IN IF found = {} THEN t
            ELSE [RtFree(t, c[Min(found)]) EXCEPT
                     !.chain[dst.net] = RemoveAt(c, Min(found))]

\* An address [net, host] against a route: the mask is applied to the
\* address and not to the route.
NetMatch(a, dst) == \/ dst.mask = "all" /\ dst.host = a.host
                    \/ dst.mask = "net" /\ dst.host = 0

RtFind(t, a) ==
    LET c    == t.chain[a.net]
        live == {i \in DOMAIN c : /\ t.buf[c[i]].ttl > 0
                                  /\ NetMatch(a, t.buf[c[i]].dst)
                                  /\ t.buf[c[i]].metric < RTM_INF}
    IN IF live # {} THEN c[Min(live)]
       ELSE IF t.dflt # 0 /\ t.buf[t.dflt].metric < RTM_INF THEN t.dflt
       ELSE 0

(***************************************************************************)
(* rttimer.  A route that expires is unreachable for RIPZTIME more where   *)
(* RIP is spoken, and the walk looks at it a second time.                  *)
(***************************************************************************)
BugOlder(r) == r    \* (for RoutesConverge) nothing ages
Older(r) == IF r.ttl = RT_INF THEN r ELSE [r EXCEPT !.ttl = @ - 1]
Expired(r) == Older(r).ttl <= 0
Aged(r, dorip) ==
    IF ~Expired(r) THEN Older(r)
    ELSE IF dorip /\ r.metric < RTM_INF
    THEN [r EXCEPT !.metric = RTM_INF, !.ttl = RIPZTIME - 1]
    ELSE IF r.ref > 1 THEN [Older(r) EXCEPT !.ref = @ - 1]
    ELSE NoRoute
AgedDefault(r, dorip) ==
    IF Expired(r) /\ dorip /\ r.metric < RTM_INF
    THEN [r EXCEPT !.metric = RTM_INF, !.ttl = RIPZTIME]
    ELSE Aged(r, dorip)
Goes(r, dorip) == Expired(r) /\ ~(dorip /\ r.metric < RTM_INF)

Linked(t) == UNION {Range(t.chain[n]) : n \in Nets}

\* What is left of a bucket when the routes in gone are taken out.
Without(c, gone) ==
    LET left[i \in 0..Len(c)] ==
          IF i = 0 THEN <<>>
          ELSE IF c[i] \in gone THEN left[i - 1] ELSE Append(left[i - 1], c[i])
    IN left[Len(c)]

RtTimer(t, dorip) ==
    [t |-> [buf   |-> [b \in DOMAIN t.buf |->
                          IF b \in Linked(t) THEN Aged(t.buf[b], dorip)
                          ELSE IF b = t.dflt THEN AgedDefault(t.buf[b], dorip)
                          ELSE t.buf[b]],
            chain |-> [n \in Nets |->
                          Without(t.chain[n],
                                  {b \in Linked(t) : Goes(t.buf[b], dorip)})],
            dflt  |-> IF t.dflt # 0 /\ Goes(t.buf[t.dflt], dorip) THEN 0
                      ELSE t.dflt],
     wake |-> dorip /\ \E b \in Linked(t) : /\ Expired(t.buf[b])
                                            /\ t.buf[b].metric < RTM_INF]

(***************************************************************************)
(* Interfaces.  load.attach[m] lists the networks of m: interface i is the *)
(* one on the i-th.  Interface 0 is NI_LOCAL.                              *)
(***************************************************************************)
Attach(m) == load.attach[m]
On(n) == {m \in up : n \in Range(Attach(m))}
IfOn(m, n) == CHOOSE i \in DOMAIN Attach(m) : Attach(m)[i] = n
IsGateway(m) == m \in load.gateways

\* What setmask and the static routes of a machine put there at the start.
FirstRoutes(m) ==
    [i \in DOMAIN Attach(m) |-> Route(NetOf(Attach(m)[i]), m, 0, i, RT_INF)]
    \o load.static[m]
FirstTable(m) ==
    LET t[i \in 0..Len(FirstRoutes(m))] ==
          IF i = 0 THEN EmptyTable ELSE RtAdd(t[i - 1], FirstRoutes(m)[i], FALSE).t
    IN t[Len(FirstRoutes(m))]

(***************************************************************************)
(* Updates.  Every route goes into the update of every interface: with the *)
(* metric of infinity on the interface it leads through, with one more     *)
(* than its own metric elsewhere - also when that is infinity.             *)
(***************************************************************************)
RipMetric(r, i) == IF r.ifn = i THEN RTM_INF ELSE r.metric + 1

Advertised(t) ==
    FlattenSeq([n \in 1..Cardinality(Nets) |-> t.chain[n]])
    \o (IF t.dflt = 0 THEN <<>> ELSE <<t.dflt>>)

\* Of a route to a network only the number of the network is sent, except on
\* that network.
Sent(dst, net) == IF dst.mask = "all" \/ dst.net = net THEN dst
                  ELSE [dst EXCEPT !.host = 0]

Update(m, i) ==
    [cmd |-> "response", gw |-> m,
     entries |-> LET a == Advertised(rt[m]) IN
                 [k \in DOMAIN a |->
                     [dst    |-> Sent(rt[m].buf[a[k]].dst, Attach(m)[i]),
                      metric |-> RipMetric(rt[m].buf[a[k]], i)]]]

Queued(q, msg) == IF Len(q) >= UPPLEN THEN q ELSE Append(q, msg)

\* Every other machine on the networks of m gets the update of its network.
Broadcast(m) ==
    [k \in Machines |->
        LET q[i \in 0..Len(Attach(m))] ==
              IF i = 0 THEN inbox[k]
              ELSE IF k # m /\ k \in On(Attach(m)[i])
                   THEN Queued(q[i - 1], Update(m, i)) ELSE q[i - 1]
        IN q[Len(Attach(m))]]

\* Where the load keeps time (see Tick) a machine is left to take in an update
\* before another one does something: they touch nothing in common.
Undisturbed(m) == load.timely => \A k \in Machines \ {m} : rip[k].pc = "idle"

RipIdle == [pc |-> "idle", held |-> 0, gw |-> Nobody, ifn |-> 0, todo |-> <<>>]
IpIdle  == [pc |-> "idle", held |-> 0, pkt |-> <<>>, new |-> <<>>]
Asleep  == [due |-> FALSE, asked |-> FALSE]

Wake(m, res) == IF res.wake THEN [out EXCEPT ![m].asked = TRUE] ELSE out

(***************************************************************************)
(* ripout: the regular update, and the one a change of the table asks for. *)
(* It waits for riplock, which riprecv holds while it adds.                *)
(***************************************************************************)
RipOut(m) ==
    /\ m \in up
    /\ IsGateway(m)
    /\ out[m].due \/ out[m].asked
    /\ rip[m].pc # "add"
    /\ Undisturbed(m)
    /\ inbox' = Broadcast(m)
    /\ out' = [out EXCEPT ![m] = Asleep]
    /\ UNCHANGED <<load, up, rt, rip, wire, ip, events>>

(***************************************************************************)
(* rip: a response is taken from the queue; the route to its sender names  *)
(* the interface and is held meanwhile; each route is added with riplock.  *)
(***************************************************************************)
SenderIf(m, gw) == CHOOSE i \in DOMAIN Attach(m) :
                      \/ gw \in Peers
                      \/ gw \in Machines /\ Attach(m)[i] \in Range(Attach(gw))

RipRecv(m) ==
    /\ m \in up
    /\ rip[m].pc = "idle"
    /\ Undisturbed(m)
    /\ inbox[m] # <<>>
    /\ LET msg == Head(inbox[m])
           b   == RtFind(rt[m], [net  |-> Attach(m)[SenderIf(m, msg.gw)],
                                 host |-> msg.gw])
       IN /\ inbox' = [inbox EXCEPT ![m] = Tail(@)]
          /\ IF b = 0 THEN UNCHANGED <<rt, rip>>
             ELSE /\ rt'  = [rt EXCEPT ![m] = RtHold(@, b)]
                  /\ rip' = [rip EXCEPT ![m] =
                               [pc |-> "route", held |-> b, gw |-> msg.gw,
                                ifn |-> 0, todo |-> msg.entries]]
    /\ UNCHANGED <<load, up, out, wire, ip, events>>

RipLock(m) ==
    /\ m \in up
    /\ rip[m].pc = "route"
    /\ rt' = [rt EXCEPT ![m] = RtFree(@, rip[m].held)]
    /\ rip' = [rip EXCEPT ![m] =
                 IF @.todo = <<>> THEN RipIdle
                 ELSE [@ EXCEPT !.pc = "add", !.held = 0,
                                !.ifn = rt[m].buf[rip[m].held].ifn]]
    /\ UNCHANGED <<load, up, inbox, out, wire, ip, events>>

\* ripok refuses a metric beyond infinity; rtadd takes a buffer before it
\* looks for the route, and waits for one when the pool is empty.
RipOk(e) == e.metric <= RTM_INF

\* An update has no masks: an address gets the mask of its network, also that
\* of a host.
RipDst(dst) == IF dst = Default THEN dst ELSE [dst EXCEPT !.mask = "net"]

RipAdd(m) ==
    /\ m \in up
    /\ rip[m].pc = "add"
    /\ LET e   == Head(rip[m].todo)
           res == RtAdd(rt[m], Route(RipDst(e.dst), rip[m].gw, e.metric,
                                     rip[m].ifn, RIPRTTL), IsGateway(m))
       IN /\ rip' = [rip EXCEPT ![m] = IF Len(@.todo) = 1 THEN RipIdle
                                       ELSE [@ EXCEPT !.todo = Tail(rip[m].todo)]]
          /\ IF ~RipOk(e) THEN UNCHANGED <<rt, out>>
             ELSE /\ FreeBufs(rt[m]) # {}
                  /\ rt'  = [rt EXCEPT ![m] = res.t]
                  /\ out' = Wake(m, res)
    /\ UNCHANGED <<load, up, inbox, wire, ip, events>>

(***************************************************************************)
(* The slow timer, once per period of updates on every machine.  Where the *)
(* load keeps time (load.timely), what was due in a period is sent, taken  *)
(* in and answered within it: RIPINT is 30 seconds.                        *)
(***************************************************************************)
TakenIn == \A m \in up : /\ inbox[m] = <<>> /\ rip[m].pc = "idle"
                         /\ IsGateway(m) => out[m] = Asleep

Tick ==
    /\ load.timely => TakenIn
    /\ LET res == [m \in up |-> RtTimer(rt[m], IsGateway(m))]
       IN /\ rt'  = [m \in Machines |-> IF m \in up THEN res[m].t ELSE rt[m]]
          /\ out' = [m \in Machines |->
                        IF m \in up /\ IsGateway(m)
                        THEN [due |-> TRUE, asked |-> out[m].asked \/ res[m].wake]
                        ELSE out[m]]
    /\ UNCHANGED <<load, up, inbox, rip, wire, ip, events>>

(***************************************************************************)
(* Packets through the IP process: ipproc takes one, rtget holds a route   *)
(* for it, and ipputp sends it on.  A packet that leaves by the interface  *)
(* it came in by, from a source one hop away, tells the source to use the  *)
(* other router (ipredirect, icmp).                                        *)
(***************************************************************************)
Gw(m, p, b) == IF rt[m].buf[b].metric # 0 THEN rt[m].buf[b].gw ELSE p.dst.host

IpRoute(m) ==
    /\ m \in up
    /\ ip[m].pc = "idle"
    /\ wire[m] # <<>>
    /\ LET p == Head(wire[m])
           b == RtFind(rt[m], p.dst)
       IN /\ p.kind = "data"
          /\ wire' = [wire EXCEPT ![m] = Tail(@)]
          /\ IF b = 0 \/ (p.ifn # 0 /\ ~IsGateway(m))
             THEN UNCHANGED <<rt, ip>>
             ELSE /\ rt' = [rt EXCEPT ![m] = RtHold(@, b)]
                  /\ ip' = [ip EXCEPT ![m] = [IpIdle EXCEPT !.pc = "route", !.held = b,
                                                            !.pkt = <<p>>]]
    /\ UNCHANGED <<load, up, inbox, rip, out, events>>

\* The kind of redirect: for the network when the mask of the route is that
\* of its class (the default route has that of its class), for the host
\* otherwise.
Redirect(m, p, r) ==
    [kind |-> IF r.dst.mask = "all" THEN "host" ELSE "net",
     from |-> m, dst |-> p.dst, gw |-> r.gw]
Redirects(m, p, r) ==
    /\ p.ifn # 0 /\ p.ifn = r.ifn
    /\ LET s == RtFind(rt[m], [net |-> Attach(m)[p.ifn], host |-> p.src])
       IN s # 0 /\ rt[m].buf[s].metric = 0

IpForward(m) ==
    /\ m \in up
    /\ ip[m].pc = "route"
    /\ LET p == ip[m].pkt[1]
           r == rt[m].buf[ip[m].held]
           n == Attach(m)[r.ifn]
           k == Gw(m, p, ip[m].held)
           tell == IF Redirects(m, p, r)
                   THEN [wire EXCEPT ![p.src] = Append(@, Redirect(m, p, r))]
                   ELSE wire
       IN /\ rt' = [rt EXCEPT ![m] = RtFree(@, ip[m].held)]
          /\ ip' = [ip EXCEPT ![m] = IpIdle]
          /\ wire' = IF p.ttl > 1 /\ k \in On(n)
                     THEN [(IF p.ttl > 1 THEN tell ELSE wire) EXCEPT ![k] =
                             Append(@, [p EXCEPT !.ttl = @ - 1,
                                                 !.ifn = IfOn(k, n)])]
                     ELSE IF p.ttl > 1 THEN tell ELSE wire
    /\ UNCHANGED <<load, up, inbox, rip, out, events>>

(***************************************************************************)
(* icredirect: the route in use is looked up, and only its router is       *)
(* believed; the route is deleted, the new one added - rtadd may wait for  *)
(* a buffer - and what was looked up is given back.  The address of the    *)
(* packet goes into rtdel and rtadd as it is, also under the mask of its   *)
(* network.                                                                *)
(***************************************************************************)
RedirectDst(p) == [net |-> p.dst.net, host |-> p.dst.host,
                   mask |-> IF p.kind = "host" THEN "all" ELSE "net"]

IcGet(m) ==
    /\ m \in up
    /\ ip[m].pc = "idle"
    /\ wire[m] # <<>>
    /\ LET p == Head(wire[m])
           b == RtFind(rt[m], p.dst)
       IN /\ p.kind \in {"net", "host"}
          /\ wire' = [wire EXCEPT ![m] = Tail(@)]
          /\ IF b = 0 THEN UNCHANGED <<rt, ip>>
             ELSE /\ rt' = [rt EXCEPT ![m] = RtHold(@, b)]
                  /\ ip' = [ip EXCEPT ![m] =
                              [IpIdle EXCEPT !.pc = IF rt[m].buf[b].gw = p.from
                                                    THEN "delete" ELSE "free",
                                             !.held = b, !.pkt = <<p>>]]
    /\ UNCHANGED <<load, up, inbox, rip, out, events>>

IcDelete(m) ==
    /\ m \in up
    /\ ip[m].pc = "delete"
    /\ LET p == ip[m].pkt[1]
           r == rt[m].buf[ip[m].held]
       IN /\ rt' = [rt EXCEPT ![m] = RtDel(@, RedirectDst(p))]
          /\ ip' = [ip EXCEPT ![m].pc = "add",
                              ![m].new = <<Route(RedirectDst(p), p.gw, r.metric, r.ifn,
                                                 IC_RDTTL)>>]
    /\ UNCHANGED <<load, up, inbox, rip, out, wire, events>>

IcAdd(m) ==
    /\ m \in up
    /\ ip[m].pc = "add"
    /\ FreeBufs(rt[m]) # {}
    /\ LET res == RtAdd(rt[m], ip[m].new[1], IsGateway(m))
       IN /\ rt'  = [rt EXCEPT ![m] = res.t]
          /\ out' = Wake(m, res)
    /\ ip' = [ip EXCEPT ![m].pc = "free", ![m].new = <<>>]
    /\ UNCHANGED <<load, up, inbox, rip, wire, events>>

IcFree(m) ==
    /\ m \in up
    /\ ip[m].pc = "free"
    /\ rt' = [rt EXCEPT ![m] = RtFree(@, ip[m].held)]
    /\ ip' = [ip EXCEPT ![m] = IpIdle]
    /\ UNCHANGED <<load, up, inbox, rip, out, wire, events>>

(***************************************************************************)
(* What happens from outside, as often as the load says.                   *)
(***************************************************************************)
Spend(e) == /\ events[e] > 0
            /\ events' = [events EXCEPT ![e] = @ - 1]

SendPacket ==
    /\ Spend("packets")
    /\ \E p \in load.packets :
          wire' = [wire EXCEPT ![p.src] =
                     Append(@, [kind |-> "data", src |-> p.src, dst |-> p.dst,
                                ttl |-> IP_TTL, ifn |-> 0])]
    /\ UNCHANGED <<load, up, rt, inbox, rip, out, ip>>

\* Another router sends an update.
PeerUpdate ==
    /\ Spend("updates")
    /\ \E m \in up, g \in Peers, es \in load.updates :
          inbox' = [inbox EXCEPT ![m] =
                      Queued(@, [cmd |-> "response", gw |-> g, entries |-> es])]
    /\ UNCHANGED <<load, up, rt, rip, out, wire, ip>>

LoseUpdate ==
    /\ Spend("losses")
    /\ \E m \in up : /\ inbox[m] # <<>>
                     /\ inbox' = [inbox EXCEPT ![m] = Tail(@)]
    /\ UNCHANGED <<load, up, rt, rip, out, wire, ip>>

\* The power of a machine fails; it may come back with its first table.
Crash ==
    /\ Spend("crashes")
    /\ \E m \in load.frail \cap up :
          /\ up' = up \ {m}
          /\ rt' = [rt EXCEPT ![m] = FirstTable(m)]
          /\ inbox' = [inbox EXCEPT ![m] = <<>>]
          /\ rip' = [rip EXCEPT ![m] = RipIdle]
          /\ out' = [out EXCEPT ![m] = Asleep]
          /\ wire' = [wire EXCEPT ![m] = <<>>]
          /\ ip' = [ip EXCEPT ![m] = IpIdle]
    /\ UNCHANGED load

Restart ==
    /\ Spend("restarts")
    /\ \E m \in load.frail \ up :
          /\ up' = up \cup {m}
          /\ out' = [out EXCEPT ![m].due = IsGateway(m)]
    /\ UNCHANGED <<load, rt, inbox, rip, wire, ip>>

RoutingInit ==
    /\ load \in Loads
    /\ up = DOMAIN load.attach
    /\ rt = [m \in Machines |-> IF m \in DOMAIN load.attach THEN FirstTable(m)
                                ELSE EmptyTable]
    /\ inbox = [m \in Machines |-> <<>>]
    /\ rip = [m \in Machines |-> RipIdle]
    /\ out = [m \in Machines |-> [due |-> m \in load.gateways, asked |-> FALSE]]
    /\ wire = [m \in Machines |-> <<>>]
    /\ ip = [m \in Machines |-> IpIdle]
    /\ events = load.events

RipStep(m) == RipRecv(m) \/ RipLock(m) \/ RipAdd(m)
IcStep(m)  == IcGet(m) \/ IcDelete(m) \/ IcAdd(m) \/ IcFree(m)
IpStep(m)  == IpRoute(m) \/ IpForward(m) \/ IcStep(m)
MachineStep == \E m \in Machines : RipOut(m) \/ RipStep(m) \/ IpStep(m)

RoutingNext == \/ MachineStep \/ Tick
               \/ SendPacket \/ PeerUpdate \/ LoseUpdate \/ Crash \/ Restart

(***************************************************************************)
(* The machines do not stop while they have something to do, and the clock *)
(* ticks for ever.  Where the load keeps time, a period is a bounded       *)
(* number of steps of the machines, so all of them are made.               *)
(***************************************************************************)
RoutingFairness == WF_routingVars(MachineStep) /\ WF_routingVars(Tick)

RoutingSpec == RoutingInit /\ [][RoutingNext]_routingVars /\ RoutingFairness
-----------------------------------------------------------------------------
(***************************************************************************)
(* Every buffer of the pool is counted once for the table and once for     *)
(* each process that holds it: a route is not given back while somebody    *)
(* uses it, not kept when nobody does, and never in the table twice.  And  *)
(* a bucket stays sorted, longest mask first, with one route for a         *)
(* destination, so that rtget finds the most specific one.                 *)
(***************************************************************************)
Uses(m, b) ==
    Cardinality({n \in Nets : b \in Range(rt[m].chain[n])})
    + (IF rt[m].dflt = b THEN 1 ELSE 0)
    + (IF rip[m].held = b THEN 1 ELSE 0)
    + (IF ip[m].held = b THEN 1 ELSE 0)

Sorted(t, c) ==
    \A i, j \in DOMAIN c : i < j =>
        /\ c[i] # c[j]
        /\ t.buf[c[i]].dst # t.buf[c[j]].dst
        /\ Key(t.buf[c[i]].dst) >= Key(t.buf[c[j]].dst)

RoutesCounted ==
    \A m \in Machines :
        /\ \A b \in 1..load.bufs : rt[m].buf[b].ref = Uses(m, b)
        /\ \A n \in Nets : Sorted(rt[m], rt[m].chain[n])

(***************************************************************************)
(* When nothing more goes wrong, every machine ends up with a shortest way *)
(* to every network that can be reached, and without one to the others -   *)
(* whatever updates were lost and whichever gateway failed or came back    *)
(* before.  load.converges says where it is claimed: where the machines    *)
(* themselves are the only routers.                                        *)
(***************************************************************************)
Direct == {d \in up \X Nets : d[2] \in Range(Attach(d[1]))}
Wider(S) ==
    S \cup {d \in up \X Nets :
              \E g \in up \cap load.gateways :
                 <<g, d[2]>> \in S /\ Range(Attach(g)) \cap Range(Attach(d[1])) # {}}
\* Within(k) are the machines and networks no more than k hops apart.
Within(k) == FoldLeft(LAMBDA S, i : Wider(S), Direct, [i \in 1..k |-> i])

Exact(m, n) ==
    LET b == RtFind(rt[m], [net |-> n, host |-> Nobody])
    IN IF b = 0 THEN <<m, n>> \notin Within(RTM_INF - 1)
       ELSE LET d == rt[m].buf[b].metric
            IN /\ <<m, n>> \in Within(d)
               /\ d = 0 \/ <<m, n>> \notin Within(d - 1)

Converged == \A m \in up, n \in Nets : Exact(m, n)
RoutesConverge == load.converges => <>[]Converged

(***************************************************************************)
(* rip.h:29 gives an unreachable route a life time, the "zombie route      *)
(* lifetime": in the end there is none left.                               *)
(***************************************************************************)
ZombiesLeave ==
    load.converges =>
        <>[](\A m \in up, b \in 1..load.bufs : rt[m].buf[b].metric < RTM_INF)
=============================================================================
