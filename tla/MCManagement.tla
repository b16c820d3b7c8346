---------------------------- MODULE MCManagement ----------------------------
(* What the machines are used for: walks, queries, sets and numbers for the  *)
(* agent and the client, and small nets of gateways for the routing tables.  *)
EXTENDS Management, TLC

CONSTANTS A, B, C, X,   \* machines of the routing loads
          S, K          \* machines of the agent and of the client

HomeDef == (Agent :> S) @@ (Client :> K)

ArpRow(a) == [used |-> TRUE, ifn |-> 1, pra |-> a]
RtRow(n)  == [used |-> TRUE, net |-> n]
TcRow(k)  == [used |-> TRUE, key |-> k]
SomeRows == [at |-> <<ArpRow(12), ArpRow(11)>>, rt |-> <<RtRow(20), Free>>,
             tc |-> <<TcRow(<<10, 5>>), Free>>]
SomeChanges == {[t |-> "at", s |-> 1, row |-> Free],
                [t |-> "rt", s |-> 2, row |-> RtRow(15)],
                [t |-> "rt", s |-> 1, row |-> Free],
                [t |-> "tc", s |-> 2, row |-> TcRow(<<10, 6>>)]}

NoFaults == [lose |-> 0, repeat |-> 0, route |-> 0, slow |-> 0]
NoPlan == [addrs |-> <<10>>, zero |-> 3, tab |-> SomeRows, queries |-> 0,
           script |-> <<>>, start |-> <<3>>, walks |-> FALSE, seconds |-> {0},
           busy |-> S :> <<>> @@ K :> <<>>, churn |-> SomeChanges, churns |-> 0, faults |-> NoFaults,
           numbers |-> {}]

\* Walks through the variables: of all tables while one row changes, of the
\* last two while two do, and over a network that loses a datagram.
FullWalk == [NoPlan EXCEPT !.walks = TRUE, !.queries = 19, !.churns = 1]
LateChanges == {c \in SomeChanges : c.t # "at"}
ShortWalk == [FullWalk EXCEPT !.start = <<4, 21>>, !.queries = 9, !.churns = 2,
                !.churn = LateChanges]
LossyWalk == [FullWalk EXCEPT !.start = <<6>>, !.queries = 6, !.faults.lose = 1,
                !.churn = LateChanges]

\* Two queries, perhaps in the same second, over a bad network.
Bad == [NoPlan EXCEPT !.queries = 2, !.seconds = {0, 1}, !.busy[K] = <<ULPORT + 1>>,
           !.faults = [lose |-> 1, repeat |-> 1, route |-> 0, slow |-> 1]]
Unroutable == [Bad EXCEPT !.faults = [lose |-> 0, repeat |-> 1, route |-> 1, slow |-> 1]]

NoDevice == [NoPlan EXCEPT !.queries = 1, !.busy[K] = <<1, 2>>]

\* What is read and SET.
Ask(op, bs) == [op |-> op, binds |-> bs]
Set(oid, type, v) == [oid |-> oid, val |-> Val(type, v)]
Script(qs) == [NoPlan EXCEPT !.script = qs, !.queries = Len(qs)]
Row(t, f, key) == Name(t, f, key)
Sets == Script(<<
    Ask("set", <<Set(<<4, 2, 0>>, "int", 1), Set(Row("if", 2, <<1>>), "int", 1),
                 Set(Row("at", 1, <<1, 1, 11>>), "int", 1)>>),
    Ask("set", <<Set(Row("rt", 2, <<20>>), "int", 2), Set(<<1, 1, 0>>, "str", 1)>>),
    Ask("get", <<Binding(<<1, 1, 0>>), Binding(Row("rt", 1, <<20>>))>>)>>)
Renames == Script(<<
    Ask("set", <<Set(Row("rt", 1, <<20>>), "ip", 30)>>),
    Ask("set", <<Set(Row("at", 3, <<1, 1, 11>>), "ip", 14)>>),
    Ask("set", <<Set(Row("at", 2, <<1, 1, 14>>), "int", 0)>>),
    Ask("getnext", <<Binding(Row("at", 1, <<>>)), Binding(Row("rt", 2, <<>>))>>)>>)
Refused == Script(<<
    Ask("set", <<Set(<<4, 2, 0>>, "str", 1)>>),
    Ask("set", <<Set(<<4>>, "int", 1)>>),
    Ask("set", <<Set(Row("ae", 1, <<10>>), "ip", 1)>>),
    Ask("get", <<Binding(<<9, 9, 9>>)>>),
    Ask("getnext", <<Binding(<<1>>), Binding(<<2>>), Binding(<<3>>)>>)>>)
Unanswered == [Refused EXCEPT !.faults.route = 1]
TwoInterfaces == [Script(<<
    Ask("getnext", <<Binding(Row("at", 1, <<1>>)), Binding(Row("ae", 1, <<>>))>>),
    Ask("getnext", <<Binding(Row("at", 1, <<1, 1, 12>>))>>)>>)
    EXCEPT !.addrs = <<10, 11>>]

Numbers == [NoPlan EXCEPT !.numbers = (1 - BYTE4_HIBIT)..(BYTE4_HIBIT - 1)]

SnmpPlans == {FullWalk, ShortWalk, LossyWalk, Bad, Unroutable, NoDevice, Sets, Renames,
              Refused, Unanswered, TwoInterfaces, Numbers, NoPlan}

-----------------------------------------------------------------------------
NetsDef == 1..3

Base(att) == [NobodyRoutes EXCEPT !.attach = att, !.gateways = DOMAIN att,
                !.static = [m \in Machines |-> <<>>], !.bufs = 6,
                !.converges = TRUE]

\* Three gateways in a line; the first fails and comes back, or does not.
InLine == A :> <<1, 2>> @@ B :> <<2, 3>> @@ C :> <<3>>
Line == [Base(InLine) EXCEPT !.frail = {A}, !.events.crashes = 1,
                             !.events.restarts = 1]
\* Two, and an update is lost.
Two == [Base(A :> <<1, 2>> @@ B :> <<2, 3>>) EXCEPT
           !.frail = {A}, !.events.crashes = 1, !.events.restarts = 1,
           !.events.losses = 1]

\* One gateway and a router that sends what it likes at any time; the pool
\* has one buffer more than the routes.
Dest(n, m) == [dst |-> NetOf(n), metric |-> m]
ToDefault  == [dst |-> Default, metric |-> 2]
ToHost     == [dst |-> HostOf(3, X), metric |-> 1]
Loose == [Base(A :> <<1, 2>>) EXCEPT
             !.bufs = 4, !.timely = FALSE, !.converges = FALSE,
             !.updates = {<<Dest(3, 1), ToDefault>>,
                          <<Dest(3, 2), Dest(3, RTM_INF + 1)>>,
                          <<Dest(3, RTM_INF), ToHost>>},
             !.packets = {[src |-> A, dst |-> [net |-> 3, host |-> X]]},
             !.events.updates = 2, !.events.packets = 1]

\* A host whose gateway knows a better router for a host or a network.
Static(dst, gw) == Route(dst, gw, 1, 1, RT_INF)
Redirected(dst) ==
    [Base(A :> <<1>> @@ B :> <<1, 2>>) EXCEPT
        !.bufs = 5, !.gateways = {B}, !.converges = FALSE,
        !.static = A :> <<Static(Default, B)>> @@ B :> <<Static(dst, X)>>,
        !.packets = {[src |-> A, dst |-> [net |-> 3, host |-> X]]},
        !.events.packets = 2]

RoutingLoads == {Line, Two, Loose, Redirected(HostOf(3, X)), Redirected(NetOf(3)),
                 Redirected(Default), NobodyRoutes}
===============================================================================
