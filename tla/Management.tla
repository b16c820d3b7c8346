----------------------------- MODULE Management -----------------------------
(***************************************************************************)
(* The routing protocol (module Routing) and network management (Snmp).    *)
(* What the agent shows of the routing table changes under it as rows of   *)
(* the plan come and go, so while there is a query to answer no machine    *)
(* routes, and the other way round: the steps of the other are not even    *)
(* enabled, and the fairness of each says nothing about it.                *)
(***************************************************************************)
EXTENDS Routing, Snmp

NoEvents == [packets |-> 0, updates |-> 0, losses |-> 0, crashes |-> 0,
             restarts |-> 0]
NobodyRoutes ==
    [attach |-> <<>>, gateways |-> {}, static |-> <<>>, bufs |-> 0,
     timely |-> TRUE, packets |-> {}, updates |-> {}, frail |-> {},
     converges |-> FALSE, events |-> NoEvents]

ASSUME ManagementAssumption == NobodyRoutes \in Loads

Routes == load # NobodyRoutes

managementVars == <<routingVars, snmpVars>>

ManagementInit ==
    /\ RoutingInit
    /\ SnmpInit
    /\ Routes => plan.queries = 0 /\ plan.numbers = {}

ManagementNext ==
    \/ Routes /\ RoutingNext /\ UNCHANGED snmpVars
    \/ ~Routes /\ SnmpNext /\ UNCHANGED routingVars

ManagementSpec ==
    ManagementInit /\ [][ManagementNext]_managementVars
    /\ RoutingFairness /\ SnmpFairness
=============================================================================
