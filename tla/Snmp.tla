-------------------------------- MODULE Snmp --------------------------------
(***************************************************************************)
(* The SNMP agent (snmpd.c, snparse.c, sna2b.c, snrslv.c, sntable.c,       *)
(* mksnmp.c, snb2a.c, snfreebl.c) and the client of the shell (x_snmp.c,   *)
(* snclient.c), which talk through datagram devices, while rows come into  *)
(* the tables of the agent and leave them.                                 *)
(*                                                                         *)
(* A request is [id, reqid, op, binds]: id tells requests apart and is not *)
(* in the packet, reqid is the clock in seconds when it was made.  A       *)
(* binding is [oid, val].  The agent answers one binding a step.           *)
(***************************************************************************)
EXTENDS Mib, Asn1, Datagrams

CONSTANTS Agent,      \* the process snmpd
          Client,     \* the shell process that asks
          SNMPPORT,
          MaxBinds,   \* bindings that fit into a datagram (IP_MAXLEN)
          Plans       \* the tables, queries and events checked

ASSUME SnmpConstants == /\ Users = {Agent, Client}
                        /\ SNMPPORT \in 1..ULPORT
                        /\ MaxBinds \in Nat \ {0}

VARIABLES agent,    \* what snmpd is doing
          client,   \* what the shell is doing
          walk,     \* history: the walk of the client through the variables
          churn     \* changes of the tables still to come

snmpVars == <<plan, tab, agent, client, walk, churn, dgVars>>

Val(type, v) == [type |-> type, v |-> v]
Null == Val("null", 0)
Binding(oid) == [oid |-> oid, val |-> Null]
NoRequest == [id |-> 0, reqid |-> 0, op |-> "none", binds |-> <<>>]

(***************************************************************************)
(* The agent.  What it takes from memory for a request is left out.        *)
(***************************************************************************)
IdleAgent == [pc |-> "read", from |-> NoAddr, query |-> NoRequest, answers |-> <<>>]

AgentStart ==
    /\ plan.queries > 0
    /\ dgmopen(Agent, SNMPPORT, NoAddr)
    /\ UNCHANGED <<plan, tab, agent, client, walk, churn>>

AgentRead ==
    /\ agent.pc = "read"
    /\ At(Agent, "open")
    /\ Goto(Agent, "receive")
    /\ UNCHANGED <<plan, tab, agent, client, walk, churn,
                   upqs, lastport, msg, net, faults>>

snparse ==
    /\ At(Agent, "got")
    /\ agent' = [pc |-> "resolve", from |-> io[Agent].from,
                 query |-> io[Agent].got, answers |-> <<>>]
    /\ io' = [io EXCEPT ![Agent].pc = "open", ![Agent].got = NoData,
                        ![Agent].from = NoAddr]
    /\ UNCHANGED <<plan, tab, client, walk, churn, upqs, lastport, msg, net, faults>>

\* One turn of snrslv: the error, the name answered, the tables.
Answer(err, oid, tables) == [err |-> err, oid |-> oid, tab |-> tables]
Found(oid) == Answer("ok", oid, tab)
NoSuch(oid) == Answer("noSuch", oid, tab)

GetNextFrom(i, oid) ==
    IF mib[i].kind \in {"aggregate", "leaf"} THEN Found(GetFirst(NextNode[i]))
    ELSE IF oid = mib[i].oid THEN Found(GetFirst(i))
    ELSE Found(GetNext(mib[i].kind, oid))

SetAt(i, oid, val) ==
    LET n == mib[i]
        r == SetTable(n.kind, oid, val)
    IN IF n.kind = "leaf" THEN Answer(SetLeaf(n, val), oid, tab)
       ELSE IF n.kind = "aggregate" \/ oid = n.oid THEN Answer("noSuch", oid, tab)
       ELSE Answer(r.err, oid, r.tab)

Resolve(op, b) ==
    LET is == getmib(b.oid)
        i  == CHOOSE x \in is : TRUE
    IN IF is = {} THEN NoSuch(b.oid)
       ELSE IF op = "getnext" THEN GetNextFrom(i, b.oid)
       ELSE IF op = "set" THEN SetAt(i, b.oid, b.val)
       ELSE IF ValueType(b.oid) = "none" THEN NoSuch(b.oid)
       ELSE Found(b.oid)

\* The name that follows the last one is none, too.
Error(r) == IF r.oid = <<>> THEN "noSuch" ELSE r.err

Gone == [IdleAgent EXCEPT !.pc = "gone"]

\* The answer is written, or there is no route for it: then snmpd returns.
AgentDone(req, pc) ==
    \/ /\ dgwrite(Agent, agent.from, req, pc)
       /\ agent' = IdleAgent
    \/ /\ Fault("route")
       /\ agent' = Gone
       /\ UNCHANGED <<upqs, lastport, msg, io, net>>

LeafNames == {mib[i].oid : i \in {j \in DOMAIN mib : mib[j].kind = "leaf"}}
Names(tables) ==
    LeafNames
    \cup UNION {{Name(t, f, k) : f \in 1..NumFields(t), k \in KeysIn(tables, t)} :
                t \in Tables}

\* History: what stays, and whether a name that is there was told to be the
\* last one.
Watched(tables, err, oid) ==
    [walk EXCEPT !.stays = IF tables = tab THEN @ ELSE @ \cap Names(tables),
                 !.ended = @ \/ (err = "noSuch" /\ agent.query.op = "getnext"
                                 /\ oid \in Names(tab))]

\* An error is answered with the query itself and the error in it; the
\* bindings before it keep what was SET.
snrslv ==
    /\ agent.pc = "resolve"
    /\ Len(agent.answers) < Len(agent.query.binds)
    /\ \E b \in {agent.query.binds[Len(agent.answers) + 1]} :
       \E r \in {Resolve(agent.query.op, b)} :
          /\ tab' = r.tab
          /\ walk' = Watched(r.tab, Error(r), b.oid)
          /\ IF Error(r) # "ok"
             THEN AgentDone([agent.query EXCEPT !.op = Error(r)], "receive")
             ELSE /\ agent' = [agent EXCEPT !.answers = Append(@, Binding(r.oid))]
                  /\ UNCHANGED dgVars
    /\ UNCHANGED <<plan, client, churn>>

Resolved == /\ agent.pc = "resolve"
            /\ Len(agent.answers) = Len(agent.query.binds)

mksnmp ==
    /\ Resolved
    /\ Len(agent.answers) <= MaxBinds
    /\ AgentDone([agent.query EXCEPT !.op = "ok", !.binds = agent.answers], "receive")
    /\ UNCHANGED <<plan, tab, client, walk, churn>>

\* An answer that is too big has the length SYSERR, with which dgwrite fails:
\* snmpd returns, too.
AgentGone ==
    /\ Resolved
    /\ Len(agent.answers) > MaxBinds
    /\ agent' = Gone
    /\ UNCHANGED <<plan, tab, client, walk, churn, dgVars>>

(***************************************************************************)
(* The client: one command after the other, each a list of names or, for   *)
(* "next" alone, the name of the last answer (lastobjid).                  *)
(***************************************************************************)
Server == [sys |-> Home[Agent], port |-> SNMPPORT]

NextOne == [op |-> "getnext", binds |-> <<>>]
Command == IF client.asked < Len(plan.script) THEN plan.script[client.asked + 1]
           ELSE NextOne
Request(reqid) ==
    [id |-> client.asked + 1, reqid |-> reqid, op |-> Command.op,
     binds |-> IF Command.binds = <<>> THEN <<Binding(client.last)>>
               ELSE Command.binds]

\* sendquery and the first part of snclient.
sendquery ==
    /\ client.pc = "idle"
    /\ client.asked < plan.queries
    /\ io[Agent].pc # "closed"
    /\ ~walk.ended
    /\ \E reqid \in {client.clock + t : t \in plan.seconds} :
          client' = [client EXCEPT !.pc = "ask", !.req = Request(reqid),
                                   !.clock = reqid, !.asked = @ + 1,
                                   !.again = FALSE]
    /\ dgmopen(Client, ANYLPORT, Server)
    /\ UNCHANGED <<plan, tab, agent, walk, churn>>

snclientWrite ==
    /\ client.pc = "ask"
    /\ At(Client, "open")
    /\ dgwrite(Client, Server, client.req, "check")
    /\ client' = [client EXCEPT !.pc = "answer"]
    /\ UNCHANGED <<plan, tab, agent, walk, churn>>

\* The command ends; last is what "next" will ask after.
Done(last, w) ==
    /\ client' = [client EXCEPT !.pc = "idle", !.again = FALSE, !.last = last,
                                !.req = NoRequest]
    /\ walk' = w
    /\ dgclose(Client)
    /\ UNCHANGED <<plan, tab, agent, churn>>

Asked == client.req.binds[1].oid

\* dgmopen failed, or there is no route for what is to be written.
snclientFails ==
    /\ \/ At(Client, "failed") /\ UNCHANGED faults
       \/ client.pc = "ask" /\ At(Client, "open") /\ Fault("route")
    /\ client' = [client EXCEPT !.pc = "idle", !.last = Asked, !.req = NoRequest]
    /\ upqs' = IF At(Client, "failed") THEN upqs ELSE Closed(Client)
    /\ io' = [io EXCEPT ![Client] = NoCall]
    /\ UNCHANGED <<plan, tab, agent, walk, churn, lastport, msg, net>>

\* The first timeout reads again, the second is no response.
BugsnclientAgain ==    \* (for QueryEnds) tries for ever
    /\ At(Client, "timeout")
    /\ Goto(Client, "check")
    /\ UNCHANGED <<plan, tab, agent, client, walk, churn,
                   upqs, lastport, msg, net, faults>>
snclientAgain ==
    /\ At(Client, "timeout")
    /\ ~client.again
    /\ client' = [client EXCEPT !.again = TRUE]
    /\ Goto(Client, "check")
    /\ UNCHANGED <<plan, tab, agent, walk, churn,
                   upqs, lastport, msg, net, faults>>

snclientGivesUp ==
    /\ \/ At(Client, "timeout") /\ client.again
       \/ At(Client, "syserr")
    /\ Done(Asked, walk)

Accepts == /\ client.pc = "answer"
           /\ io[Client].got.reqid = client.req.reqid

\* The answer to a GETNEXT with one name moves the walk on.
Step(r) == IF r.op = "ok" /\ client.req.op = "getnext"
           THEN [walk EXCEPT !.at = r.binds[1].oid,
                             !.seen = @ \cup {r.binds[1].oid}]
           ELSE walk

snclientAnswer ==
    /\ client.pc = "answer"
    /\ At(Client, "got")
    /\ LET r == io[Client].got
       IN IF Accepts THEN Done(r.binds[1].oid, Step(r)) ELSE Done(Asked, walk)

(***************************************************************************)
(* Rows come and go.  Only the agent looks at the tables: what changes     *)
(* between two of its looks may as well change just before the second.     *)
(* The variables that are there since the walk began are walk.stays.       *)
(***************************************************************************)
Churn ==
    /\ churn > 0
    /\ agent.pc = "resolve"
    /\ churn' = churn - 1
    /\ \E c \in plan.churn :
          /\ tab[c.t][c.s] # c.row
          /\ tab' = [tab EXCEPT ![c.t][c.s] = c.row]
    /\ walk' = [walk EXCEPT !.stays = @ \cap Names(tab')]
    /\ UNCHANGED <<plan, agent, client, dgVars>>

(***************************************************************************)
(* recvtim runs out when no answer can come any more, or earlier than the  *)
(* answer, which is a fault.                                               *)
(***************************************************************************)
Quiet == /\ \A d \in net : d.to # Server /\ d.to # HereIs(Client)
         /\ agent.pc = "gone" \/ (agent.pc = "read" /\ ~At(Agent, "got")
                                  /\ Entry(Agent).q = <<>>)

Timeout ==
    /\ ReadTimeout(Client)
    /\ \/ Quiet /\ UNCHANGED faults
       \/ Fault("slow")
    /\ UNCHANGED <<plan, tab, agent, client, walk, churn>>

SnmpInit ==
    /\ plan \in Plans
    /\ tab = plan.tab
    /\ agent = IdleAgent
    /\ client = [pc |-> "idle", req |-> NoRequest, again |-> FALSE,
                 last |-> plan.start, asked |-> 0, clock |-> 1]
    /\ walk = [at |-> plan.start, seen |-> {}, stays |-> Names(plan.tab),
               ended |-> FALSE]
    /\ churn = plan.churns
    /\ DatagramsInit(plan.busy)
    /\ faults = plan.faults

Deliver(s) == udp_in(s) /\ UNCHANGED <<plan, tab, agent, client, walk, churn>>
Misdeliver == /\ LoseDatagram \/ RepeatDatagram
              /\ UNCHANGED <<plan, tab, agent, client, walk, churn>>

AgentStep  == AgentStart \/ AgentRead \/ snparse \/ snrslv \/ mksnmp \/ AgentGone
ClientStep == \/ snclientWrite \/ snclientFails \/ snclientAgain
              \/ snclientGivesUp \/ snclientAnswer
DeviceStep(u) == /\ ReadStep(u) \/ upalloc(u)
                 /\ UNCHANGED <<plan, tab, agent, client, walk, churn>>

(***************************************************************************)
(* The systems and the network do not stop while they can do something;    *)
(* nobody has to ask, to lose a datagram or to change a table.  Weak       *)
(* fairness of the steps together is enough, for a query is a bounded      *)
(* number of them.                                                         *)
(***************************************************************************)
SystemStep == \/ AgentStep \/ ClientStep \/ Timeout
              \/ \E u \in Users : DeviceStep(u)
              \/ \E s \in Systems : Deliver(s)

SnmpNext == SystemStep \/ sendquery \/ Misdeliver \/ Churn

SnmpFairness == WF_snmpVars(SystemStep)

SnmpSpec == SnmpInit /\ [][SnmpNext]_snmpVars /\ SnmpFairness
-----------------------------------------------------------------------------
(***************************************************************************)
(* A walk: the client asks with "next" for the name after the last answer, *)
(* over a network that loses and repeats datagrams, while rows come and    *)
(* go.  It never passes over a variable that was there all the time, and   *)
(* when the agent says that there is no name after one it has, there is    *)
(* none.                                                                   *)
(***************************************************************************)
WalkExact ==
    plan.walks =>
        \A m \in walk.stays \ walk.seen :
            Lex(plan.start, m) => Lex(walk.at, m) /\ ~walk.ended

(***************************************************************************)
(* An answer that the client takes for its own is the answer to what it    *)
(* asked, though ids of requests made in the same second are the same and  *)
(* answers come late and twice: no two requests use the same port.         *)
(***************************************************************************)
ReplyBelongs ==
    At(Client, "got") /\ Accepts => io[Client].got.id = client.req.id

(***************************************************************************)
(* A query ends, with or without an answer - when no message of an earlier *)
(* read was left for the client.                                           *)
(***************************************************************************)
QueryEnds ==
    client.pc = "ask" /\ Client \notin msg ~> client.pc = "idle"

\* snclient.c:41 says of the two reads "retry once, on timeout".
QueryAlwaysEnds == client.pc = "ask" ~> client.pc = "idle"

\* What the codec writes it reads again.
CodecReadsBack == \A n \in plan.numbers : ReadsBack(n)
=============================================================================
