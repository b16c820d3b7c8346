-------------------------------- MODULE Internet --------------------------------
(***************************************************************************)
(* The network system of xinu/ipnet/common as a whole: IP with ARP and     *)
(* reassembly (module Network), and TCP above it (module Tcp).             *)
(* What IP does to segments on their way - lose, repeat and reorder them - *)
(* is the network of module Tcp; the layers share nothing else than the    *)
(* buffers and the processor, so a workload is one of a layer, and the     *)
(* others are at rest in it.                                               *)
(***************************************************************************)
EXTENDS Network, Tcp

internetVars == <<vars, tcpVars>>

NoTraffic == [bufs |-> {}, sent |-> {}, arrive |-> {}, arp |-> {}, senders |-> {}, timers |-> FALSE]
NoTcp == [listen |-> {}, lqsize |-> 0, opens |-> [h \in Host |-> 0],
          bytes |-> [h \in Host |-> 0], closing |-> {}, patient |-> {}, chunk |-> 1,
          unlisten |-> {}, opts |-> {}, races |-> FALSE, faults |-> 0]

ASSUME InternetAssumption == NoTraffic \in Workloads /\ NoTcp \in TcpLoads

InternetInit ==
    /\ Init /\ TcpInit
    /\ (load = NoTraffic) # (tcpload = NoTcp)

InternetNext ==
    \/ tcpload = NoTcp /\ Next /\ UNCHANGED tcpVars
    \/ load = NoTraffic /\ TcpNext /\ UNCHANGED vars

InternetSpec ==
    InternetInit /\ [][InternetNext]_internetVars /\ WF_vars(slowtimer)
=============================================================================
