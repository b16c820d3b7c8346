------------------------------ MODULE MCMessaging ------------------------------
(* Pools alone, ports alone, and datagram buffers passing through a port,    *)
(* with and without kills.  Processes are alike, so they are symmetric.      *)
EXTENDS Messaging, TLC

Load(calls, sizes, caps, ports) ==
    [calls |-> calls, sizes |-> sizes, caps |-> caps, atOnce |-> ports]

MCWorkloads == {Load({"pools"}, {1, 2}, {}, 0), Load({"pools", "kill"}, {1, 2}, {}, 0),
                Load({"ports"}, {}, {2}, 2), Load({"ports", "kill"}, {}, {1}, 2),
                Load({"pools", "ports"}, {2}, {2}, 1)}
MCMsgs == Buffer
Symmetry == Permutations(Proc)
===============================================================================
