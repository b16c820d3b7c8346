------------------------------ MODULE MCKernel ------------------------------
(* Instances of Kernel for TLC: the workloads of each run.  One workload      *)
(* exercises one group of system calls against the clock, so that each group  *)
(* can have the processes, priorities and delays its hazards need.            *)
EXTENDS Kernel

Load(board, calls, prios, delays, msgs, kin, stacks) ==
    [board |-> board, calls |-> calls, prios |-> prios, delays |-> delays,
     msgs |-> msgs, kin |-> kin, stacks |-> stacks]

Start == {"create", "resume"}
ProcCalls == Start \cup {"kill", "suspend", "chprio", "tick"}
KinCalls == Start \cup {"kill", "setnok", "receive"}
SemCalls == Start \cup {"kill", "screate", "sdelete", "wait", "signal",
                        "signaln", "sreset"}
MsgCalls == Start \cup {"kill", "send", "receive", "recvclr"}
WaitCalls == Start \cup {"sleep10", "recvtim", "send", "tick"}
DeferCalls == Start \cup {"sleep10", "stopclk", "strtclk", "tick"}

SafetyLoads ==
    {Load("mio", ProcCalls, {0, 1, 2}, {}, {}, {}, 2),
     Load("sun350", KinCalls, {1}, {}, {}, {NPROC - 1, BADPID}, 1),
     Load("sun350", SemCalls, {1}, {}, {}, {}, 1),
     Load("sun350", MsgCalls, {1}, {}, {7, 8}, {}, 1),
     Load("sun350", Start \cup {"sendf", "recvtim", "tick"}, {1}, {1}, {7}, {}, 1),
     Load("mio", WaitCalls, {1}, {1, 3}, {7}, {}, 2),
     Load("sun350", WaitCalls \cup {"kill"}, {1}, {0, 2}, {7}, {}, 1),
     Load("sun350", DeferCalls, {1}, {1, 2}, {}, {}, 1)}

LivenessLoads ==
    {Load("sun350", Start \cup {"sleep10", "tick"}, {1}, {1, 2}, {}, {}, 2),
     Load("mio", WaitCalls, {1}, {1, 2}, {7}, {}, 1)}

KinLoads == {Load("sun350", KinCalls, {1, 2}, {}, {}, {NPROC - 1}, 1)}
=============================================================================
