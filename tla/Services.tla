-------------------------------- MODULE Services --------------------------------
(***************************************************************************)
(* The memory calls (module Memory) and the print services (Printing).     *)
(* The spooler takes all of its nodes from memory once, when it starts: the *)
(* two share nothing after that, so while there is something to print       *)
(* memory is as it was at the start, and the other way round.              *)
(***************************************************************************)
EXTENDS Memory, Printing

NothingToPrint ==
    [preempt |-> FALSE, crowd |-> FALSE, tight |-> FALSE, atnull |-> FALSE, slow |-> FALSE,
     drains |-> FALSE, conns |-> <<>>, files |-> <<>>, pages |-> 0, faults |-> 0]

ASSUME ServicesAssumption == NothingToPrint \in SpoolLoads

servicesVars == <<vars, printVars>>

ServicesInit == Init /\ PrintingInit

ServicesNext ==
    \/ spload = NothingToPrint /\ Next /\ UNCHANGED printVars
    \/ PrintingNext /\ UNCHANGED vars

ServicesSpec == ServicesInit /\ [][ServicesNext]_servicesVars /\ PrintingFairness
=============================================================================
