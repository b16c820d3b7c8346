--------------------------------- MODULE Stream ---------------------------------
(***************************************************************************)
(* What TCP promises the processes at its two ends: each stream of bytes   *)
(* arrives in order, without gaps or repetitions, and the end of it is     *)
(* reported once everything that was written has been read.  The bytes of  *)
(* a stream are numbered from 1.                                           *)
(***************************************************************************)
EXTENDS Integers, Sequences, SequencesExt

CONSTANTS Stream, EOF

VARIABLES wrote,   \* how many bytes were written to each stream
          got      \* what was read from it

Ended(s) == EOF \in ToSet(got[s])

Init ==
    /\ wrote = [s \in Stream |-> 0]
    /\ got = [s \in Stream |-> <<>>]

Write(s) ==
    /\ ~ Ended(s)
    /\ wrote'[s] > wrote[s] /\ wrote' = [wrote EXCEPT ![s] = wrote'[s]]
    /\ UNCHANGED got

Read(s) ==
    /\ ~ Ended(s)
    /\ \E n \in Len(got[s]) + 1 .. wrote[s] :
           got' = [got EXCEPT ![s] = [i \in 1 .. n |-> i]]
    /\ UNCHANGED wrote

ReadEnd(s) ==
    /\ ~ Ended(s) /\ Len(got[s]) = wrote[s]
    /\ got' = [got EXCEPT ![s] = Append(@, EOF)]
    /\ UNCHANGED wrote

Next == \E s \in Stream : Write(s) \/ Read(s) \/ ReadEnd(s)

Spec == Init /\ [][Next]_<<wrote, got>>
=============================================================================
