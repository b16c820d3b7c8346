------------------------------- MODULE PrintQueue -------------------------------
(***************************************************************************)
(* What the spooler promises: the jobs are printed one after the other in  *)
(* the order in which they came, each as it was written, from its first    *)
(* byte on and without gaps; it may end early when it is removed or given  *)
(* up, but nothing of one job ever comes out as part of another.           *)
(***************************************************************************)
EXTENDS Integers, Sequences, SequencesExt

VARIABLES queue,  \* the jobs: their number, text to be printed, and if they are complete
          paper   \* what was printed: pairs of a job's number and a byte

Job(k) == [key |-> k, text |-> <<>>, closed |-> FALSE]
Of(k, bytes) == [i \in DOMAIN bytes |-> <<k, bytes[i]>>]

Init == queue = <<>> /\ paper = <<>>

(* What may become of the queue old: all but printing leaves the paper alone. *)

Submitted(old, new) ==
    Len(new) = Len(old) + 1 /\ new = Append(old, Job(Last(new).key))

Changed(old, new, i) ==
    Len(new) = Len(old) /\ new = [old EXCEPT ![i].text = new[i].text, ![i].closed = new[i].closed]

Written(old, new, i) ==
    /\ Changed(old, new, i) /\ new[i].closed = old[i].closed
    /\ ~ old[i].closed /\ IsStrictPrefix(old[i].text, new[i].text)

Closed(old, new, i) ==
    /\ Changed(old, new, i) /\ new[i].text = old[i].text
    /\ ~ old[i].closed /\ new[i].closed

CutOff(old, new, i) ==
    Changed(old, new, i) /\ new[i].closed /\ IsPrefix(new[i].text, old[i].text)

(* A job leaves when it is finished; or before that, removed or given up. *)
Left(old, new, i) == Len(new) = Len(old) - 1 /\ new = RemoveAt(old, i)

Printed(old, new) ==
    /\ old # <<>> /\ Len(new) = Len(old)
    /\ \E n \in 1 .. Len(old[1].text) :
           /\ new = [old EXCEPT ![1].text = SubSeq(@, n + 1, Len(@))]
           /\ paper' = paper \o Of(old[1].key, SubSeq(old[1].text, 1, n))

Next ==
    \E old \in {queue}, new \in {queue'} :
        \/ Printed(old, new)
        \/ /\ UNCHANGED paper
           /\ \/ Submitted(old, new)
              \/ \E i \in DOMAIN old : \/ Written(old, new, i) \/ Closed(old, new, i)
                                       \/ CutOff(old, new, i) \/ Left(old, new, i)

Spec == Init /\ [][Next]_<<queue, paper>>
=============================================================================
