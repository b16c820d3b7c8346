-------------------------------- MODULE Mailbox --------------------------------
(***************************************************************************)
(* What ports promise: a bounded FIFO queue of messages per open port.     *)
(* Messages leave in the order they came, each once; a port never holds    *)
(* more than its capacity; closing it (for deletion or for a reset) throws *)
(* its messages away, and nothing enters or leaves while it is closed.     *)
(***************************************************************************)
EXTENDS Integers, Sequences

CONSTANTS Port, Msgs, Caps

VARIABLES open, cap, box

Init == /\ open = [t \in Port |-> FALSE]
        /\ cap = [t \in Port |-> 0]
        /\ box = [t \in Port |-> <<>>]

Open(t) == \E c \in Caps :
    /\ ~ open[t]
    /\ open' = [open EXCEPT ![t] = TRUE]
    /\ cap' = [cap EXCEPT ![t] = c]
    /\ UNCHANGED box

Put(t) == \E m \in Msgs :
    /\ open[t] /\ Len(box[t]) < cap[t]
    /\ box' = [box EXCEPT ![t] = Append(@, m)]
    /\ UNCHANGED <<open, cap>>

Take(t) ==
    /\ open[t] /\ box[t] # <<>>
    /\ box' = [box EXCEPT ![t] = Tail(@)]
    /\ UNCHANGED <<open, cap>>

Close(t) ==
    /\ open[t]
    /\ open' = [open EXCEPT ![t] = FALSE]
    /\ box' = [box EXCEPT ![t] = <<>>]
    /\ UNCHANGED cap

Next == \E t \in Port : Open(t) \/ Put(t) \/ Take(t) \/ Close(t)

MailboxSpec == Init /\ [][Next]_<<open, cap, box>>
===============================================================================
