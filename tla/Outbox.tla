-------------------------------- MODULE Outbox --------------------------------
(***************************************************************************)
(* What a durable delivery promises: a message of several parts is told to *)
(* the chat in order, each part at least once, until the message has been  *)
(* delivered whole or is given up.                                         *)
(***************************************************************************)
EXTENDS Naturals

CONSTANT N      \* the number of parts of the message

VARIABLES
    stage,      \* what has become of the message
    told,       \* the parts the chat has shown
    kept        \* the parts known to have been shown

Part == 1 .. N
outbox == <<stage, told, kept>>

Init == stage = "none" /\ told = {} /\ kept = {}

Accept == stage = "none" /\ stage' = "open" /\ UNCHANGED <<told, kept>>

\* A part is told when all the parts before it are known to have been shown;
\* a straggler may repeat a part even after the message is settled.
Tell(p) ==
    /\ stage # "none"
    /\ \A q \in Part : q < p => q \in kept
    /\ told' = told \cup {p}
    /\ UNCHANGED <<stage, kept>>

Keep(p) == stage = "open" /\ p \in told /\ kept' = kept \cup {p} /\ UNCHANGED <<stage, told>>

Deliver == stage = "open" /\ kept = Part /\ stage' = "delivered" /\ UNCHANGED <<told, kept>>

GiveUp == stage = "open" /\ stage' = "dropped" /\ UNCHANGED <<told, kept>>

Next == Accept \/ Deliver \/ GiveUp \/ \E p \in Part : Tell(p) \/ Keep(p)

Spec == Init /\ [][Next]_outbox

===============================================================================
