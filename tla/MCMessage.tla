------------------------------- MODULE MCMessage -------------------------------
(***************************************************************************)
(* The journal of a request and the queue it waits in for the language     *)
(* model share no variable: one run explores each of them in full while    *)
(* the other rests.                                                        *)
(***************************************************************************)
EXTENDS Requests, MCLLMQueue

VARIABLE part   \* the module that moves

messageVars == <<part, vars, queueVars>>

MessageInit == part \in {"journal", "queue"} /\ Init /\ QueueInit

MessageNext ==
    /\ UNCHANGED part
    /\ \/ part = "journal" /\ Next /\ UNCHANGED queueVars
       \/ part = "queue" /\ QueueNext /\ UNCHANGED vars

\* Where a module rests, none of its fair actions is enabled.
MessageSpec == MessageInit /\ [][MessageNext]_messageVars /\ Fairness /\ QueueFairness
================================================================================
