------------------------------- MODULE Service -------------------------------
(***************************************************************************)
(* What the queue promises to those who call the model: whoever finds room *)
(* stands in line, the most urgent is served next and nobody beside him,   *)
(* nobody is served who has left, and an answer comes from a service that  *)
(* is over.  Only a service that closes turns anybody away, and once it is *)
(* closed nobody is served.                                                *)
(***************************************************************************)
EXTENDS Naturals

CONSTANTS Request, Priority     \* the calls; a smaller priority is more urgent

VARIABLES
    call,       \* call[r]: how far the call has come
    busy,       \* the calls the model is at work on
    door        \* open, closing or closed

service == <<call, busy, door>>

Init == call = [r \in Request |-> "none"] /\ busy = {} /\ door = "open"

Turn(r, to) == call' = [call EXCEPT ![r] = to]

Ask(r) == /\ \/ call[r] = "none" /\ Turn(r, "at the door")
             \/ call[r] \in {"none", "at the door"} /\ Turn(r, "in line")
          /\ UNCHANGED <<busy, door>>

InLine == {r \in Request : call[r] = "in line"}

Serve(r) ==
    /\ busy = {} /\ door # "closed"
    /\ r \in InLine /\ \A s \in InLine : Priority[r] <= Priority[s]
    /\ Turn(r, "served") /\ busy' = {r}
    /\ UNCHANGED door

Finish(r) == r \in busy /\ busy' = busy \ {r} /\ UNCHANGED <<call, door>>

\* The answer is there, or there is none because the service closes.
Settle(r) ==
    /\ call[r] = "served" /\ r \notin busy
    /\ Turn(r, "ready") \/ (door # "open" /\ Turn(r, "turned away"))
    /\ UNCHANGED <<busy, door>>

Return(r) == /\ \/ call[r] = "ready" /\ Turn(r, "answered")
                \/ call[r] = "turned away" /\ Turn(r, "refused")
             /\ UNCHANGED <<busy, door>>

\* The caller gives up; the model may still be at work on the call.
Leave(r) ==
    /\ call[r] \in {"at the door", "in line", "served", "ready", "turned away"}
    /\ Turn(r, "gone")
    /\ UNCHANGED <<busy, door>>

Shut == door = "open" /\ door' = "closing" /\ UNCHANGED <<call, busy>>

Close ==
    /\ door = "closing" /\ busy = {}
    /\ door' = "closed"
    /\ call' = [r \in Request |-> IF r \in InLine THEN "turned away" ELSE call[r]]
    /\ UNCHANGED busy

Next == \/ Shut \/ Close
        \/ \E r \in Request : Ask(r) \/ Serve(r) \/ Finish(r) \/ Settle(r) \/ Return(r) \/ Leave(r)

Spec == Init /\ [][Next]_service

==============================================================================
