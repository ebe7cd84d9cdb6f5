-------------------------------- MODULE Alarms --------------------------------
(***************************************************************************)
(* What the bot promises of its alarms.  An alarm counts as told only when *)
(* its message has appeared since its time was last set; until then it     *)
(* waits, or has visibly failed and can be set again.  A recurring alarm   *)
(* is told and followed by the next one of its series in one step, and     *)
(* nothing else takes it out of its series.  The message may appear more   *)
(* often than once, and later than it should.                              *)
(***************************************************************************)
EXTENDS Naturals

CONSTANTS Alarm, Time

VARIABLES
    alarm,  \* alarm[r]: its stage, its time, does it repeat, its series
    seen    \* the alarms whose message has appeared

alarms == <<alarm, seen>>

Is(r, stages) == alarm[r].stage \in stages

New(at, repeats, series) ==
    [stage |-> "waiting", at |-> at, repeats |-> repeats, series |-> series]

Init ==
    /\ alarm = [r \in Alarm |-> [stage |-> "none", at |-> 0, repeats |-> FALSE, series |-> r]]
    /\ seen = {}

Set(r) ==
    /\ Is(r, {"none"})
    /\ \E at \in Time, repeats \in BOOLEAN : alarm' = [alarm EXCEPT ![r] = New(at, repeats, r)]
    /\ UNCHANGED seen

\* The message appears; who sent it knows, or does not, or is no longer in charge.
Ring(r) ==
    /\ ~Is(r, {"none"})
    /\ seen' = seen \cup {r}
    /\ \/ UNCHANGED alarm
       \/ Is(r, {"waiting"}) /\ alarm' = [alarm EXCEPT ![r].stage = "heard"]

\* Nobody knows any more that these have appeared: they will appear again.
Forget(lost) ==
    /\ \A r \in lost : Is(r, {"heard"})
    /\ alarm' = [r \in Alarm |-> IF r \in lost THEN [alarm[r] EXCEPT !.stage = "waiting"]
                                               ELSE alarm[r]]
    /\ UNCHANGED seen

Told(r) == Is(r, {"heard"}) /\ r \in seen /\ UNCHANGED seen

Record(r) == /\ Told(r) /\ ~alarm[r].repeats
             /\ alarm' = [alarm EXCEPT ![r].stage = "told"]

\* A recurring alarm hands its series over to the next, never to an earlier time.
Continue(r, next) ==
    /\ Told(r) /\ alarm[r].repeats /\ Is(next, {"none"})
    /\ \E at \in Time :
          /\ at >= alarm[r].at
          /\ alarm' = [alarm EXCEPT ![r].stage = "told",
                                    ![next] = New(at, TRUE, alarm[r].series)]

Fail(r) == /\ Is(r, {"waiting"})
           /\ alarm' = [alarm EXCEPT ![r].stage = "failed"]
           /\ UNCHANGED seen

Retry(r) == /\ Is(r, {"failed"})
            /\ alarm' = [alarm EXCEPT ![r].stage = "waiting"]
            /\ UNCHANGED seen

\* Another time, for an alarm that no series depends on any more.
Postpone(r) ==
    /\ Is(r, {"told", "closed"}) \/ (~Is(r, {"none"}) /\ ~alarm[r].repeats)
    /\ \E at \in Time : alarm' = [alarm EXCEPT ![r] = New(at, FALSE, @.series)]
    /\ UNCHANGED seen

\* Alarms are done with, or their task is, and the next task's alarm is set.
Close(over, set) ==
    /\ \A r \in over : Is(r, {"told"}) \/ (~Is(r, {"none"}) /\ ~alarm[r].repeats)
    /\ \A r \in set : Is(r, {"none"})
    /\ alarm' = [r \in Alarm |-> IF r \in over THEN [alarm[r] EXCEPT !.stage = "closed"]
                                 ELSE IF r \in set THEN New(0, FALSE, r)
                                 ELSE alarm[r]]
    /\ UNCHANGED seen

Next == \/ \E r \in Alarm : \/ Set(r) \/ Ring(r) \/ Record(r) \/ Fail(r) \/ Retry(r) \/ Postpone(r)
                            \/ \E next \in Alarm : Continue(r, next)
        \/ \E lost \in SUBSET Alarm : Forget(lost)
        \/ \E over, set \in SUBSET Alarm : Close(over, set)

Spec == Init /\ [][Next]_alarms

==============================================================================
