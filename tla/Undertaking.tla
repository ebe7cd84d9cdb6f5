----------------------------- MODULE Undertaking -----------------------------
(***************************************************************************)
(* What the bot promises of a message: it is answered, or a plan is        *)
(* proposed for it.  A plan is carried out with the user's consent only,   *)
(* no part of it twice; a project gets its tasks after it exists, by one   *)
(* cut.  The plan stays open while parts of it are left, with or without   *)
(* the consent, until the user gives it up; carried out whole or given up, *)
(* it never begins again.                                                  *)
(***************************************************************************)
EXTENDS Naturals

CONSTANTS Action, Project   \* the actions of a plan; those that create a project

VARIABLES
    stage,      \* what has become of the message
    consent,    \* does the user consent to processing?
    done,       \* done[a]: how often action a was carried out
    cut,        \* the projects whose cut into tasks is settled
    tasks       \* tasks[p]: how often the tasks of project p were saved

undertaking == <<stage, consent, done, cut, tasks>>

Init ==
    /\ stage = "new" /\ consent = TRUE
    /\ done = [a \in Action |-> 0] /\ cut = {} /\ tasks = [p \in Project |-> 0]

Consent == consent' = ~consent /\ UNCHANGED <<stage, done, cut, tasks>>

Answer == stage = "new" /\ stage' = "answered" /\ UNCHANGED <<consent, done, cut, tasks>>

Propose ==
    /\ stage = "new" /\ consent
    /\ stage' = "open"
    /\ UNCHANGED <<consent, done, cut, tasks>>

Underway == stage = "open" /\ consent

Do(a) ==
    /\ Underway /\ done[a] = 0
    /\ done' = [done EXCEPT ![a] = 1]
    /\ UNCHANGED <<stage, consent, cut, tasks>>

Cut(p) ==
    /\ Underway /\ done[p] = 1 /\ p \notin cut
    /\ cut' = cut \cup {p}
    /\ UNCHANGED <<stage, consent, done, tasks>>

SaveTasks(p) ==
    /\ Underway /\ p \in cut /\ tasks[p] = 0
    /\ tasks' = [tasks EXCEPT ![p] = 1]
    /\ UNCHANGED <<stage, consent, done, cut>>

Whole == (\A a \in Action : done[a] = 1) /\ \A p \in Project : tasks[p] = 1

\* Only a whole plan is carried out, only one that is not is given up.
Settle ==
    /\ stage = "open"
    /\ \/ Whole /\ stage' = "carried out"
       \/ ~Whole /\ stage' = "given up"
    /\ UNCHANGED <<consent, done, cut, tasks>>

Next == \/ Consent \/ Answer \/ Propose \/ Settle
        \/ \E a \in Action : Do(a)
        \/ \E p \in Project : Cut(p) \/ SaveTasks(p)

Spec == Init /\ [][Next]_undertaking

==============================================================================
