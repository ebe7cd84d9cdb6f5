-------------------------------- MODULE Planner --------------------------------
(***************************************************************************)
(* The planner of one user: tasks, the frog of the day, recurring series,  *)
(* projects and trips, as the user's messages and buttons change them.     *)
(*                                                                         *)
(* The updates of one user are handled one at a time (main.py builds the   *)
(* dispatcher with SimpleEventIsolation) and a change is one transaction,  *)
(* so an action is a whole handler.                                        *)
(* What makes this hard is age: a button stays in the chat after its task  *)
(* was closed, renamed or deleted, and the plan of a project's tasks is    *)
(* carried out by a later /retry.  Titles are left out: a phrase may name  *)
(* any task there is.  Alarms are the subject of Reminders.                *)
(***************************************************************************)
EXTENDS Naturals, FiniteSets

CONSTANTS
    Task, Project, Trip,    \* rows that can be created (bounds)
    None,
    MaxButtons              \* bound: how many old buttons of the chat can still be pressed

ASSUME PlannerAssumption ==
    None \notin Task \cup Project \cup Trip /\ MaxButtons \in Nat

VARIABLES
    tasks,      \* the table of tasks
    projects,   \* the status of every project
    prepared,   \* projects whose list of tasks waits in a request's plan
    trips,      \* active trips: ahead of or under way today, or over
    chat        \* buttons that can still be pressed

vars == <<tasks, projects, prepared, trips, chat>>

Status == {"none", "open", "done", "cancelled", "deleted"}

TaskRow == [status: Status, frog: BOOLEAN, repeat: BOOLEAN,
            project: Project \cup {None},
            series: Task \cup {None},   \* history: the first occurrence of its series
            revived: BOOLEAN]           \* history: reopened, or made from one reopened, in a closed project
NoTask == [status |-> "none", frog |-> FALSE, repeat |-> FALSE, project |-> None,
           series |-> None, revived |-> FALSE]

Button == [kind: {"set_frog", "frog_done", "task_done", "review", "delete_yes"}, id: Task]
          \cup [kind: {"project_yes"}, id: Project]

Init ==
    /\ tasks = [t \in Task |-> NoTask] /\ projects = [p \in Project |-> "none"]
    /\ prepared = {} /\ trips = [r \in Trip |-> "none"] /\ chat = {}

-----------------------------------------------------------------------------
(* The rows: crud/tasks.py, crud/projects.py *)

Exists(t) == tasks[t].status \in {"open", "done", "cancelled"}
Open(t) == tasks[t].status = "open"
Frog(t) == Open(t) /\ tasks[t].frog
Fresh(t) == tasks[t].status = "none"
OpenTasks(p) == {t \in Task : Open(t) /\ tasks[t].project = p}

\* set_frog and _create_new_task: the flag is taken from the open frog first.
WithoutFrog == [t \in Task |-> IF Frog(t) THEN [tasks[t] EXCEPT !.frog = FALSE] ELSE tasks[t]]

\* complete_task_workflow: the next occurrence of a recurring task.
Occurrence(t) ==
    [NoTask EXCEPT !.status = "open", !.repeat = TRUE, !.project = tasks[t].project,
                   !.series = tasks[t].series, !.revived = tasks[t].revived]

\* Mutant: the status is not looked at.
CompleteAgain(rows, t) ==
    \/ tasks' = [rows EXCEPT ![t].status = "done"]
    \/ /\ rows[t].repeat
       /\ \E next \in {u \in Task : Fresh(u)} :
             tasks' = [rows EXCEPT ![t].status = "done", ![next] = Occurrence(t)]

\* A task that is closed already stays as it is.  A rule without a date to count
\* from (the dates can be cleared) has no next occurrence.
Complete(rows, t) ==
    \/ rows[t].status # "open" /\ tasks' = rows
    \/ rows[t].status = "open" /\ tasks' = [rows EXCEPT ![t].status = "done"]
    \/ /\ rows[t].status = "open" /\ rows[t].repeat
       /\ \E next \in {u \in Task : Fresh(u)} :
             tasks' = [rows EXCEPT ![t].status = "done", ![next] = Occurrence(t)]

\* Mutant: a task that is opened again keeps its flag.
ReopenAsFrog(rows, t) ==
    /\ rows[t].status = "open" \/ ~rows[t].repeat
    /\ tasks' = [rows EXCEPT ![t].status = "open",
                             ![t].revived = @ \/ (rows[t].status # "open" /\ rows[t].project # None
                                                  /\ projects[rows[t].project] = "done")]

\* The status "open": refused for a closed occurrence of a series; never a frog.
Reopen(rows, t) ==
    /\ rows[t].status = "open" \/ ~rows[t].repeat
    /\ tasks' = [rows EXCEPT ![t].status = "open", ![t].frog = FALSE,
                             ![t].revived = @ \/ (rows[t].status # "open" /\ rows[t].project # None
                                                  /\ projects[rows[t].project] = "done")]

Cancel(rows, t) == tasks' = [rows EXCEPT ![t].status = "cancelled"]

-----------------------------------------------------------------------------
(* Buttons *)

Shown(kind, id) == [kind |-> kind, id |-> id] \in chat

\* A keyboard appears; the button of it that will be pressed is remembered.
Show(kind, id) ==
    /\ Cardinality(chat) < MaxButtons
    /\ chat' = chat \cup {[kind |-> kind, id |-> id]}

\* A press edits the message away, unless the edit fails or a second press is on its way.
Press(kind, id) ==
    /\ Shown(kind, id)
    /\ chat' \in {chat, chat \ {[kind |-> kind, id |-> id]}}

Rows == <<tasks, projects, prepared, trips>>
TasksOnly == UNCHANGED <<projects, prepared, trips>>

\* cmd_frog: the frog with "done", or open tasks to choose from.
ShowFrog(t) ==
    /\ Open(t)
    /\ \/ Frog(t) /\ Show("frog_done", t)
       \/ (\A u \in Task : ~Frog(u)) /\ Show("set_frog", t)
    /\ UNCHANGED Rows

\* cmd_done without a text, or with one that fits several tasks.
ShowDone(t) == Open(t) /\ Show("task_done", t) /\ UNCHANGED Rows

\* The evening digest asks about open tasks of the day.
ShowReview(t) == Open(t) /\ Show("review", t) /\ UNCHANGED Rows

\* _handle_delete_task asks for a confirmation; cb_delete_choose does after a choice
\* between several tasks, closed ones too.
ShowDelete(t) == Exists(t) /\ Show("delete_yes", t) /\ UNCHANGED Rows

\* cb_set_frog: any task that still exists.
SetFrog(t) ==
    /\ Press("set_frog", t) /\ Exists(t)
    /\ tasks' = [WithoutFrog EXCEPT ![t].frog = TRUE]
    /\ TasksOnly

\* cb_frog_done, cb_task_done
FrogDone(t) == Press("frog_done", t) /\ Exists(t) /\ Complete(tasks, t) /\ TasksOnly
TaskDone(t) == Press("task_done", t) /\ Exists(t) /\ Complete(tasks, t) /\ TasksOnly

\* Mutant: no expected status.
ReviewCancelAnyway(t) == Press("review", t) /\ Exists(t) /\ Cancel(tasks, t) /\ TasksOnly

\* cb_review_cancel: expected_status is "open".
ReviewCancel(t) == Press("review", t) /\ Open(t) /\ Cancel(tasks, t) /\ TasksOnly

\* cb_delete_yes
DeleteYes(t) ==
    /\ Press("delete_yes", t) /\ Exists(t)
    /\ tasks' = [tasks EXCEPT ![t] = [NoTask EXCEPT !.status = "deleted"]]
    /\ TasksOnly

\* cb_review_tomorrow moves a date of the task, which no rule here looks at.
ReviewTomorrow(t) == Press("review", t) /\ UNCHANGED Rows

\* The other buttons (no, keep), and the buttons of a task or project
\* that is gone, change nothing.
PressIdle(b) == b \in chat /\ chat' = chat \ {b} /\ UNCHANGED Rows

-----------------------------------------------------------------------------
(* Texts: dispatcher.py, application/task_creation.py *)

Said == UNCHANGED <<projects, prepared, trips, chat>>

\* _prepare_task: a rule without a date starts today.
NewTask(t, frog, repeat, project) ==
    [NoTask EXCEPT !.status = "open", !.frog = frog, !.repeat = repeat, !.project = project,
                   !.series = t]

\* execute_create_task for a title no open task has.
CreateTask(t, frog, repeat) ==
    /\ Fresh(t)
    /\ tasks' = [(IF frog THEN WithoutFrog ELSE tasks) EXCEPT ![t] = NewTask(t, frog, repeat, None)]
    /\ Said

\* ... and for one that an open task has: that task is enriched.
EnrichTask(t, frog, repeat) ==
    /\ Open(t)
    /\ tasks' = [(IF frog /\ ~tasks[t].frog THEN WithoutFrog ELSE tasks) EXCEPT
                    ![t].frog = @ \/ frog, ![t].repeat = @ \/ repeat]
    /\ Said

\* _handle_complete_task and cmd_done with a text look among open tasks only.
CompleteTask(t) == Open(t) /\ Complete(tasks, t) /\ Said
DoneCommand(t) == Open(t) /\ Complete(tasks, t) /\ Said

\* _handle_update_task: fields first, then the status.  The unique index refuses
\* a second open frog, and the call fails.
UpdateTask(t, frog, target) ==
    /\ Exists(t)
    /\ LET edited == [tasks EXCEPT ![t].frog = IF frog = "keep" THEN @ ELSE frog = "yes"]
       IN  /\ target \in {"keep", "done"} /\ Open(t) /\ edited[t].frog
              => \A u \in Task \ {t} : ~Frog(u)
           /\ CASE target = "keep" -> tasks' = edited
                [] target = "done" -> Complete(edited, t)
                [] target = "cancelled" -> Cancel(edited, t)
                [] target = "open" -> Reopen(edited, t)
    /\ Said

\* _handle_create_project, and the list of tasks the LLM then prepares for it.
CreateProject(p, list) ==
    /\ projects[p] = "none"
    /\ projects' = [projects EXCEPT ![p] = "active"]
    /\ prepared' = IF list THEN prepared \cup {p} ELSE prepared
    /\ UNCHANGED <<tasks, trips, chat>>

\* Mutant: the project is not asked whether it is still active.
SaveTasksAnyway(p, t) ==
    /\ p \in prepared /\ Fresh(t)
    /\ tasks' = [tasks EXCEPT ![t] = NewTask(t, FALSE, FALSE, p)]
    /\ prepared' = prepared \ {p}
    /\ UNCHANGED <<projects, trips, chat>>

\* create_project_tasks, at once or by a later /retry: only while the project is active.
SaveTasks(p, t) ==
    /\ p \in prepared /\ Fresh(t) /\ projects[p] = "active"
    /\ tasks' = [tasks EXCEPT ![t] = NewTask(t, FALSE, FALSE, p)]
    /\ prepared' = prepared \ {p}
    /\ UNCHANGED <<projects, trips, chat>>

\* _handle_complete_project: with open tasks left the user is asked first.
CompleteProject(p) ==
    /\ projects[p] = "active"
    /\ \/ /\ OpenTasks(p) = {}
          /\ projects' = [projects EXCEPT ![p] = "done"] /\ UNCHANGED chat
       \/ /\ OpenTasks(p) # {}
          /\ Show("project_yes", p) /\ UNCHANGED projects
    /\ UNCHANGED <<tasks, prepared, trips>>

\* cb_project_complete_yes: whatever is open by now is cancelled.
ProjectYes(p) ==
    /\ Press("project_yes", p) /\ projects[p] = "active"
    /\ projects' = [projects EXCEPT ![p] = "done"]
    /\ tasks' = [t \in Task |-> IF t \in OpenTasks(p) THEN [tasks[t] EXCEPT !.status = "cancelled"]
                                                      ELSE tasks[t]]
    /\ UNCHANGED <<prepared, trips>>

-----------------------------------------------------------------------------
(* Trips: handlers/trip.py, crud/trips.py *)

TripOnly == UNCHANGED <<tasks, projects, prepared, chat>>

\* get_open_trip: trips that are over are completed, then an active one is looked for.
WithoutExpired == [r \in Trip |-> IF trips[r] = "over" THEN "none" ELSE trips[r]]

ShowTrip == trips' = WithoutExpired /\ TripOnly

\* _trip_on: refused while another trip is open.  Its dates may all be past.
TripOn(r, today) ==
    /\ trips[r] = "none" /\ \A s \in Trip : WithoutExpired[s] = "none"
    /\ trips' = [WithoutExpired EXCEPT ![r] = today]
    /\ TripOnly

\* _trip_off
TripOff(r) == trips[r] = "ahead" /\ trips' = [WithoutExpired EXCEPT ![r] = "none"] /\ TripOnly

\* Days pass; a change of the user's time zone can turn the day back.
Day(r, today) == trips[r] # "none" /\ trips' = [trips EXCEPT ![r] = today] /\ TripOnly

-----------------------------------------------------------------------------
Offer == \E t \in Task : ShowFrog(t) \/ ShowDone(t) \/ ShowReview(t) \/ ShowDelete(t)

ByButton ==
    \/ \E t \in Task : \/ SetFrog(t) \/ FrogDone(t) \/ TaskDone(t)
                       \/ ReviewCancel(t) \/ ReviewTomorrow(t) \/ DeleteYes(t)
    \/ \E p \in Project : ProjectYes(p)
    \/ \E b \in chat : PressIdle(b)

ByText ==
    \/ \E t \in Task :
          \/ \E frog, repeat \in BOOLEAN : CreateTask(t, frog, repeat) \/ EnrichTask(t, frog, repeat)
          \/ CompleteTask(t) \/ DoneCommand(t)
          \/ \E frog \in {"keep", "yes", "no"}, target \in {"keep", "open", "done", "cancelled"} :
                UpdateTask(t, frog, target)
    \/ \E p \in Project : \/ \E list \in BOOLEAN : CreateProject(p, list)
                          \/ \E t \in Task : SaveTasks(p, t)
                          \/ CompleteProject(p)

Travel == \/ ShowTrip
          \/ \E r \in Trip : \/ \E today \in {"ahead", "over"} : TripOn(r, today) \/ Day(r, today)
                             \/ TripOff(r)

Next == Offer \/ ByButton \/ ByText \/ Travel

Spec == Init /\ [][Next]_vars

-----------------------------------------------------------------------------
(* Properties *)

TypeOK ==
    /\ tasks \in [Task -> TaskRow] /\ projects \in [Project -> {"none", "active", "done"}]
    /\ prepared \subseteq Project /\ trips \in [Trip -> {"none", "ahead", "over"}]
    /\ chat \subseteq Button /\ Cardinality(chat) <= MaxButtons
    /\ \A t \in Task : ~Exists(t) => tasks[t] = [NoTask EXCEPT !.status = tasks[t].status]

\* There is one frog at a time: apart from a direct edit of the flag, which the
\* unique index refuses, no path runs into that index, also when a frog eaten
\* long ago is opened again (models.py:188-193).
OneFrog == \A t, u \in Task : Frog(t) /\ Frog(u) => t = u

\* A recurring series goes on from one occurrence: repeated presses of old
\* buttons, and edits of closed occurrences, never fork it (services/tasks.py:70-71).
SeriesNeverForks ==
    \A t, u \in Task : Open(t) /\ Open(u) /\ tasks[t].series = tasks[u].series => t = u

\* A closed project gets no open task: neither from its prepared plan nor by the
\* next occurrence, unless a task was opened again in it (docs/REMEDIATION_2026-09-07.md:20).
ClosedProjectIsQuiet ==
    \A p \in Project : projects[p] = "done" => \A t \in OpenTasks(p) : tasks[t].revived

\* A button pressed late changes the status of no closed task, unless to delete it.
LateButtonsAreHarmless ==
    [][ByButton => \A t \in Task : Exists(t) /\ ~Open(t)
                      => tasks'[t].status \in {tasks[t].status, "deleted"}]_vars

\* A user is on one trip at most, now or in the future.
OneTrip == \A r, s \in Trip : trips[r] # "none" /\ trips[s] # "none" => r = s

\* The rows are well formed, and there is one frog and one trip.
OneFrogOneTrip == TypeOK /\ OneFrog /\ OneTrip

\* "Task/frog/reminder callbacks that come again tell the actual closed status"
\* (docs/archive/reviews/REVIEW_REMEDIATION_2026-08-25.md:23): a frog that was
\* assigned is an open task.
FrogButtonTellsTheTruth ==
    [][\A t \in Task : SetFrog(t) => Frog(t)']_vars

===============================================================================
