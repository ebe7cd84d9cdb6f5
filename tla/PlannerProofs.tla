----------------------------- MODULE PlannerProofs -----------------------------
(***************************************************************************)
(* The safety of Planner for every number of tasks, projects, trips and    *)
(* old buttons.  SeriesNeverForks is not inductive: a closed task may be   *)
(* opened again, and what makes that safe is that a task without a rule is *)
(* the only one of its series.  Each action is first reduced to what it    *)
(* does to the rows, and the series is preserved once, from that.          *)
(***************************************************************************)
EXTENDS Planner, FiniteSetTheorems, TLAPS

\* A task without a rule has no other occurrence.
Alone ==
    \A t, u \in Task :
        Exists(t) /\ Exists(u) /\ ~tasks[t].repeat /\ tasks[u].series = tasks[t].series => u = t

\* A series is named after a row that is or was there.
Named ==
    \A t \in Task : /\ Exists(t) => tasks[t].series \in Task
                    /\ tasks[t].series # None => ~Fresh(tasks[t].series)

Blank == \A t \in Task : ~Exists(t) => tasks[t] = [NoTask EXCEPT !.status = tasks[t].status]

TaskType == tasks \in [Task -> TaskRow] /\ Blank

ChatType == chat \subseteq Button /\ IsFiniteSet(chat) /\ Cardinality(chat) <= MaxButtons

OtherType ==
    /\ projects \in [Project -> {"none", "active", "done"}]
    /\ prepared \subseteq Project /\ trips \in [Trip -> {"none", "ahead", "over"}]

\* The rows of tasks and projects.
RowInv ==
    /\ TaskType /\ projects \in [Project -> {"none", "active", "done"}]
    /\ SeriesNeverForks /\ Alone /\ Named /\ OneFrog /\ ClosedProjectIsQuiet

Inv == RowInv /\ ChatType /\ OtherType /\ OneTrip

--------------------------------------------------------------------------------
(* What a step does to the rows                                                 *)

\* An existing row stays in its series, and is opened again only without a rule.
Kept(t) ==
    /\ tasks'[t].series = tasks[t].series
    /\ Exists(t)' <=> Exists(t)
    /\ ~Exists(t) => tasks'[t] = tasks[t]
    /\ tasks[t].repeat => tasks'[t].repeat
    /\ Open(t)' => Open(t) \/ ~tasks[t].repeat

Changed == \A t \in Task : Kept(t)

\* A new task begins a series of its own.
Begun == \E n \in Task : /\ Fresh(n) /\ Open(n)' /\ tasks'[n].series = n
                         /\ \A t \in Task \ {n} : Kept(t)

\* A new occurrence takes the place of the one that was closed.
Repeated ==
    \E n, t \in Task :
        /\ Fresh(n) /\ Open(n)' /\ tasks'[n].series = tasks[t].series /\ tasks'[n].repeat
        /\ Open(t) /\ ~Open(t)' /\ tasks[t].repeat
        /\ \A u \in Task \ {n} : Kept(u)

Deleted ==
    \E n \in Task : /\ Exists(n) /\ tasks'[n] = [NoTask EXCEPT !.status = "deleted"]
                    /\ \A t \in Task \ {n} : tasks'[t] = tasks[t]

RowStep == tasks' \in [Task -> TaskRow] /\ (Changed \/ Begun \/ Repeated \/ Deleted)

LEMMA StatusFacts ==
    ASSUME NEW t \in Task, Open(t) \/ Exists(t)
    PROVE  Exists(t) /\ ~Fresh(t)
BY DEF Open, Exists, Fresh

LEMMA ChangedKeeps ==
    ASSUME RowInv, tasks' \in [Task -> TaskRow], Changed
    PROVE  (TaskType /\ SeriesNeverForks /\ Alone /\ Named)'
<1>1. Blank'
  BY DEF Changed, Kept, RowInv, TaskType, Blank
<1>2. Alone'
  BY DEF Changed, Kept, RowInv, Alone
<1>3. Named'
  <2> SUFFICES ASSUME NEW t \in Task
               PROVE  /\ Exists(t)' => tasks'[t].series \in Task
                      /\ tasks'[t].series # None => ~Fresh(tasks[t].series)'
    BY DEF Named, Changed, Kept
  <2>1. Exists(t)' => tasks'[t].series \in Task
    BY DEF Changed, Kept, RowInv, Named
  <2>2. ASSUME tasks'[t].series # None PROVE ~Fresh(tasks[t].series)'
    <3>1. tasks[t].series \in Task /\ ~Fresh(tasks[t].series) /\ tasks'[t].series = tasks[t].series
      BY <2>2 DEF Changed, Kept, RowInv, TaskType, TaskRow, Named
    <3>2. \A u \in Task : ~Fresh(u) => ~Fresh(u)'
      BY DEF Changed, Kept, Fresh, Exists
    <3> QED
      BY <3>1, <3>2
  <2> QED
    BY <2>1, <2>2
<1>4. SeriesNeverForks'
  <2> SUFFICES ASSUME NEW t \in Task, NEW u \in Task, Open(t)', Open(u)',
                      tasks'[t].series = tasks'[u].series
               PROVE  t = u
    BY DEF SeriesNeverForks
  <2>1. tasks[t].series = tasks[u].series
    BY DEF Changed, Kept
  <2>2. Exists(t) /\ Exists(u)
    BY DEF Changed, Kept, Open, Exists
  <2>3. CASE Open(t) /\ Open(u)
    BY <2>1, <2>3 DEF RowInv, SeriesNeverForks
  <2>4. CASE ~Open(t) \/ ~Open(u)
    <3>1. ~tasks[t].repeat \/ ~tasks[u].repeat
      BY <2>4 DEF Changed, Kept
    <3> QED
      BY <2>1, <2>2, <3>1 DEF RowInv, Alone
  <2> QED
    BY <2>3, <2>4
<1> QED
  BY <1>1, <1>2, <1>3, <1>4 DEF TaskType

\* What a step that inserts row n has in common, begun or repeated.
LEMMA OthersKeep ==
    ASSUME RowInv, NEW n \in Task, Fresh(n), Open(n)', \A t \in Task \ {n} : Kept(t),
           tasks' \in [Task -> TaskRow]
    PROVE  /\ Blank'
           /\ \A t \in Task \ {n} : tasks'[t].series # n
           /\ \A u \in Task : ~Fresh(u) => ~Fresh(u)'
           /\ \A t \in Task \ {n} :
                 /\ Exists(t)' => tasks'[t].series \in Task
                 /\ tasks'[t].series # None => ~Fresh(tasks[t].series)'
           /\ \A t, u \in Task \ {n} :
                 /\ Exists(t)' /\ Exists(u)' /\ ~tasks'[t].repeat
                    /\ tasks'[u].series = tasks'[t].series => u = t
                 /\ Open(t)' /\ Open(u)' /\ tasks'[t].series = tasks'[u].series => t = u
<1>0. \A t \in Task \ {n} :
        /\ tasks'[t].series = tasks[t].series
        /\ Exists(t)' <=> Exists(t)
        /\ ~Exists(t) => tasks'[t] = tasks[t]
        /\ tasks[t].repeat => tasks'[t].repeat
        /\ Open(t)' => Open(t) \/ ~tasks[t].repeat
  BY DEF Kept
<1>1. Exists(n)'
  BY DEF Open, Exists
<1>2. Blank'
  BY <1>0, <1>1 DEF RowInv, TaskType, Blank
<1>3. \A u \in Task : ~Fresh(u) => ~Fresh(u)'
  <2> SUFFICES ASSUME NEW u \in Task, ~Fresh(u) PROVE ~Fresh(u)'
    OBVIOUS
  <2>1. u # n
    OBVIOUS
  <2>2. CASE Exists(u)
    BY <1>0, <2>1, <2>2 DEF Exists, Fresh
  <2>3. CASE ~Exists(u)
    BY <1>0, <2>1, <2>3 DEF Fresh
  <2> QED
    BY <2>2, <2>3
<1>4. \A t \in Task \ {n} : tasks'[t].series # n
  <2> SUFFICES ASSUME NEW t \in Task \ {n}, tasks'[t].series = n PROVE FALSE
    OBVIOUS
  <2>1. tasks[t].series = n /\ n # None
    BY <1>0, PlannerAssumption
  <2> QED
    BY <2>1 DEF RowInv, Named
<1>5. \A t \in Task \ {n} :
        /\ Exists(t)' => tasks'[t].series \in Task
        /\ tasks'[t].series # None => ~Fresh(tasks[t].series)'
  <2> SUFFICES ASSUME NEW t \in Task \ {n}
               PROVE  /\ Exists(t)' => tasks'[t].series \in Task
                      /\ tasks'[t].series # None => ~Fresh(tasks[t].series)'
    OBVIOUS
  <2>1. Exists(t)' => tasks'[t].series \in Task
    BY <1>0 DEF RowInv, Named
  <2>2. ASSUME tasks'[t].series # None PROVE ~Fresh(tasks[t].series)'
    <3>1. tasks[t].series \in Task /\ ~Fresh(tasks[t].series)
          /\ tasks'[t].series = tasks[t].series
      BY <1>0, <2>2 DEF RowInv, TaskType, TaskRow, Named
    <3> QED
      BY <1>3, <3>1
  <2> QED
    BY <2>1, <2>2
<1>6. \A t, u \in Task \ {n} :
        Exists(t)' /\ Exists(u)' /\ ~tasks'[t].repeat
        /\ tasks'[u].series = tasks'[t].series => u = t
  BY <1>0 DEF RowInv, Alone
<1>7. \A t, u \in Task \ {n} :
        Open(t)' /\ Open(u)' /\ tasks'[t].series = tasks'[u].series => t = u
  <2> SUFFICES ASSUME NEW t \in Task \ {n}, NEW u \in Task \ {n}, Open(t)', Open(u)',
                      tasks'[t].series = tasks'[u].series
               PROVE  t = u
    OBVIOUS
  <2>1. tasks[t].series = tasks[u].series
    BY <1>0
  <2>2. Exists(t) /\ Exists(u)
    <3>1. Exists(t)' /\ Exists(u)'
      BY DEF Open, Exists
    <3> QED
      BY <1>0, <3>1
  <2>3. CASE Open(t) /\ Open(u)
    BY <2>1, <2>3 DEF RowInv, SeriesNeverForks
  <2>4. CASE ~Open(t) \/ ~Open(u)
    <3>1. ~tasks[t].repeat \/ ~tasks[u].repeat
      BY <1>0, <2>4
    <3> QED
      BY <2>1, <2>2, <3>1 DEF RowInv, Alone
  <2> QED
    BY <2>3, <2>4
<1> QED
  BY <1>2, <1>3, <1>4, <1>5, <1>6, <1>7

LEMMA BegunKeeps ==
    ASSUME RowInv, tasks' \in [Task -> TaskRow], Begun
    PROVE  (TaskType /\ SeriesNeverForks /\ Alone /\ Named)'
<1>1. PICK n \in Task : /\ Fresh(n) /\ Open(n)' /\ tasks'[n].series = n
                        /\ \A t \in Task \ {n} : Kept(t)
  BY DEF Begun
<1>2. /\ Blank'
      /\ \A t \in Task \ {n} : tasks'[t].series # n
      /\ \A t \in Task \ {n} :
            /\ Exists(t)' => tasks'[t].series \in Task
            /\ tasks'[t].series # None => ~Fresh(tasks[t].series)'
      /\ \A t, u \in Task \ {n} :
            /\ Exists(t)' /\ Exists(u)' /\ ~tasks'[t].repeat
               /\ tasks'[u].series = tasks'[t].series => u = t
            /\ Open(t)' /\ Open(u)' /\ tasks'[t].series = tasks'[u].series => t = u
  BY <1>1, OthersKeep
<1>3. ~Fresh(n)'
  BY <1>1 DEF Open, Fresh
<1>4. Named'
  BY <1>1, <1>2, <1>3 DEF Named
<1>5. Alone' /\ SeriesNeverForks'
  BY <1>1, <1>2 DEF Alone, SeriesNeverForks
<1> QED
  BY <1>2, <1>4, <1>5 DEF TaskType

LEMMA RepeatedKeeps ==
    ASSUME RowInv, tasks' \in [Task -> TaskRow], Repeated
    PROVE  (TaskType /\ SeriesNeverForks /\ Alone /\ Named)'
<1>1. PICK n \in Task, c \in Task :
        /\ Fresh(n) /\ Open(n)' /\ tasks'[n].series = tasks[c].series /\ tasks'[n].repeat
        /\ Open(c) /\ ~Open(c)' /\ tasks[c].repeat
        /\ \A t \in Task \ {n} : Kept(t)
  BY DEF Repeated
<1>2. /\ Blank'
      /\ \A u \in Task : ~Fresh(u) => ~Fresh(u)'
      /\ \A t \in Task \ {n} :
            /\ Exists(t)' => tasks'[t].series \in Task
            /\ tasks'[t].series # None => ~Fresh(tasks[t].series)'
      /\ \A t, u \in Task \ {n} :
            /\ Exists(t)' /\ Exists(u)' /\ ~tasks'[t].repeat
               /\ tasks'[u].series = tasks'[t].series => u = t
            /\ Open(t)' /\ Open(u)' /\ tasks'[t].series = tasks'[u].series => t = u
  BY <1>1, OthersKeep
<1>3. /\ c # n /\ Exists(c)
      /\ tasks[c].series \in Task /\ ~Fresh(tasks[c].series)
  BY <1>1, PlannerAssumption DEF Open, Fresh, Exists, RowInv, Named
<1>4. \A u \in Task : u = tasks[c].series => ~Fresh(u)'
  BY <1>2, <1>3
<1>5. Named'
  <2>1. tasks'[n].series \in Task /\ ~Fresh(tasks[n].series)'
    BY <1>1, <1>3, <1>4 DEF Fresh
  <2> QED
    BY <1>2, <2>1 DEF Named
<1>6. \A t \in Task \ {n} :
        Exists(t)' /\ tasks'[t].series = tasks[c].series => ~Open(t)' /\ tasks'[t].repeat
  <2> SUFFICES ASSUME NEW t \in Task \ {n}, Exists(t)', tasks'[t].series = tasks[c].series
               PROVE  ~Open(t)' /\ tasks'[t].repeat
    OBVIOUS
  <2>1. Exists(t) /\ tasks[t].series = tasks[c].series
    BY <1>1 DEF Kept
  <2>2. tasks[t].repeat
    BY <1>1, <1>3, <2>1 DEF RowInv, Alone
  <2>3. t # c => ~Open(t)
    BY <1>1, <2>1 DEF RowInv, SeriesNeverForks
  <2> QED
    BY <1>1, <2>2, <2>3 DEF Kept
<1>7. Alone' /\ SeriesNeverForks'
  BY <1>1, <1>2, <1>6 DEF Alone, SeriesNeverForks, Open, Exists
<1> QED
  BY <1>2, <1>5, <1>7 DEF TaskType

LEMMA DeletedKeeps ==
    ASSUME RowInv, tasks' \in [Task -> TaskRow], Deleted
    PROVE  (TaskType /\ SeriesNeverForks /\ Alone /\ Named)'
<1>1. PICK n \in Task : /\ Exists(n) /\ tasks'[n] = [NoTask EXCEPT !.status = "deleted"]
                        /\ \A t \in Task \ {n} : tasks'[t] = tasks[t]
  BY DEF Deleted
<1>2. tasks'[n].status = "deleted" /\ tasks'[n].series = None
  BY <1>1 DEF NoTask
<1>3. ~Exists(n)' /\ ~Open(n)' /\ ~Fresh(n)'
  BY <1>2 DEF Exists, Open, Fresh
<1>4. \A t \in Task \ {n} : /\ Exists(t)' <=> Exists(t)
                            /\ Open(t)' <=> Open(t)
                            /\ Fresh(t)' <=> Fresh(t)
  BY <1>1 DEF Exists, Open, Fresh
<1>5. Blank'
  BY <1>1, <1>2, <1>4 DEF RowInv, TaskType, Blank
<1>6. Alone' /\ SeriesNeverForks'
  BY <1>1, <1>3, <1>4 DEF RowInv, Alone, SeriesNeverForks
<1>7. Named'
  <2> SUFFICES ASSUME NEW t \in Task
               PROVE  /\ Exists(t)' => tasks'[t].series \in Task
                      /\ tasks'[t].series # None => ~Fresh(tasks[t].series)'
    BY DEF Named
  <2>1. CASE t = n
    BY <1>2, <1>3, <2>1
  <2>2. CASE t # n
    <3>1. Exists(t)' => tasks'[t].series \in Task
      BY <1>1, <1>4, <2>2 DEF RowInv, Named
    <3>2. ASSUME tasks'[t].series # None PROVE ~Fresh(tasks[t].series)'
      <4>1. tasks'[t].series = tasks[t].series
        BY <1>1, <2>2
      <4>2. tasks[t].series \in Task /\ ~Fresh(tasks[t].series)
        BY <3>2, <4>1 DEF RowInv, TaskType, TaskRow, Named
      <4>3. \A u \in Task : ~Fresh(u) => ~Fresh(u)'
        BY <1>3, <1>4
      <4> QED
        BY <4>1, <4>2, <4>3 DEF Fresh
    <3> QED
      BY <3>1, <3>2
  <2> QED
    BY <2>1, <2>2
<1> QED
  BY <1>5, <1>6, <1>7 DEF TaskType

LEMMA SeriesKeep ==
    ASSUME RowInv, RowStep
    PROVE  (TaskType /\ SeriesNeverForks /\ Alone /\ Named)'
BY ChangedKeeps, BegunKeeps, RepeatedKeeps, DeletedKeeps DEF RowStep

--------------------------------------------------------------------------------
(* The actions on tasks                                                         *)

\* No button changes the status of a task that is closed, unless to delete it.
Harmless ==
    \A t \in Task : Exists(t) /\ ~Open(t) => tasks'[t].status \in {tasks[t].status, "deleted"}

\* Nothing is opened in a closed project but by opening it again.
QuietStep ==
    \A t \in Task : Open(t)' =>
        \/ tasks'[t].project = None \/ tasks'[t].revived
        \/ tasks'[t].project # None /\ projects[tasks'[t].project] # "done"
        \/ Open(t) /\ tasks'[t].project = tasks[t].project /\ tasks'[t].revived = tasks[t].revived

LEMMA QuietKeeps ==
    ASSUME RowInv, QuietStep, UNCHANGED projects
    PROVE  ClosedProjectIsQuiet'
<1> SUFFICES ASSUME NEW p \in Project, projects[p] = "done", NEW t \in Task,
                    Open(t)', tasks'[t].project = p
             PROVE  tasks'[t].revived
  BY DEF ClosedProjectIsQuiet, OpenTasks
<1>1. p # None
  BY PlannerAssumption
<1>2. Open(t) /\ tasks[t].project = p => tasks[t].revived
  BY DEF RowInv, ClosedProjectIsQuiet, OpenTasks
<1> QED
  BY <1>1, <1>2 DEF QuietStep

\* An update's edit of the flag.
Edited(t, frog) == [tasks EXCEPT ![t].frog = IF frog = "keep" THEN @ ELSE frog = "yes"]

LEMMA EditedRows ==
    ASSUME RowInv, NEW t \in Task, NEW frog \in {"keep", "yes", "no"}
    PROVE  /\ Edited(t, frog) \in [Task -> TaskRow]
           /\ \A u \in Task \ {t} : Edited(t, frog)[u] = tasks[u]
           /\ Edited(t, frog)[t].status = tasks[t].status
           /\ Edited(t, frog)[t].repeat = tasks[t].repeat
           /\ Edited(t, frog)[t].project = tasks[t].project
           /\ Edited(t, frog)[t].series = tasks[t].series
           /\ Edited(t, frog)[t].revived = tasks[t].revived
           /\ frog = "keep" => Edited(t, frog) = tasks
<1>1. tasks \in [Task -> TaskRow] /\ tasks[t] \in TaskRow
  BY DEF RowInv, TaskType
<1>2. CASE frog = "keep"
  <2>1. Edited(t, frog) = [tasks EXCEPT ![t].frog = tasks[t].frog]
    BY <1>2 DEF Edited
  <2>2. [tasks[t] EXCEPT !.frog = tasks[t].frog] = tasks[t]
    BY <1>1 DEF TaskRow
  <2>3. Edited(t, frog) = tasks
    BY <1>1, <2>1, <2>2
  <2> QED
    BY <1>1, <2>3
<1>3. CASE frog # "keep"
  <2>1. PICK f \in BOOLEAN : Edited(t, frog) = [tasks EXCEPT ![t].frog = f]
    BY <1>3 DEF Edited
  <2>2. [tasks[t] EXCEPT !.frog = f] \in TaskRow
    BY <1>1 DEF TaskRow
  <2> QED
    BY <1>1, <1>3, <2>1, <2>2 DEF TaskRow
<1> QED
  BY <1>2, <1>3

LEMMA Completing ==
    ASSUME RowInv, NEW t \in Task, NEW frog \in {"keep", "yes", "no"}, Exists(t),
           Complete(Edited(t, frog), t)
    PROVE  RowStep /\ OneFrog' /\ QuietStep /\ Harmless
<1> DEFINE E == Edited(t, frog)
<1>1. /\ E \in [Task -> TaskRow]
      /\ \A u \in Task \ {t} : E[u] = tasks[u]
      /\ E[t].status = tasks[t].status /\ E[t].repeat = tasks[t].repeat
      /\ E[t].project = tasks[t].project /\ E[t].series = tasks[t].series
      /\ E[t].revived = tasks[t].revived
  BY EditedRows
<1>2. \/ E[t].status # "open" /\ tasks' = E
      \/ E[t].status = "open" /\ tasks' = [E EXCEPT ![t].status = "done"]
      \/ /\ E[t].status = "open" /\ E[t].repeat
         /\ \E next \in {u \in Task : Fresh(u)} :
               tasks' = [E EXCEPT ![t].status = "done", ![next] = Occurrence(t)]
  BY DEF Complete
<1> HIDE DEF E
<1>3. tasks \in [Task -> TaskRow]
  BY DEF RowInv, TaskType
<1>4. CASE E[t].status # "open" /\ tasks' = E
  <2>1. Changed
    BY <1>1, <1>4 DEF Changed, Kept, Open, Exists
  <2>2. OneFrog'
    BY <1>1, <1>4 DEF RowInv, OneFrog, Frog, Open
  <2>3. QuietStep /\ Harmless
    BY <1>1, <1>4 DEF QuietStep, Harmless, Open
  <2> QED
    BY <1>1, <1>4, <2>1, <2>2, <2>3 DEF RowStep
<1>5. CASE E[t].status = "open" /\ tasks' = [E EXCEPT ![t].status = "done"]
  <2>1. [E[t] EXCEPT !.status = "done"] \in TaskRow
    BY <1>1 DEF TaskRow, Status
  <2>2. /\ tasks' \in [Task -> TaskRow] /\ \A u \in Task \ {t} : tasks'[u] = tasks[u]
        /\ tasks'[t].status = "done" /\ tasks'[t].repeat = tasks[t].repeat
        /\ tasks'[t].series = tasks[t].series
    BY <1>1, <1>5, <2>1 DEF TaskRow
  <2>3. Changed
    BY <2>2 DEF Changed, Kept, Open, Exists
  <2>4. OneFrog'
    BY <2>2 DEF RowInv, OneFrog, Frog, Open
  <2>5. QuietStep /\ Harmless
    BY <1>1, <1>5, <2>2 DEF QuietStep, Harmless, Open
  <2> QED
    BY <2>2, <2>3, <2>4, <2>5 DEF RowStep
<1>6. CASE /\ E[t].status = "open" /\ E[t].repeat
           /\ \E next \in {u \in Task : Fresh(u)} :
                 tasks' = [E EXCEPT ![t].status = "done", ![next] = Occurrence(t)]
  <2>1. PICK n \in Task : /\ Fresh(n)
                          /\ tasks' = [E EXCEPT ![t].status = "done", ![n] = Occurrence(t)]
    BY <1>6
  <2>2. n # t
    BY <1>1, <1>6, <2>1 DEF Fresh
  <2>3. [E[t] EXCEPT !.status = "done"] \in TaskRow /\ tasks[t] \in TaskRow
    BY <1>1, <1>3 DEF TaskRow, Status
  <2>4. /\ Occurrence(t).status = "open" /\ ~Occurrence(t).frog /\ Occurrence(t).repeat
        /\ Occurrence(t).project = tasks[t].project /\ Occurrence(t).series = tasks[t].series
        /\ Occurrence(t).revived = tasks[t].revived
    BY DEF Occurrence, NoTask
  <2>5. Occurrence(t) \in TaskRow
    BY <2>3 DEF Occurrence, NoTask, TaskRow, Status
  <2>6. /\ tasks' \in [Task -> TaskRow] /\ tasks'[n] = Occurrence(t)
        /\ \A u \in Task \ {t, n} : tasks'[u] = tasks[u]
        /\ tasks'[t] = [E[t] EXCEPT !.status = "done"]
    BY <1>1, <2>1, <2>2, <2>3, <2>5
  <2>7. /\ tasks'[t].status = "done" /\ tasks'[t].repeat = tasks[t].repeat
        /\ tasks'[t].series = tasks[t].series
    BY <1>1, <2>6 DEF TaskRow
  <2>8. /\ Open(n)' /\ tasks'[n].series = tasks[t].series /\ tasks'[n].repeat
        /\ ~Frog(n)'
    BY <2>4, <2>6 DEF Open, Frog
  <2>9. \A u \in Task \ {n} : Kept(u)
    BY <1>1, <1>6, <2>6, <2>7 DEF Kept, Open, Exists
  <2>10. Repeated
    <3>1. Open(t) /\ ~Open(t)' /\ tasks[t].repeat
      BY <1>1, <1>6, <2>7 DEF Open
    <3> QED
      BY <2>1, <2>8, <2>9, <3>1 DEF Repeated
  <2>11. OneFrog'
    BY <2>6, <2>7, <2>8 DEF RowInv, OneFrog, Frog, Open
  <2>12. Harmless
    BY <1>1, <1>6, <2>1, <2>6 DEF Harmless, Open, Exists, Fresh
  <2>13. QuietStep
    <3>1. tasks'[n].project = tasks[t].project /\ tasks'[n].revived = tasks[t].revived
      BY <2>4, <2>6
    <3>2. \/ tasks[t].project = None \/ tasks[t].revived
          \/ tasks[t].project # None /\ projects[tasks[t].project] # "done"
      <4>1. tasks[t].project \in Project \cup {None} /\ Open(t)
        BY <1>1, <1>6, <2>3 DEF TaskRow, Open
      <4> QED
        BY <4>1 DEF RowInv, ClosedProjectIsQuiet, OpenTasks
    <3> QED
      <4>1. \A u \in Task \ {t, n} : tasks'[u] = tasks[u]
        BY <2>6
      <4>2. ~Open(t)'
        BY <2>7 DEF Open
      <4>3. \A u \in Task \ {t, n} : Open(u)' => Open(u)
        BY <4>1 DEF Open
      <4>4. \/ tasks'[n].project = None \/ tasks'[n].revived
            \/ tasks'[n].project # None /\ projects[tasks'[n].project] # "done"
        BY <3>1, <3>2
      <4> QED
        BY <4>1, <4>2, <4>3, <4>4 DEF QuietStep
  <2> QED
    BY <2>6, <2>10, <2>11, <2>12, <2>13 DEF RowStep
<1> QED
  BY <1>2, <1>4, <1>5, <1>6

\* Taking the flag from the frog changes nothing else.
LEMMA FrogTaken ==
    ASSUME RowInv
    PROVE  /\ WithoutFrog \in [Task -> TaskRow]
           /\ \A t \in Task :
                 /\ WithoutFrog[t].status = tasks[t].status
                 /\ WithoutFrog[t].repeat = tasks[t].repeat
                 /\ WithoutFrog[t].project = tasks[t].project
                 /\ WithoutFrog[t].series = tasks[t].series
                 /\ WithoutFrog[t].revived = tasks[t].revived
                 /\ Open(t) => ~WithoutFrog[t].frog
                 /\ ~Open(t) => WithoutFrog[t] = tasks[t]
<1>1. tasks \in [Task -> TaskRow]
  BY DEF RowInv, TaskType
<1>2. ASSUME NEW t \in Task PROVE [tasks[t] EXCEPT !.frog = FALSE] \in TaskRow
  BY <1>1 DEF TaskRow
<1>3. WithoutFrog \in [Task -> TaskRow]
  BY <1>1, <1>2 DEF WithoutFrog
<1>4. ASSUME NEW t \in Task
      PROVE  /\ WithoutFrog[t].status = tasks[t].status
             /\ WithoutFrog[t].repeat = tasks[t].repeat
             /\ WithoutFrog[t].project = tasks[t].project
             /\ WithoutFrog[t].series = tasks[t].series
             /\ WithoutFrog[t].revived = tasks[t].revived
             /\ Open(t) => ~WithoutFrog[t].frog
             /\ ~Open(t) => WithoutFrog[t] = tasks[t]
  <2>1. CASE Frog(t)
    <3>1. WithoutFrog[t] = [tasks[t] EXCEPT !.frog = FALSE] /\ Open(t)
      BY <2>1 DEF WithoutFrog, Frog
    <3> QED
      BY <1>1, <3>1 DEF TaskRow
  <2>2. CASE ~Frog(t)
    <3>1. WithoutFrog[t] = tasks[t]
      BY <2>2 DEF WithoutFrog
    <3> QED
      BY <2>2, <3>1 DEF Frog
  <2> QED
    BY <2>1, <2>2
<1> QED
  BY <1>3, <1>4

\* A frog is assigned to any task that exists; the flag of a closed one means nothing.
LEMMA SetFrogSteps ==
    ASSUME RowInv, NEW t \in Task, SetFrog(t)
    PROVE  RowStep /\ OneFrog' /\ QuietStep /\ Harmless
<1> DEFINE W == WithoutFrog
<1>1. Exists(t) /\ tasks' = [W EXCEPT ![t].frog = TRUE]
  BY DEF SetFrog
<1>2. /\ W \in [Task -> TaskRow]
      /\ \A u \in Task : /\ W[u].status = tasks[u].status
                         /\ W[u].repeat = tasks[u].repeat
                         /\ W[u].project = tasks[u].project
                         /\ W[u].series = tasks[u].series
                         /\ W[u].revived = tasks[u].revived
                         /\ Open(u) => ~W[u].frog
                         /\ ~Open(u) => W[u] = tasks[u]
  BY FrogTaken
<1> HIDE DEF W
<1>3. [W[t] EXCEPT !.frog = TRUE] \in TaskRow
  BY <1>2 DEF TaskRow
<1>4. tasks' \in [Task -> TaskRow] /\ \A u \in Task \ {t} : tasks'[u] = W[u]
  BY <1>1, <1>2, <1>3
<1>5. \A u \in Task : /\ tasks'[u].status = tasks[u].status
                     /\ tasks'[u].repeat = tasks[u].repeat
                     /\ tasks'[u].project = tasks[u].project
                     /\ tasks'[u].series = tasks[u].series
                     /\ tasks'[u].revived = tasks[u].revived
  BY <1>1, <1>2 DEF TaskRow
<1>6. Changed
  BY <1>1, <1>2, <1>4, <1>5 DEF Changed, Kept, Open, Exists
<1>7. OneFrog'
  BY <1>2, <1>4, <1>5 DEF OneFrog, Frog, Open
<1>8. QuietStep /\ Harmless
  BY <1>5 DEF QuietStep, Harmless, Open
<1> QED
  BY <1>4, <1>6, <1>7, <1>8 DEF RowStep

LEMMA CompleteSteps ==
    ASSUME RowInv, NEW t \in Task, Exists(t), Complete(tasks, t)
    PROVE  RowStep /\ OneFrog' /\ QuietStep /\ Harmless
<1>1. Edited(t, "keep") = tasks
  BY EditedRows
<1> QED
  BY <1>1, Completing

\* A task is closed with status cancelled, by a button or by a text.
LEMMA CancelSteps ==
    ASSUME RowInv, NEW t \in Task, NEW frog \in {"keep", "yes", "no"}, Exists(t),
           Cancel(Edited(t, frog), t)
    PROVE  RowStep /\ OneFrog' /\ QuietStep
<1> DEFINE E == Edited(t, frog)
<1>1. /\ E \in [Task -> TaskRow]
      /\ \A u \in Task \ {t} : E[u] = tasks[u]
      /\ E[t].repeat = tasks[t].repeat /\ E[t].series = tasks[t].series
  BY EditedRows
<1>2. tasks' = [E EXCEPT ![t].status = "cancelled"]
  BY DEF Cancel
<1> HIDE DEF E
<1>3. [E[t] EXCEPT !.status = "cancelled"] \in TaskRow
  BY <1>1 DEF TaskRow, Status
<1>4. /\ tasks' \in [Task -> TaskRow] /\ \A u \in Task \ {t} : tasks'[u] = tasks[u]
      /\ tasks'[t].status = "cancelled" /\ tasks'[t].repeat = tasks[t].repeat
      /\ tasks'[t].series = tasks[t].series
  BY <1>1, <1>2, <1>3 DEF TaskRow
<1>5. Changed
  BY <1>4 DEF Changed, Kept, Open, Exists
<1>6. OneFrog' /\ QuietStep
  BY <1>4 DEF RowInv, OneFrog, Frog, QuietStep, Open
<1> QED
  BY <1>4, <1>5, <1>6 DEF RowStep

\* Opening again is for tasks without a rule, and never brings a frog back.
LEMMA ReopenSteps ==
    ASSUME RowInv, NEW t \in Task, NEW frog \in {"keep", "yes", "no"}, Exists(t),
           Reopen(Edited(t, frog), t)
    PROVE  RowStep /\ OneFrog' /\ QuietStep
<1> DEFINE E == Edited(t, frog)
           old == E[t].revived \/ (E[t].status # "open" /\ E[t].project # None
                                   /\ projects[E[t].project] = "done")
<1>1. /\ E \in [Task -> TaskRow]
      /\ \A u \in Task \ {t} : E[u] = tasks[u]
      /\ E[t].status = tasks[t].status /\ E[t].repeat = tasks[t].repeat
      /\ E[t].project = tasks[t].project /\ E[t].series = tasks[t].series
      /\ E[t].revived = tasks[t].revived
  BY EditedRows
<1>2. E[t].status = "open" \/ ~E[t].repeat
  BY DEF Reopen
<1>3. tasks' = [E EXCEPT ![t].status = "open", ![t].frog = FALSE, ![t].revived = old]
  BY <1>1 DEF Reopen
<1>4. old \in BOOLEAN
  BY <1>1 DEF TaskRow
<1>5. old <=> (tasks[t].revived \/ (~Open(t) /\ tasks[t].project # None
                                    /\ projects[tasks[t].project] = "done"))
  BY <1>1 DEF Open
<1> HIDE DEF E, old
<1>6. [[[E[t] EXCEPT !.status = "open"] EXCEPT !.frog = FALSE] EXCEPT !.revived = old] \in TaskRow
  <2>1. [E[t] EXCEPT !.status = "open"] \in TaskRow
    BY <1>1 DEF TaskRow, Status
  <2>2. [[E[t] EXCEPT !.status = "open"] EXCEPT !.frog = FALSE] \in TaskRow
    BY <2>1 DEF TaskRow
  <2> QED
    BY <1>4, <2>2 DEF TaskRow
<1>7. /\ tasks' \in [Task -> TaskRow] /\ \A u \in Task \ {t} : tasks'[u] = tasks[u]
      /\ tasks'[t] = [[[E[t] EXCEPT !.status = "open"] EXCEPT !.frog = FALSE] EXCEPT !.revived = old]
  BY <1>1, <1>3, <1>6
<1>8. /\ tasks'[t].status = "open" /\ tasks'[t].repeat = tasks[t].repeat
      /\ tasks'[t].series = tasks[t].series /\ tasks'[t].project = tasks[t].project
      /\ ~tasks'[t].frog /\ (tasks'[t].revived <=> old)
  BY <1>1, <1>7 DEF TaskRow
<1>9. Changed
  BY <1>1, <1>2, <1>7, <1>8 DEF Changed, Kept, Open, Exists
<1>10. OneFrog'
  BY <1>7, <1>8 DEF RowInv, OneFrog, Frog, Open
<1>11. QuietStep
  <2>1. \/ tasks'[t].project = None \/ tasks'[t].revived
        \/ tasks'[t].project # None /\ projects[tasks'[t].project] # "done"
        \/ Open(t) /\ tasks'[t].revived = tasks[t].revived
    <3>1. CASE Open(t)
      <4>1. old <=> tasks[t].revived
        BY <1>5, <3>1
      <4>2. tasks[t].revived \in BOOLEAN /\ tasks'[t].revived \in BOOLEAN
        BY <1>7 DEF RowInv, TaskType, TaskRow
      <4> QED
        BY <1>8, <3>1, <4>1, <4>2
    <3>2. CASE ~Open(t)
      BY <1>5, <1>8, <3>2
    <3> QED
      BY <3>1, <3>2
  <2> QED
    <3>1. \A u \in Task \ {t} : tasks'[u] = tasks[u]
      BY <1>7
    <3>2. \A u \in Task \ {t} : Open(u)' => Open(u)
      BY <3>1 DEF Open
    <3>3. tasks'[t].project = tasks[t].project
      BY <1>8
    <3> QED
      BY <2>1, <3>1, <3>2, <3>3 DEF QuietStep
<1> QED
  BY <1>7, <1>9, <1>10, <1>11 DEF RowStep

LEMMA UpdateSteps ==
    ASSUME RowInv, NEW t \in Task, NEW frog \in {"keep", "yes", "no"},
           NEW target \in {"keep", "open", "done", "cancelled"}, UpdateTask(t, frog, target)
    PROVE  RowStep /\ OneFrog' /\ QuietStep
<1>1. Exists(t)
  BY DEF UpdateTask
<1>2. CASE target = "keep"
  <2>1. tasks' = Edited(t, frog)
    BY <1>2 DEF UpdateTask, Edited
  <2>2. Open(t) /\ Edited(t, frog)[t].frog => \A u \in Task \ {t} : ~Frog(u)
    BY <1>2 DEF UpdateTask, Edited
  <2>3. /\ Edited(t, frog) \in [Task -> TaskRow]
        /\ \A u \in Task \ {t} : Edited(t, frog)[u] = tasks[u]
        /\ Edited(t, frog)[t].status = tasks[t].status
        /\ Edited(t, frog)[t].repeat = tasks[t].repeat
        /\ Edited(t, frog)[t].project = tasks[t].project
        /\ Edited(t, frog)[t].series = tasks[t].series
        /\ Edited(t, frog)[t].revived = tasks[t].revived
    BY EditedRows
  <2>4. Changed
    BY <1>1, <2>1, <2>3 DEF Changed, Kept, Open, Exists
  <2>5. OneFrog'
    <3> SUFFICES ASSUME NEW u \in Task, NEW v \in Task, Frog(u)', Frog(v)' PROVE u = v
      BY DEF OneFrog
    <3>1. Frog(t)' => Open(t) /\ Edited(t, frog)[t].frog
      BY <2>1, <2>3 DEF Frog, Open
    <3>2. \A w \in Task \ {t} : Frog(w)' => Frog(w)
      BY <2>1, <2>3 DEF Frog, Open
    <3>3. CASE u = t \/ v = t
      BY <2>2, <3>1, <3>2, <3>3
    <3>4. CASE u # t /\ v # t
      BY <3>2, <3>4 DEF RowInv, OneFrog
    <3> QED
      BY <3>3, <3>4
  <2>6. QuietStep
    BY <2>1, <2>3 DEF QuietStep, Open
  <2> QED
    BY <2>1, <2>3, <2>4, <2>5, <2>6 DEF RowStep
<1>3. CASE target = "done"
  <2>1. Complete(Edited(t, frog), t)
    BY <1>3 DEF UpdateTask, Edited
  <2> QED
    BY <1>1, <2>1, Completing
<1>4. CASE target = "cancelled"
  <2>1. Cancel(Edited(t, frog), t)
    BY <1>4 DEF UpdateTask, Edited
  <2> QED
    BY <1>1, <2>1, CancelSteps
<1>5. CASE target = "open"
  <2>1. Reopen(Edited(t, frog), t)
    BY <1>5 DEF UpdateTask, Edited
  <2> QED
    BY <1>1, <2>1, ReopenSteps
<1> QED
  BY <1>2, <1>3, <1>4, <1>5

LEMMA DeleteSteps ==
    ASSUME RowInv, NEW t \in Task, DeleteYes(t)
    PROVE  RowStep /\ OneFrog' /\ QuietStep /\ Harmless
<1>1. Exists(t) /\ tasks' = [tasks EXCEPT ![t] = [NoTask EXCEPT !.status = "deleted"]]
  BY DEF DeleteYes
<1>2. tasks \in [Task -> TaskRow] /\ [NoTask EXCEPT !.status = "deleted"] \in TaskRow
  BY DEF RowInv, TaskType, NoTask, TaskRow, Status
<1>3. /\ tasks' \in [Task -> TaskRow] /\ \A u \in Task \ {t} : tasks'[u] = tasks[u]
      /\ tasks'[t] = [NoTask EXCEPT !.status = "deleted"]
  BY <1>1, <1>2
<1>4. tasks'[t].status = "deleted"
  BY <1>3 DEF NoTask
<1>5. Deleted
  BY <1>1, <1>3 DEF Deleted
<1>6. OneFrog' /\ QuietStep /\ Harmless
  BY <1>3, <1>4 DEF RowInv, OneFrog, Frog, QuietStep, Harmless, Open
<1> QED
  BY <1>3, <1>5, <1>6 DEF RowStep

\* A row for a new task; old says whether the frog loses its flag to it.
LEMMA InsertSteps ==
    ASSUME RowInv, NEW t \in Task, NEW frog \in BOOLEAN, NEW repeat \in BOOLEAN,
           NEW project \in Project \cup {None}, Fresh(t),
           tasks' = [(IF frog THEN WithoutFrog ELSE tasks) EXCEPT
                        ![t] = NewTask(t, frog, repeat, project)],
           project # None => projects[project] # "done"
    PROVE  RowStep /\ OneFrog' /\ QuietStep
<1> DEFINE B == IF frog THEN WithoutFrog ELSE tasks
<1>1. /\ B \in [Task -> TaskRow]
      /\ \A u \in Task : /\ B[u].status = tasks[u].status
                         /\ B[u].repeat = tasks[u].repeat
                         /\ B[u].project = tasks[u].project
                         /\ B[u].series = tasks[u].series
                         /\ B[u].revived = tasks[u].revived
                         /\ frog /\ Open(u) => ~B[u].frog
                         /\ ~Open(u) \/ ~frog => B[u] = tasks[u]
  <2>1. CASE frog
    BY <2>1, FrogTaken
  <2>2. CASE ~frog
    BY <2>2 DEF RowInv, TaskType
  <2> QED
    BY <2>1, <2>2
<1>2. tasks' = [B EXCEPT ![t] = NewTask(t, frog, repeat, project)]
  OBVIOUS
<1> HIDE DEF B
<1>3. /\ NewTask(t, frog, repeat, project).status = "open"
      /\ NewTask(t, frog, repeat, project).frog = frog
      /\ NewTask(t, frog, repeat, project).project = project
      /\ NewTask(t, frog, repeat, project).series = t
  BY DEF NewTask, NoTask
<1>4. NewTask(t, frog, repeat, project) \in TaskRow
  <2>1. [NoTask EXCEPT !.status = "open"] \in TaskRow
    BY DEF NoTask, TaskRow, Status
  <2>2. [[NoTask EXCEPT !.status = "open"] EXCEPT !.frog = frog] \in TaskRow
    BY <2>1 DEF TaskRow
  <2>3. [[[NoTask EXCEPT !.status = "open"] EXCEPT !.frog = frog] EXCEPT !.repeat = repeat]
          \in TaskRow
    BY <2>2 DEF TaskRow
  <2>4. [[[[NoTask EXCEPT !.status = "open"] EXCEPT !.frog = frog] EXCEPT !.repeat = repeat]
           EXCEPT !.project = project, !.series = t] \in TaskRow
    BY <2>3 DEF TaskRow
  <2> QED
    BY <2>4 DEF NewTask
<1>5. /\ tasks' \in [Task -> TaskRow] /\ \A u \in Task \ {t} : tasks'[u] = B[u]
      /\ tasks'[t] = NewTask(t, frog, repeat, project)
  BY <1>1, <1>2, <1>4
<1>6. \A u \in Task \ {t} : Kept(u)
  BY <1>1, <1>5 DEF Kept, Open, Exists
<1>7. Open(t)' /\ tasks'[t].series = t
  BY <1>3, <1>5 DEF Open
<1>8. Begun
  BY <1>6, <1>7 DEF Begun
<1>9. OneFrog'
  <2>1. Frog(t)' => frog
    BY <1>3, <1>5 DEF Frog
  <2>2. \A u \in Task \ {t} : Frog(u)' => ~frog /\ Frog(u)
    BY <1>1, <1>5 DEF Frog, Open
  <2> QED
    BY <2>1, <2>2 DEF RowInv, OneFrog
<1>10. QuietStep
  BY <1>1, <1>3, <1>5 DEF QuietStep, Open
<1> QED
  BY <1>5, <1>8, <1>9, <1>10 DEF RowStep

\* A phrase that fits an open task enriches it.
LEMMA EnrichSteps ==
    ASSUME RowInv, NEW t \in Task, NEW frog \in BOOLEAN, NEW repeat \in BOOLEAN,
           EnrichTask(t, frog, repeat)
    PROVE  RowStep /\ OneFrog' /\ QuietStep
<1> DEFINE B == IF frog /\ ~tasks[t].frog THEN WithoutFrog ELSE tasks
<1>1. /\ B \in [Task -> TaskRow]
      /\ \A u \in Task : /\ B[u].status = tasks[u].status
                         /\ B[u].repeat = tasks[u].repeat
                         /\ B[u].project = tasks[u].project
                         /\ B[u].series = tasks[u].series
                         /\ B[u].revived = tasks[u].revived
                         /\ frog /\ ~tasks[t].frog /\ Open(u) => ~B[u].frog
                         /\ ~Open(u) \/ ~(frog /\ ~tasks[t].frog) => B[u] = tasks[u]
  <2>1. CASE frog /\ ~tasks[t].frog
    BY <2>1, FrogTaken
  <2>2. CASE ~(frog /\ ~tasks[t].frog)
    BY <2>2 DEF RowInv, TaskType
  <2> QED
    BY <2>1, <2>2
<1>2. /\ Open(t)
      /\ tasks' = [B EXCEPT ![t].frog = @ \/ frog, ![t].repeat = @ \/ repeat]
  BY DEF EnrichTask
<1> HIDE DEF B
<1> DEFINE f == B[t].frog \/ frog
           q == B[t].repeat \/ repeat
<1>3. f \in BOOLEAN /\ q \in BOOLEAN
  BY <1>1 DEF TaskRow
<1>4. tasks' = [B EXCEPT ![t] = [[B[t] EXCEPT !.frog = f] EXCEPT !.repeat = q]]
  BY <1>1, <1>2
<1>5. /\ f <=> (B[t].frog \/ frog)
      /\ q <=> (B[t].repeat \/ repeat)
  OBVIOUS
<1> HIDE DEF f, q
<1>6. [[B[t] EXCEPT !.frog = f] EXCEPT !.repeat = q] \in TaskRow
  <2>1. [B[t] EXCEPT !.frog = f] \in TaskRow
    BY <1>1, <1>3 DEF TaskRow
  <2> QED
    BY <1>3, <2>1 DEF TaskRow
<1>7. /\ tasks' \in [Task -> TaskRow] /\ \A u \in Task \ {t} : tasks'[u] = B[u]
      /\ tasks'[t] = [[B[t] EXCEPT !.frog = f] EXCEPT !.repeat = q]
  BY <1>1, <1>4, <1>6
<1>8. /\ tasks'[t].status = tasks[t].status /\ tasks'[t].series = tasks[t].series
      /\ tasks'[t].project = tasks[t].project /\ tasks'[t].revived = tasks[t].revived
      /\ tasks'[t].repeat = q /\ tasks'[t].frog = f
  BY <1>1, <1>7 DEF TaskRow
<1>9. Changed
  BY <1>1, <1>2, <1>5, <1>7, <1>8 DEF Changed, Kept, Open, Exists
<1>10. OneFrog'
  <2>1. CASE frog /\ ~tasks[t].frog
    <3>1. \A u \in Task \ {t} : ~Frog(u)'
      BY <1>1, <1>7, <2>1 DEF Frog, Open
    <3> QED
      BY <3>1 DEF OneFrog
  <2>2. CASE ~(frog /\ ~tasks[t].frog)
    <3>1. \A u \in Task : Frog(u)' => Frog(u)
      BY <1>1, <1>2, <1>5, <1>7, <1>8, <2>2 DEF Frog, Open
    <3> QED
      BY <3>1 DEF RowInv, OneFrog
  <2> QED
    BY <2>1, <2>2
<1>11. QuietStep
  <2>1. \A u \in Task \ {t} : /\ tasks'[u].status = tasks[u].status
                              /\ tasks'[u].project = tasks[u].project
                              /\ tasks'[u].revived = tasks[u].revived
    BY <1>1, <1>7
  <2>2. \A u \in Task : /\ tasks'[u].status = tasks[u].status
                        /\ tasks'[u].project = tasks[u].project
                        /\ tasks'[u].revived = tasks[u].revived
    BY <1>8, <2>1
  <2> QED
    BY <2>2 DEF QuietStep, Open
<1> QED
  BY <1>7, <1>9, <1>10, <1>11 DEF RowStep

LEMMA SaveTasksSteps ==
    ASSUME RowInv, NEW t \in Task, NEW p \in Project, SaveTasks(p, t)
    PROVE  RowStep /\ OneFrog' /\ QuietStep
<1>1. /\ Fresh(t) /\ projects[p] = "active"
      /\ tasks' = [tasks EXCEPT ![t] = NewTask(t, FALSE, FALSE, p)]
  BY DEF SaveTasks
<1> QED
  BY <1>1, InsertSteps

LEMMA CreateTaskSteps ==
    ASSUME RowInv, NEW t \in Task, NEW frog \in BOOLEAN, NEW repeat \in BOOLEAN,
           CreateTask(t, frog, repeat)
    PROVE  RowStep /\ OneFrog' /\ QuietStep
<1>1. /\ Fresh(t)
      /\ tasks' = [(IF frog THEN WithoutFrog ELSE tasks) EXCEPT
                      ![t] = NewTask(t, frog, repeat, None)]
  BY DEF CreateTask
<1> QED
  BY <1>1, InsertSteps

\* Closing a project cancels what is open in it by now.
LEMMA ProjectYesSteps ==
    ASSUME RowInv, NEW p \in Project, ProjectYes(p)
    PROVE  RowStep /\ OneFrog' /\ ClosedProjectIsQuiet' /\ Harmless
           /\ projects' \in [Project -> {"none", "active", "done"}]
<1>1. /\ projects' = [projects EXCEPT ![p] = "done"]
      /\ tasks' = [t \in Task |-> IF t \in OpenTasks(p)
                                   THEN [tasks[t] EXCEPT !.status = "cancelled"] ELSE tasks[t]]
  BY DEF ProjectYes
<1>2. tasks \in [Task -> TaskRow] /\ projects \in [Project -> {"none", "active", "done"}]
  BY DEF RowInv, TaskType
<1>3. \A t \in Task : [tasks[t] EXCEPT !.status = "cancelled"] \in TaskRow
  BY <1>2 DEF TaskRow, Status
<1>4. tasks' \in [Task -> TaskRow]
  BY <1>1, <1>2, <1>3
<1>5. \A t \in Task :
        \/ tasks'[t] = tasks[t] /\ (tasks[t].project = p => ~Open(t))
        \/ /\ Open(t) /\ tasks[t].project = p /\ tasks'[t].status = "cancelled"
           /\ tasks'[t].series = tasks[t].series /\ tasks'[t].repeat = tasks[t].repeat
  BY <1>1, <1>2 DEF OpenTasks, TaskRow
<1>6. Changed
  BY <1>5 DEF Changed, Kept, Open, Exists
<1>7. OneFrog'
  BY <1>5 DEF RowInv, OneFrog, Frog, Open
<1>8. Harmless
  BY <1>5 DEF Harmless
<1>9. ClosedProjectIsQuiet'
  <2> SUFFICES ASSUME NEW q \in Project, projects'[q] = "done", NEW t \in Task,
                      Open(t)', tasks'[t].project = q
               PROVE  tasks'[t].revived
    BY DEF ClosedProjectIsQuiet, OpenTasks
  <2>1. tasks'[t] = tasks[t] /\ Open(t) /\ q # p
    BY <1>5 DEF Open
  <2>2. projects[q] = "done"
    BY <1>1, <1>2, <2>1
  <2> QED
    BY <2>1, <2>2 DEF RowInv, ClosedProjectIsQuiet, OpenTasks
<1> QED
  BY <1>1, <1>2, <1>4, <1>6, <1>7, <1>8, <1>9 DEF RowStep

--------------------------------------------------------------------------------
(* All steps on the rows                                                        *)

LEMMA RowsKeep ==
    ASSUME RowInv, RowStep, OneFrog', QuietStep, UNCHANGED projects
    PROVE  RowInv'
BY SeriesKeep, QuietKeeps DEF RowInv

LEMMA RowsStutter ==
    ASSUME RowInv, UNCHANGED <<tasks, projects>>
    PROVE  RowInv'
BY DEF RowInv, TaskType, Blank, SeriesNeverForks, Alone, Named, OneFrog, ClosedProjectIsQuiet,
       Open, Exists, Fresh, Frog, OpenTasks

LEMMA ButtonRows ==
    ASSUME RowInv, ByButton
    PROVE  RowInv' /\ Harmless
<1>1. ASSUME NEW t \in Task, SetFrog(t) \/ DeleteYes(t) PROVE RowInv' /\ Harmless
  <2>1. RowStep /\ OneFrog' /\ QuietStep /\ Harmless
    BY <1>1, SetFrogSteps, DeleteSteps
  <2>2. UNCHANGED projects
    BY <1>1 DEF SetFrog, DeleteYes, TasksOnly
  <2> QED
    BY <2>1, <2>2, RowsKeep
<1>2. ASSUME NEW t \in Task, FrogDone(t) \/ TaskDone(t) PROVE RowInv' /\ Harmless
  <2>1. Exists(t) /\ Complete(tasks, t) /\ UNCHANGED projects
    BY <1>2 DEF FrogDone, TaskDone, TasksOnly
  <2> QED
    BY <2>1, CompleteSteps, RowsKeep
<1>3. ASSUME NEW t \in Task, ReviewCancel(t) PROVE RowInv' /\ Harmless
  <2>1. Open(t) /\ Cancel(tasks, t) /\ UNCHANGED projects
    BY <1>3 DEF ReviewCancel, TasksOnly
  <2>2. Exists(t) /\ Edited(t, "keep") = tasks
    BY <2>1, EditedRows, StatusFacts
  <2>3. RowStep /\ OneFrog' /\ QuietStep
    BY <2>1, <2>2, CancelSteps
  <2>4. Harmless
    BY <2>1 DEF Cancel, Harmless, RowInv, TaskType
  <2> QED
    BY <2>1, <2>3, <2>4, RowsKeep
<1>4. ASSUME NEW t \in Task, ReviewTomorrow(t) PROVE RowInv' /\ Harmless
  BY <1>4, RowsStutter DEF ReviewTomorrow, Rows, Harmless
<1>5. ASSUME NEW b \in chat, PressIdle(b) PROVE RowInv' /\ Harmless
  BY <1>5, RowsStutter DEF PressIdle, Rows, Harmless
<1>6. ASSUME NEW p \in Project, ProjectYes(p) PROVE RowInv' /\ Harmless
  BY <1>6, ProjectYesSteps, SeriesKeep DEF RowInv
<1> QED
  BY <1>1, <1>2, <1>3, <1>4, <1>5, <1>6 DEF ByButton

LEMMA TextRows ==
    ASSUME RowInv, ByText
    PROVE  RowInv'
<1>1. ASSUME NEW t \in Task, NEW frog \in BOOLEAN, NEW repeat \in BOOLEAN,
             CreateTask(t, frog, repeat) \/ EnrichTask(t, frog, repeat)
      PROVE  RowInv'
  <2>1. RowStep /\ OneFrog' /\ QuietStep
    BY <1>1, CreateTaskSteps, EnrichSteps
  <2>2. UNCHANGED projects
    BY <1>1 DEF CreateTask, EnrichTask, Said
  <2> QED
    BY <2>1, <2>2, RowsKeep
<1>2. ASSUME NEW t \in Task, CompleteTask(t) \/ DoneCommand(t) PROVE RowInv'
  <2>1. Open(t) /\ Complete(tasks, t) /\ UNCHANGED projects
    BY <1>2 DEF CompleteTask, DoneCommand, Said
  <2> QED
    BY <2>1, StatusFacts, CompleteSteps, RowsKeep
<1>3. ASSUME NEW t \in Task, NEW frog \in {"keep", "yes", "no"},
             NEW target \in {"keep", "open", "done", "cancelled"}, UpdateTask(t, frog, target)
      PROVE  RowInv'
  <2>1. UNCHANGED projects
    BY <1>3 DEF UpdateTask, Said
  <2> QED
    BY <1>3, <2>1, UpdateSteps, RowsKeep
<1>4. ASSUME NEW p \in Project, NEW list \in BOOLEAN, CreateProject(p, list) PROVE RowInv'
  <2>1. /\ projects[p] = "none" /\ projects' = [projects EXCEPT ![p] = "active"]
        /\ tasks' = tasks
    BY <1>4 DEF CreateProject
  <2>2. projects' \in [Project -> {"none", "active", "done"}]
        /\ \A q \in Project : projects'[q] = "done" => projects[q] = "done"
    BY <2>1 DEF RowInv
  <2>3. ClosedProjectIsQuiet'
    BY <2>1, <2>2 DEF RowInv, ClosedProjectIsQuiet, OpenTasks, Open
  <2> QED
    BY <2>1, <2>2, <2>3 DEF RowInv, TaskType, Blank, SeriesNeverForks, Alone, Named, OneFrog,
                            Open, Exists, Fresh, Frog
<1>5. ASSUME NEW p \in Project, NEW t \in Task, SaveTasks(p, t) PROVE RowInv'
  <2>1. UNCHANGED projects
    BY <1>5 DEF SaveTasks
  <2> QED
    BY <1>5, <2>1, SaveTasksSteps, RowsKeep
<1>6. ASSUME NEW p \in Project, CompleteProject(p) PROVE RowInv'
  <2>1. CASE UNCHANGED projects
    BY <1>6, <2>1, RowsStutter DEF CompleteProject
  <2>2. CASE OpenTasks(p) = {} /\ projects' = [projects EXCEPT ![p] = "done"]
    <3>1. tasks' = tasks
      BY <1>6 DEF CompleteProject
    <3>2. projects' \in [Project -> {"none", "active", "done"}]
          /\ \A q \in Project \ {p} : projects'[q] = projects[q]
      BY <2>2 DEF RowInv
    <3>3. ClosedProjectIsQuiet'
      BY <2>2, <3>1, <3>2 DEF RowInv, ClosedProjectIsQuiet, OpenTasks, Open
    <3> QED
      BY <3>1, <3>2, <3>3 DEF RowInv, TaskType, Blank, SeriesNeverForks, Alone, Named, OneFrog,
                              Open, Exists, Fresh, Frog
  <2> QED
    BY <1>6, <2>1, <2>2 DEF CompleteProject
<1> QED
  BY <1>1, <1>2, <1>3, <1>4, <1>5, <1>6 DEF ByText

--------------------------------------------------------------------------------
(* The chat and the trips                                                       *)

LEMMA ShowKeeps ==
    ASSUME ChatType, NEW kind, NEW id, Show(kind, id), [kind |-> kind, id |-> id] \in Button
    PROVE  ChatType'
<1> DEFINE b == [kind |-> kind, id |-> id]
<1>1. Cardinality(chat) < MaxButtons /\ chat' = chat \cup {b}
  BY DEF Show
<1>2. IsFiniteSet(chat) /\ MaxButtons \in Nat
  BY PlannerAssumption DEF ChatType
<1> HIDE DEF b
<1>3. /\ IsFiniteSet(chat \cup {b}) /\ Cardinality(chat) \in Nat
      /\ Cardinality(chat \cup {b}) = Cardinality(chat)
         \/ Cardinality(chat \cup {b}) = Cardinality(chat) + 1
  BY <1>2, FS_AddElement, FS_CardinalityType
<1>4. Cardinality(chat \cup {b}) <= MaxButtons
  BY <1>1, <1>2, <1>3
<1>5. chat' \subseteq Button
  BY <1>1 DEF ChatType, b
<1> QED
  BY <1>1, <1>3, <1>4, <1>5 DEF ChatType

LEMMA PressedKeeps ==
    ASSUME ChatType, chat' \subseteq chat
    PROVE  ChatType'
<1>1. IsFiniteSet(chat) /\ MaxButtons \in Nat
  BY PlannerAssumption DEF ChatType
<1>2. /\ IsFiniteSet(chat') /\ Cardinality(chat') <= Cardinality(chat)
      /\ Cardinality(chat) \in Nat /\ Cardinality(chat') \in Nat
  BY <1>1, FS_Subset, FS_CardinalityType
<1>3. Cardinality(chat') <= MaxButtons
  BY <1>1, <1>2 DEF ChatType
<1> QED
  BY <1>2, <1>3 DEF ChatType

LEMMA ChatKeeps ==
    ASSUME ChatType, [Next]_vars
    PROVE  ChatType'
<1>1. CASE Offer
  <2>1. PICK t \in Task : ShowFrog(t) \/ ShowDone(t) \/ ShowReview(t) \/ ShowDelete(t)
    BY <1>1 DEF Offer
  <2>2. PICK kind \in {"frog_done", "set_frog", "task_done", "review", "delete_yes"} : Show(kind, t)
    BY <2>1 DEF ShowFrog, ShowDone, ShowReview, ShowDelete
  <2>3. [kind |-> kind, id |-> t] \in Button
    BY DEF Button
  <2> QED
    BY <2>2, <2>3, ShowKeeps
<1>2. CASE ByButton
  <2>1. chat' \subseteq chat
    BY <1>2 DEF ByButton, SetFrog, FrogDone, TaskDone, ReviewCancel, ReviewTomorrow, DeleteYes,
               ProjectYes, PressIdle, Press
  <2> QED
    BY <2>1, PressedKeeps
<1>3. CASE ByText
  <2>1. CASE chat' = chat
    BY <2>1, PressedKeeps
  <2>2. ASSUME NEW p \in Project, CompleteProject(p), chat' # chat PROVE ChatType'
    <3>1. Show("project_yes", p)
      BY <2>2 DEF CompleteProject
    <3>2. [kind |-> "project_yes", id |-> p] \in Button
      BY DEF Button
    <3> QED
      BY <3>1, <3>2, ShowKeeps
  <2>3. chat' = chat \/ \E p \in Project : CompleteProject(p)
    BY ZenonT(40), <1>3 DEF ByText, CreateTask, EnrichTask, CompleteTask, DoneCommand, UpdateTask, Said,
               CreateProject, SaveTasks
  <2> QED
    BY <2>1, <2>2, <2>3
<1>4. CASE Travel \/ UNCHANGED vars
  <2>1. chat' = chat
    BY <1>4 DEF Travel, ShowTrip, TripOn, TripOff, Day, TripOnly, vars
  <2> QED
    BY <2>1, PressedKeeps
<1> QED
  BY <1>1, <1>2, <1>3, <1>4 DEF Next

TripInv == trips \in [Trip -> {"none", "ahead", "over"}] /\ OneTrip

LEMMA TripsKeep ==
    ASSUME TripInv, Travel
    PROVE  TripInv'
<1>1. \A r \in Trip : WithoutExpired[r] \in {"none", "ahead"}
                     /\ (WithoutExpired[r] # "none" => WithoutExpired[r] = trips[r])
  BY DEF TripInv, WithoutExpired
<1>2. WithoutExpired \in [Trip -> {"none", "ahead", "over"}]
  BY <1>1 DEF WithoutExpired
<1> HIDE DEF WithoutExpired
<1>3. CASE ShowTrip
  BY <1>1, <1>2, <1>3 DEF ShowTrip, TripInv, OneTrip
<1>4. ASSUME NEW r \in Trip, NEW today \in {"ahead", "over"}, TripOn(r, today)
      PROVE  TripInv'
  <2>1. trips' = [WithoutExpired EXCEPT ![r] = today]
        /\ \A s \in Trip : WithoutExpired[s] = "none"
    BY <1>4 DEF TripOn
  <2>2. trips' \in [Trip -> {"none", "ahead", "over"}]
        /\ \A s \in Trip \ {r} : trips'[s] = "none"
    BY <1>2, <2>1
  <2> QED
    BY <2>2 DEF TripInv, OneTrip
<1>5. ASSUME NEW r \in Trip, TripOff(r) PROVE TripInv'
  <2>1. trips' = [WithoutExpired EXCEPT ![r] = "none"]
    BY <1>5 DEF TripOff
  <2>2. trips' \in [Trip -> {"none", "ahead", "over"}]
        /\ \A s \in Trip : trips'[s] # "none" => trips[s] # "none"
    BY <1>1, <1>2, <2>1
  <2> QED
    BY <2>2 DEF TripInv, OneTrip
<1>6. ASSUME NEW r \in Trip, NEW today \in {"ahead", "over"}, Day(r, today) PROVE TripInv'
  <2>1. trips[r] # "none" /\ trips' = [trips EXCEPT ![r] = today]
    BY <1>6 DEF Day
  <2>2. trips' \in [Trip -> {"none", "ahead", "over"}]
        /\ \A s \in Trip : trips'[s] # "none" => trips[s] # "none"
    BY <2>1 DEF TripInv
  <2> QED
    BY <2>2 DEF TripInv, OneTrip
<1> QED
  BY <1>3, <1>4, <1>5, <1>6 DEF Travel

--------------------------------------------------------------------------------
(* The theorems                                                                 *)

LEMMA Parts == TypeOK /\ IsFiniteSet(chat) <=> TaskType /\ ChatType /\ OtherType
BY DEF TypeOK, TaskType, Blank, ChatType, OtherType

LEMMA InitInv == Init => Inv
<1> SUFFICES ASSUME Init PROVE Inv
  OBVIOUS
<1>1. NoTask \in TaskRow /\ NoTask.status = "none" /\ NoTask.series = None
  BY DEF NoTask, TaskRow, Status
<1>2. [NoTask EXCEPT !.status = NoTask.status] = NoTask
  BY DEF NoTask
<1>3. \A t \in Task : tasks[t] = NoTask
  BY DEF Init
<1>4. TaskType
  BY <1>1, <1>2, <1>3 DEF Init, TaskType, Blank
<1>5. \A t \in Task : ~Exists(t) /\ ~Open(t) /\ ~Frog(t)
  BY <1>1, <1>3 DEF Exists, Open, Frog
<1>6. RowInv
  BY <1>1, <1>3, <1>4, <1>5 DEF Init, RowInv, SeriesNeverForks, Alone, Named, OneFrog,
                                ClosedProjectIsQuiet, OpenTasks
<1>7. ChatType
  BY FS_EmptySet, PlannerAssumption DEF Init, ChatType
<1>8. OtherType /\ OneTrip
  BY DEF Init, OtherType, OneTrip
<1> QED
  BY <1>6, <1>7, <1>8 DEF Inv

LEMMA OthersKeepType ==
    ASSUME Inv, RowInv', [Next]_vars
    PROVE  OtherType' /\ OneTrip'
<1>1. prepared' \subseteq Project
  BY ZenonT(40) DEF Inv, OtherType, Next, Offer, ShowFrog, ShowDone, ShowReview, ShowDelete, Rows,
         ByButton, SetFrog, FrogDone, TaskDone, ReviewCancel, ReviewTomorrow, DeleteYes,
         ProjectYes, PressIdle, TasksOnly, ByText, CreateTask, EnrichTask, CompleteTask,
         DoneCommand, UpdateTask, Said, CreateProject, SaveTasks, CompleteProject, Travel,
         ShowTrip, TripOn, TripOff, Day, TripOnly, vars
<1>2. TripInv'
  <2>1. CASE Travel
    BY <2>1, TripsKeep DEF Inv, OtherType, TripInv
  <2>2. CASE ~Travel
    <3>1. trips' = trips
      BY ZenonT(40), <2>2 DEF Next, Offer, ShowFrog, ShowDone, ShowReview, ShowDelete, Rows,
             ByButton, SetFrog, FrogDone, TaskDone, ReviewCancel, ReviewTomorrow, DeleteYes,
             ProjectYes, PressIdle, TasksOnly, ByText, CreateTask, EnrichTask, CompleteTask,
             DoneCommand, UpdateTask, Said, CreateProject, SaveTasks, CompleteProject, vars
    <3> QED
      BY <3>1 DEF Inv, OtherType, TripInv, OneTrip
  <2> QED
    BY <2>1, <2>2
<1> QED
  BY <1>1, <1>2 DEF RowInv, OtherType, TripInv

LEMMA InvStep == Inv /\ [Next]_vars => Inv'
<1> SUFFICES ASSUME Inv, [Next]_vars PROVE Inv'
  OBVIOUS
<1>1. RowInv'
  <2>1. CASE Offer \/ Travel \/ UNCHANGED vars
    <3>1. UNCHANGED <<tasks, projects>>
      BY <2>1 DEF Offer, ShowFrog, ShowDone, ShowReview, ShowDelete, Rows, Travel, ShowTrip,
                 TripOn, TripOff, Day, TripOnly, vars
    <3> QED
      BY <3>1, RowsStutter DEF Inv
  <2> QED
    BY <2>1, ButtonRows, TextRows DEF Inv, Next
<1>2. ChatType'
  BY ChatKeeps DEF Inv
<1>3. OtherType' /\ OneTrip'
  BY <1>1, OthersKeepType
<1> QED
  BY <1>1, <1>2, <1>3 DEF Inv

THEOREM Invariance == Spec => []Inv
BY InitInv, InvStep, PTL DEF Spec

\* Whatever old button is pressed and whatever a text says, there is one frog and one open
\* trip, so the partial unique index refuses nothing but a direct edit (crud/tasks.py,
\* crud/trips.py).
THEOREM FrogAndTripAreSingle == Spec => []OneFrogOneTrip
<1>1. Inv => OneFrogOneTrip
  BY Parts DEF Inv, RowInv, OneFrogOneTrip
<1> QED
  BY <1>1, Invariance, PTL

\* A recurring series has one open occurrence at most (services/tasks.py:70-71).
THEOREM SeriesStaySingle == Spec => []SeriesNeverForks
<1>1. Inv => SeriesNeverForks
  BY DEF Inv, RowInv
<1> QED
  BY <1>1, Invariance, PTL

\* A closed project gets no open task but one that was opened again
\* (crud/projects.py, services/tasks.py).
THEOREM ClosedProjectsStayQuiet == Spec => []ClosedProjectIsQuiet
<1>1. Inv => ClosedProjectIsQuiet
  BY DEF Inv, RowInv
<1> QED
  BY <1>1, Invariance, PTL

\* No button of the chat, however old, changes the status of a closed task but to delete
\* it (handlers/commands.py, handlers/evening_review.py).
THEOREM ButtonsAreHarmless == Spec => LateButtonsAreHarmless
<1>1. Inv /\ [Next]_vars =>
        [ByButton => \A t \in Task : Exists(t) /\ ~Open(t)
                      => tasks'[t].status \in {tasks[t].status, "deleted"}]_vars
  <2> SUFFICES ASSUME Inv, ByButton
               PROVE  \A t \in Task : Exists(t) /\ ~Open(t)
                         => tasks'[t].status \in {tasks[t].status, "deleted"}
    OBVIOUS
  <2>1. Harmless
    BY ButtonRows DEF Inv
  <2> QED
    BY <2>1 DEF Harmless
<1> QED
  BY <1>1, Invariance, PTL DEF Spec, LateButtonsAreHarmless
================================================================================
