------------------------------ MODULE Reminders ------------------------------
(***************************************************************************)
(* Durable alarms of one user: the rows of table `reminders`, the two      *)
(* sender loops (reminders, every 30 s, and sweep, every 5 min), the       *)
(* buttons under a delivered alarm (snooze, done, retry) and the task      *)
(* operations that close or re-time the alarms of a task.                  *)
(*                                                                         *)
(* A database transaction that locks its row first (SELECT ... FOR UPDATE) *)
(* is one step.  A handler that reads a row without a lock and writes it   *)
(* later is two steps; the ORM then writes only the columns whose value    *)
(* differs from the value it READ (operator Flush).                        *)
(*                                                                         *)
(* The updates of one user are handled one at a time (the dispatcher is    *)
(* built with SimpleEventIsolation): at most one handler is between two of *)
(* its steps.  The loops, the clock and crashes interleave with it.        *)
(*                                                                         *)
(* Time is abstract: whether a row is due, a lease still lives or a        *)
(* back-off is over changes in steps of its own.                           *)
(***************************************************************************)
EXTENDS Integers, FiniteSets

CONSTANTS
    Row, Task,       \* identities of reminder rows and of tasks (both pools are bounds)
    Worker,          \* the sender loops; a worker also names the lease it holds
    NoRow, NoTask, NoWorker,
    MaxAttempts,     \* record_delivery_failure: 5
    MaxSnooze,       \* snooze_reminder and MAX_SNOOZE: 5
    MaxOcc,          \* bound: occurrences of a series lie on the grid 0..MaxOcc
    Rules,           \* which values `repeat_rule is set` new alarms and tasks may take
    EarlyTaps,       \* may the user tap before the sender has recorded the delivery?
    MaxCreated,      \* bound: alarms and tasks the user creates
    MaxEvents        \* bound: the user's taps and task operations, lost answers,
                     \* database errors, crashes and leases lost at work, all together

ASSUME RemindersAssumption ==
    /\ NoRow \notin Row /\ NoTask \notin Task /\ NoWorker \notin Worker
    /\ IsFiniteSet(Worker)
    /\ MaxAttempts \in Nat \ {0} /\ MaxSnooze \in Nat /\ MaxOcc \in Nat
    /\ MaxCreated \in Nat /\ MaxEvents \in Nat
    /\ Rules \subseteq BOOLEAN /\ EarlyTaps \in BOOLEAN

VARIABLES
    row,        \* row[r]: the columns of reminder r
    task,       \* task[t]: the columns of task t that alarms depend on
    job,        \* job[w]: where sender loop w stands in its batch of claims
    tap,        \* the user's callback between its read and its write
    shown,      \* rows whose alarm has appeared in the chat, with its buttons
    budget,     \* how many creations and events have happened
    allowance,  \* history: activations and faults of r that explain a message, less the
                \* messages Telegram accepted for r
    window,     \* history: sends of r past their last check when r was closed, less the
                \* messages accepted since
    promised    \* history: rows the user was told are postponed, new time not reached

history == <<allowance, window, promised>>
vars == <<row, task, job, tap, shown, budget, allowance, window, promised>>

-----------------------------------------------------------------------------
(* Columns *)

OffGrid == MaxOcc + 1      \* any instant that no recurrence of the series reaches
Occurrence == 0 .. OffGrid
Waiting == {"pending", "snoozed"}
Closed == {"resolved", "cancelled"}
Unclosed == Waiting \cup {"delivered", "failed"}
Status == Unclosed \cup Closed \cup {"absent"}

\* remind_at and occurrence_at are always assigned together: both are `occ`.
Reminder == [status: Status, sent: BOOLEAN, rule: BOOLEAN, series: Row, occ: Occurrence,
             task: Task \cup {NoTask}, lease: Worker \cup {NoWorker}, live: BOOLEAN,
             due: BOOLEAN, backoff: {"none", "waiting", "over"},
             attempts: Nat, snoozes: 0 .. MaxSnooze]

NewReminder(series, occ, rule, t) ==
    [status |-> "pending", sent |-> FALSE, rule |-> rule, series |-> series, occ |-> occ,
     task |-> t, lease |-> NoWorker, live |-> FALSE, due |-> FALSE, backoff |-> "none",
     attempts |-> 0, snoozes |-> 0]

AbsentReminder(r) == [NewReminder(r, 0, FALSE, NoTask) EXCEPT !.status = "absent"]

TaskColumns == [status: {"absent", "open", "done", "cancelled"},
                repeats: BOOLEAN, alarm: BOOLEAN]

\* The row after an ORM flush: `old` is what the session read, `new` what the
\* handler assigned, `cur` what the table holds now.
Flush(cur, old, new) ==
    [status   |-> IF new.status = old.status THEN cur.status ELSE new.status,
     sent     |-> IF new.sent = old.sent THEN cur.sent ELSE new.sent,
     rule     |-> IF new.rule = old.rule THEN cur.rule ELSE new.rule,
     series   |-> cur.series,
     occ      |-> IF new.occ = old.occ THEN cur.occ ELSE new.occ,
     task     |-> cur.task,
     lease    |-> IF new.lease = old.lease THEN cur.lease ELSE new.lease,
     live     |-> cur.live /\ (new.lease = old.lease \/ new.lease # NoWorker),
     due      |-> cur.due,
     backoff  |-> IF new.backoff = old.backoff THEN cur.backoff ELSE new.backoff,
     attempts |-> IF new.attempts = old.attempts THEN cur.attempts ELSE new.attempts,
     snoozes  |-> IF new.snoozes = old.snoozes THEN cur.snoozes ELSE new.snoozes]

Exists(r) == row[r].status # "absent"
Fresh == {r \in Row : ~Exists(r)}
TaskOpen(t) == t # NoTask => task[t].status = "open"

\* uq_reminder_series_occurrence; two instants off the grid never coincide.
Taken(r, series, occ) ==
    /\ occ # OffGrid
    /\ \E s \in Row \ {r} : Exists(s) /\ row[s].series = series /\ row[s].occ = occ


\* A sender loop: its program counter, the claim it works on, whether the last
\* exception was terminal, and the claims of its batch still to come.
IdleJob == [pc |-> "idle", row |-> NoRow, terminal |-> FALSE, left |-> {}]
Job == [pc: {"idle", "check", "send", "mark", "fail"}, row: Row \cup {NoRow},
        terminal: BOOLEAN, left: SUBSET Row]

\* A callback: which button, on which row, the row as it was read, the new time.
IdleTap == [pc |-> "idle", row |-> NoRow, snap |-> NoRow, target |-> 0]
Callback == [pc: {"idle", "snooze", "done"}, row: Row \cup {NoRow},
             snap: Reminder \cup {NoRow}, target: Occurrence]

Init ==
    /\ row = [r \in Row |-> AbsentReminder(r)]
    /\ task = [t \in Task |-> [status |-> "absent", repeats |-> FALSE, alarm |-> FALSE]]
    /\ job = [w \in Worker |-> IdleJob]
    /\ tap = IdleTap
    /\ shown = {}
    /\ budget = [created |-> 0, events |-> 0]
    /\ allowance = [r \in Row |-> 0]
    /\ window = [r \in Row |-> 0]
    /\ promised = {}

-----------------------------------------------------------------------------
(* The user creates alarms and tasks *)

Event == /\ budget.events < MaxEvents
         /\ budget' = [budget EXCEPT !.events = @ + 1]

\* SimpleEventIsolation: no other update of the user is being handled.
Isolated == tap.pc = "idle"

\* create_reminder: a new series of its own.
CreateReminder(r, rule) ==
    /\ Isolated
    /\ ~Exists(r)
    /\ budget.created < MaxCreated
    /\ budget' = [budget EXCEPT !.created = @ + 1]
    /\ row' = [row EXCEPT ![r] = NewReminder(r, 0, rule, NoTask)]
    /\ allowance' = [allowance EXCEPT ![r] = 1]
    /\ UNCHANGED <<task, job, tap, shown, window, promised>>

\* _create_new_task: the task and its bound alarm in one transaction.
CreateTask(t, r, repeats) ==
    /\ Isolated
    /\ task[t].status = "absent" /\ ~Exists(r)
    /\ budget.created < MaxCreated
    /\ budget' = [budget EXCEPT !.created = @ + 1]
    /\ task' = [task EXCEPT ![t] = [status |-> "open", repeats |-> repeats, alarm |-> TRUE]]
    /\ row' = [row EXCEPT ![r] = NewReminder(r, 0, FALSE, t)]
    /\ allowance' = [allowance EXCEPT ![r] = 1]
    /\ UNCHANGED <<job, tap, shown, window, promised>>

-----------------------------------------------------------------------------
(* The sender loops *)

\* Mutant: a lease does not keep the other loop away.
ClaimableThoughLeased(r) ==
    /\ row[r].status \in Waiting /\ ~row[r].sent
    /\ row[r].due
    /\ row[r].backoff # "waiting"
    /\ TaskOpen(row[r].task)

Claimable(r) ==
    /\ row[r].status \in Waiting /\ ~row[r].sent
    /\ row[r].due
    /\ row[r].backoff # "waiting"
    /\ row[r].lease = NoWorker \/ ~row[r].live
    /\ TaskOpen(row[r].task)

\* claim_due_reminders: one transaction leases every due row (the limit of 50
\* rows is not reached by the bounded pool).
Claim(w) ==
    LET claims == {r \in Row : Claimable(r)} IN
    /\ job[w].pc = "idle" /\ claims # {}
    /\ row' = [r \in Row |-> IF r \in claims
                             THEN [row[r] EXCEPT !.lease = w, !.live = TRUE]
                             ELSE row[r]]
    /\ job' = [job EXCEPT ![w] = [IdleJob EXCEPT !.pc = "check", !.left = claims]]
    /\ UNCHANGED <<task, tap, shown, budget, history>>

\* Mutant: the check before the send looks at the lease only.
ClaimIsActiveByLease(w, r) == row[r].lease # NoWorker /\ row[r].live

ClaimIsActive(w, r) ==
    /\ row[r].lease = w /\ row[r].live
    /\ ~row[r].sent /\ row[r].status \in Waiting

\* The job of w after its current claim is dealt with.
Proceed(w) == IF job[w].left = {} THEN IdleJob
              ELSE [IdleJob EXCEPT !.pc = "check", !.left = job[w].left]

\* _deliver_claim up to the send: a claim that is no longer active is dropped.
Check(w, r) ==
    /\ job[w].pc = "check" /\ r \in job[w].left
    /\ LET left == job[w].left \ {r} IN
       job' = [job EXCEPT ![w] =
                 IF ClaimIsActive(w, r)
                 THEN [IdleJob EXCEPT !.pc = "send", !.row = r, !.left = left]
                 ELSE IF left = {} THEN IdleJob
                 ELSE [IdleJob EXCEPT !.pc = "check", !.left = left]]
    /\ UNCHANGED <<row, task, tap, shown, budget, history>>

\* The sends of r that an operation closing r can no longer stop.
CountWindow ==
    window' = [r \in Row |->
                 IF row'[r].status \in Closed /\ row[r].status \notin Closed
                 THEN Cardinality({w \in Worker : job[w].pc = "send" /\ job[w].row = r})
                 ELSE window[r]]

\* Telegram accepts the message for r; `lost` is 1 when its answer is lost.
Accepted(r, lost) ==
    /\ shown' = shown \cup {r}
    /\ allowance' = [allowance EXCEPT ![r] = @ - 1 + lost]
    /\ window' = [window EXCEPT ![r] = IF row[r].status \in Closed THEN @ - 1 ELSE @]

SendOk(w) ==
    /\ job[w].pc = "send"
    /\ Accepted(job[w].row, 0)
    /\ job' = [job EXCEPT ![w].pc = "mark"]
    /\ UNCHANGED <<row, task, tap, budget, promised>>

\* Mutant: after a failed send the loop goes on to mark_sent.
SendRefusedMarked(w, terminal) ==
    /\ job[w].pc = "send"
    /\ job' = [job EXCEPT ![w].pc = "mark", ![w].terminal = terminal]
    /\ UNCHANGED <<row, task, tap, shown, budget, history>>

\* send_message raises and nothing was shown; TelegramBadRequest and
\* TelegramForbiddenError are terminal.
SendRefused(w, terminal) ==
    /\ job[w].pc = "send"
    /\ job' = [job EXCEPT ![w].pc = "fail", ![w].terminal = terminal]
    /\ UNCHANGED <<row, task, tap, shown, budget, history>>

\* Telegram accepts the message but its answer is lost: send_message raises.
SendAmbiguous(w) ==
    /\ job[w].pc = "send"
    /\ Event
    /\ Accepted(job[w].row, 1)
    /\ job' = [job EXCEPT ![w].pc = "fail"]
    /\ UNCHANGED <<row, task, tap, promised>>

\* Mutant: the token is not compared.
MarkableByAnyone(w) == ~row[job[w].row].sent

\* mark_sent finds the row under its lease, not yet sent.
Markable(w) == row[job[w].row].lease = w /\ ~row[job[w].row].sent

DeliveredRow(r) == [row[r] EXCEPT !.sent = TRUE, !.status = "delivered",
                                  !.lease = NoWorker, !.live = FALSE,
                !.backoff = "none"]

\* next_future_occurrence: missed occurrences are skipped, so any later point
\* of the grid; a series that was moved off the grid stays off it.
NextOccurrences(occ) == IF occ = OffGrid THEN {OffGrid} ELSE (occ + 1) .. MaxOcc

MarkSentStale(w) ==
    /\ job[w].pc = "mark" /\ ~Markable(w)
    /\ job' = [job EXCEPT ![w] = Proceed(w)]
    /\ UNCHANGED <<row, task, tap, shown, budget, history>>

MarkSentOnce(w) ==
    LET r == job[w].row IN
    /\ job[w].pc = "mark" /\ Markable(w) /\ ~row[r].rule
    /\ row' = [row EXCEPT ![r] = DeliveredRow(r)]
    /\ job' = [job EXCEPT ![w] = Proceed(w)]
    /\ UNCHANGED <<task, tap, shown, budget, history>>

\* Mutant: the next occurrence is inserted without its rule.
MarkSentRepeatOnce(w, next, n) ==
    LET r == job[w].row IN
    /\ job[w].pc = "mark" /\ Markable(w) /\ row[r].rule
    /\ next \in NextOccurrences(row[r].occ)
    /\ ~Taken(n, row[r].series, next)
    /\ ~Exists(n)
    /\ row' = [row EXCEPT ![r] = DeliveredRow(r),
                          ![n] = NewReminder(row[r].series, next, FALSE, row[r].task)]
    /\ allowance' = [allowance EXCEPT ![n] = 1]
    /\ job' = [job EXCEPT ![w] = Proceed(w)]
    /\ UNCHANGED <<task, tap, shown, budget, window, promised>>

\* A recurring alarm: the next occurrence is inserted in the same transaction.
MarkSentRepeat(w, next, n) ==
    LET r == job[w].row IN
    /\ job[w].pc = "mark" /\ Markable(w) /\ row[r].rule
    /\ next \in NextOccurrences(row[r].occ)
    /\ ~Taken(n, row[r].series, next)
    /\ ~Exists(n)
    /\ row' = [row EXCEPT ![r] = DeliveredRow(r),
                          ![n] = NewReminder(row[r].series, next, TRUE, row[r].task)]
    /\ allowance' = [allowance EXCEPT ![n] = 1]
    /\ job' = [job EXCEPT ![w] = Proceed(w)]
    /\ UNCHANGED <<task, tap, shown, budget, window, promised>>

\* The insert breaks uq_reminder_series_occurrence: the transaction is rolled
\* back and the except branch of _deliver_claim takes over.
MarkSentConflict(w, next) ==
    LET r == job[w].row IN
    /\ job[w].pc = "mark" /\ Markable(w) /\ row[r].rule
    /\ next \in NextOccurrences(row[r].occ)
    /\ Taken(r, row[r].series, next)
    /\ allowance' = [allowance EXCEPT ![r] = @ + 1]
    /\ job' = [job EXCEPT ![w].pc = "fail"]
    /\ UNCHANGED <<row, task, tap, shown, budget, window, promised>>

MarkSentDbError(w) ==
    /\ job[w].pc = "mark"
    /\ Event
    /\ allowance' = [allowance EXCEPT ![job[w].row] = @ + 1]
    /\ job' = [job EXCEPT ![w].pc = "fail"]
    /\ UNCHANGED <<row, task, tap, shown, window, promised>>

\* Mutant: attempts are not counted, so a poisoned alarm is retried for ever.
FailedRowUncounted(r, terminal) ==
    [row[r] EXCEPT !.status = IF terminal THEN "failed" ELSE @,
                   !.sent = @ /\ ~terminal,
                   !.backoff = "waiting", !.lease = NoWorker, !.live = FALSE]

\* record_delivery_failure, under the same lease and only while not sent.
FailedRow(r, terminal) ==
    LET attempts == row[r].attempts + 1
        final == terminal \/ attempts >= MaxAttempts
    IN [row[r] EXCEPT !.attempts = attempts,
                      !.status = IF final THEN "failed" ELSE @,
                      !.sent = @ /\ ~final,
                      !.backoff = "waiting", !.lease = NoWorker, !.live = FALSE]

RecordFailure(w) ==
    LET r == job[w].row IN
    /\ job[w].pc = "fail"
    /\ row' = IF Markable(w) THEN [row EXCEPT ![r] = FailedRow(r, job[w].terminal)] ELSE row
    /\ job' = [job EXCEPT ![w] = Proceed(w)]
    /\ UNCHANGED <<task, tap, shown, budget, history>>

\* Recording the failure fails too: it is only logged.
RecordFailureLost(w) ==
    /\ job[w].pc = "fail"
    /\ Event
    /\ job' = [job EXCEPT ![w] = Proceed(w)]
    /\ UNCHANGED <<row, task, tap, shown, history>>

-----------------------------------------------------------------------------
(* The clock and the process *)

\* A bound: a recurring alarm comes due only while the grid and the pool can
\* still decide its next occurrence.
RoomForNext(r) ==
    row[r].rule => /\ row[r].occ # MaxOcc
                   /\ \/ Fresh # {}
                      \/ \A next \in NextOccurrences(row[r].occ) : Taken(r, row[r].series, next)

\* remind_at passes.
BecomesDue(r) ==
    /\ Exists(r) /\ ~row[r].sent /\ ~row[r].due /\ RoomForNext(r)
    /\ row' = [row EXCEPT ![r].due = TRUE]
    /\ promised' = promised \ {r}
    /\ UNCHANGED <<task, job, tap, shown, budget, allowance, window>>

\* A loop works on its claim of r, between its last check and the record.
Working(r, pcs) == \E w \in Worker : /\ job[w].row = r /\ row[r].lease = w
                                     /\ job[w].pc \in pcs

\* Five minutes pass.  Losing the lease between the last check and the
\* acknowledgement is one of the faults that explain a repeated message.
LeaseLapse(r) ==
    /\ row[r].lease # NoWorker /\ row[r].live
    /\ row' = [row EXCEPT ![r].live = FALSE]
    /\ IF Working(r, {"send", "mark", "fail"}) THEN Event ELSE UNCHANGED budget
    /\ allowance' = IF Working(r, {"send", "mark"}) THEN [allowance EXCEPT ![r] = @ + 1]
                    ELSE allowance
    /\ UNCHANGED <<task, job, tap, shown, window, promised>>

BackoffOver(r) ==
    /\ row[r].backoff = "waiting"
    /\ row' = [row EXCEPT ![r].backoff = "over"]
    /\ UNCHANGED <<task, job, tap, shown, budget, history>>

\* The process dies and starts again: loops and callbacks are gone, leases stay.
Crash ==
    /\ Event
    /\ job' = [w \in Worker |-> IdleJob]
    /\ tap' = IdleTap
    /\ allowance' = [r \in Row |-> IF \E w \in Worker : job[w].row = r /\ job[w].pc = "mark"
                                THEN allowance[r] + 1 ELSE allowance[r]]
    /\ UNCHANGED <<row, task, shown, window, promised>>

-----------------------------------------------------------------------------
(* The buttons under an alarm *)

Tappable(r) == r \in shown /\ (EarlyTaps \/ row[r].sent)

\* "+30 min" and "+1 hour" leave the grid; "tomorrow morning" may fall on the
\* instant of an occurrence that is still to come.
SnoozeTargets(r) == {OffGrid} \cup {k \in 0 .. MaxOcc : row[r].occ = OffGrid \/ k > row[r].occ}

\* snooze_reminder reads the row without a lock; at the limit it returns.
SnoozeRead(r, target) ==
    /\ Isolated /\ Tappable(r)
    /\ target \in SnoozeTargets(r)
    /\ row[r].snoozes < MaxSnooze
    /\ Event
    /\ tap' = [IdleTap EXCEPT !.pc = "snooze", !.row = r, !.snap = row[r], !.target = target]
    /\ UNCHANGED <<row, task, job, shown, history>>

\* Mutants: a delivered occurrence keeps its rule; the row stays marked sent.
SnoozedRowRepeating(old, target) ==
    [old EXCEPT !.occ = target, !.sent = FALSE, !.status = "snoozed",
                !.lease = NoWorker, !.live = FALSE, !.backoff = "none",
                !.attempts = 0, !.snoozes = @ + 1]

SnoozedRowStillSent(old, target) ==
    [old EXCEPT !.rule = @ /\ ~old.sent, !.occ = target,
                !.status = "snoozed", !.lease = NoWorker, !.live = FALSE,
                !.backoff = "none", !.attempts = 0, !.snoozes = @ + 1]

SnoozedRow(old, target) ==
    [old EXCEPT !.rule = @ /\ ~old.sent, !.occ = target, !.sent = FALSE,
                !.status = "snoozed", !.lease = NoWorker, !.live = FALSE,
                !.backoff = "none",
                !.attempts = 0, !.snoozes = @ + 1]

\* ... and writes it; a broken unique constraint ends the callback instead.
SnoozeWrite ==
    LET r == tap.row
        new == [Flush(row[r], tap.snap, SnoozedRow(tap.snap, tap.target))
                EXCEPT !.due = FALSE]
        saved == ~Taken(r, new.series, new.occ)
    IN
    /\ tap.pc = "snooze"
    /\ row' = IF saved THEN [row EXCEPT ![r] = new] ELSE row
    /\ allowance' = IF saved THEN [allowance EXCEPT ![r] = @ + 1] ELSE allowance
    /\ promised' = IF saved /\ new.snoozes < MaxSnooze THEN promised \cup {r} ELSE promised
    /\ tap' = IdleTap
    /\ UNCHANGED <<task, job, shown, budget, window>>

\* cb_snooze_done reads the row; the second step depends on its task.
DoneRead(r) ==
    /\ Isolated /\ Tappable(r)
    /\ Event
    /\ tap' = [IdleTap EXCEPT !.pc = "done", !.row = r, !.snap = row[r]]
    /\ UNCHANGED <<row, task, job, shown, history>>

\* resolve_reminder: an alarm of its own.
ResolvedRow(old) == [old EXCEPT !.status = "resolved", !.sent = TRUE]

DoneWrite ==
    LET r == tap.row
        old == tap.snap
    IN
    /\ tap.pc = "done" /\ old.task = NoTask
    /\ row' = IF old.status = "resolved" THEN row
              ELSE [row EXCEPT ![r] = Flush(row[r], old, ResolvedRow(old))]
    /\ promised' = promised \ {r}
    /\ tap' = IdleTap
    /\ CountWindow
    /\ UNCHANGED <<task, job, shown, budget, allowance>>

\* retry_failed_reminder: row lock first, then the state of the task.
Retry(r) ==
    /\ Isolated
    /\ row[r].status = "failed" /\ TaskOpen(row[r].task)
    /\ Event
    /\ row' = [row EXCEPT ![r].status = "pending", ![r].sent = FALSE, ![r].attempts = 0,
                          ![r].backoff = "over", ![r].lease = NoWorker, ![r].live = FALSE]
    /\ allowance' = [allowance EXCEPT ![r] = @ + 1]
    /\ UNCHANGED <<task, job, tap, shown, window, promised>>

-----------------------------------------------------------------------------
(* Task operations: the task row is locked first *)

AlarmsOf(t) == {r \in Row : row[r].task = t /\ row[r].status \in Unclosed}

\* The alarms of t closed with `status`; read(r) is the row as the session holds it.
CloseAlarms(t, status, read) ==
    [r \in Row |-> IF r \in AlarmsOf(t)
                   THEN Flush(row[r], read[r],
                              [read[r] EXCEPT !.status = status, !.sent = TRUE, !.lease = NoWorker])
                   ELSE row[r]]

\* complete_task_workflow: a recurring task is continued by a next task, with
\* an alarm of its own when the task had one.
CompleteOnce(t, read) ==
    /\ task[t].status = "open" /\ ~task[t].repeats
    /\ task' = [task EXCEPT ![t].status = "done"]
    /\ row' = CloseAlarms(t, "resolved", read)
    /\ promised' = promised \ AlarmsOf(t)
    /\ UNCHANGED allowance

CompleteRepeat(t, read, next, n) ==
    /\ task[t].status = "open" /\ task[t].repeats
    /\ task[next].status = "absent" /\ ~Exists(n)
    /\ task' = [task EXCEPT ![t].status = "done", ![next] = task[t]]
    /\ row' = IF task[t].alarm
              THEN [CloseAlarms(t, "resolved", read) EXCEPT ![n] = NewReminder(n, 0, FALSE, next)]
              ELSE CloseAlarms(t, "resolved", read)
    /\ allowance' = IF task[t].alarm THEN [allowance EXCEPT ![n] = 1] ELSE allowance
    /\ promised' = promised \ AlarmsOf(t)

Complete(t, read) == \/ CompleteOnce(t, read)
                     \/ \E next \in Task, n \in Row : CompleteRepeat(t, read, next, n)

\* A message or a command completes the task.
CompleteTask(t) ==
    /\ Isolated /\ Event
    /\ Complete(t, row)
    /\ CountWindow
    /\ UNCHANGED <<job, tap, shown>>

\* "Done" under the alarm of a task: the session still holds the row it read.
DoneTask ==
    LET r == tap.row
        t == tap.snap.task
    IN
    /\ tap.pc = "done" /\ t # NoTask
    /\ \/ Complete(t, [row EXCEPT ![r] = tap.snap])
       \/ task[t].status # "open" /\ UNCHANGED <<row, task, allowance, promised>>
    /\ tap' = IdleTap
    /\ CountWindow
    /\ UNCHANGED <<job, shown, budget>>

\* update_task_workflow(status="cancelled").
CancelTask(t) ==
    /\ Isolated
    /\ task[t].status # "absent"
    /\ Event
    /\ task' = [task EXCEPT ![t].status = "cancelled"]
    /\ row' = CloseAlarms(t, "cancelled", row)
    /\ promised' = promised \ AlarmsOf(t)
    /\ CountWindow
    /\ UNCHANGED <<job, tap, shown, allowance>>

\* update_task_workflow(status="open"): refused for a recurring task.
ReopenTask(t) ==
    /\ Isolated
    /\ task[t].status \in {"done", "cancelled"} /\ ~task[t].repeats
    /\ Event
    /\ task' = [task EXCEPT ![t].status = "open"]
    /\ UNCHANGED <<row, job, tap, shown, history>>

\* _sync_bound_alarm with the deadline cleared.
ClearDeadline(t) ==
    /\ Isolated
    /\ task[t].status = "open"
    /\ Event
    /\ task' = [task EXCEPT ![t].alarm = FALSE]
    /\ row' = CloseAlarms(t, "cancelled", row)
    /\ promised' = promised \ AlarmsOf(t)
    /\ CountWindow
    /\ UNCHANGED <<job, tap, shown, allowance>>

\* upsert_task_reminder takes the latest row of the task that is not delivered
\* or closed (any of them here), under a row lock, or inserts one.
Movable(t) == {r \in AlarmsOf(t) : row[r].status # "delivered"}

MovedRow(old, occ) ==
    [old EXCEPT !.occ = occ, !.rule = FALSE, !.sent = FALSE, !.status = "pending",
                !.lease = NoWorker, !.live = FALSE, !.due = FALSE,
                !.backoff = "none", !.attempts = 0]

MoveDeadline(t, r, occ) ==
    /\ Isolated
    /\ task[t].status = "open"
    /\ IF Movable(t) # {} THEN r \in Movable(t) ELSE ~Exists(r)
    /\ ~Taken(r, row[r].series, occ)
    /\ Event
    /\ task' = [task EXCEPT ![t].alarm = TRUE]
    /\ row' = [row EXCEPT ![r] = IF Exists(r) THEN MovedRow(row[r], occ)
                                 ELSE NewReminder(r, occ, FALSE, t)]
    /\ allowance' = [allowance EXCEPT ![r] = @ + 1]
    /\ promised' = promised \ {r}
    /\ UNCHANGED <<job, tap, shown, window>>

-----------------------------------------------------------------------------
Create == \/ \E r \in Row, rule \in Rules : CreateReminder(r, rule)
          \/ \E t \in Task, r \in Row, repeats \in Rules : CreateTask(t, r, repeats)

MarkSent(w) == \/ MarkSentStale(w)
               \/ MarkSentOnce(w)
               \/ \E next \in Occurrence, n \in Row : MarkSentRepeat(w, next, n)
               \/ \E next \in Occurrence : MarkSentConflict(w, next)

Send(w) == SendOk(w) \/ SendAmbiguous(w) \/ \E terminal \in BOOLEAN : SendRefused(w, terminal)

\* What the sender loop w does when it is scheduled.
Deliver(w) == \/ Claim(w)
              \/ \E r \in Row : Check(w, r)
              \/ Send(w)
              \/ MarkSent(w) \/ MarkSentDbError(w)
              \/ RecordFailure(w) \/ RecordFailureLost(w)

Clock == \E r \in Row : BecomesDue(r) \/ LeaseLapse(r) \/ BackoffOver(r)

FinishTap == SnoozeWrite \/ DoneWrite \/ DoneTask

Buttons == \/ \E r \in Row : \/ \E target \in Occurrence : SnoozeRead(r, target)
                             \/ DoneRead(r)
                             \/ Retry(r)
           \/ FinishTap

TaskOperations ==
    \E t \in Task :
        \/ CompleteTask(t) \/ CancelTask(t) \/ ReopenTask(t) \/ ClearDeadline(t)
        \/ \E r \in Row, occ \in Occurrence : MoveDeadline(t, r, occ)

Next == \/ Create
        \/ \E w \in Worker : Deliver(w)
        \/ Clock
        \/ Buttons
        \/ TaskOperations
        \/ Crash

Spec == Init /\ [][Next]_vars

PassCheck == \E w \in Worker, r \in Row : Check(w, r) /\ ClaimIsActive(w, r)

\* The loops are supervised and run for ever, a callback that has read its row
\* goes on, and time passes; users, faults and crashes owe nothing.  Strong
\* fairness of PassCheck: claims are served oldest first, right after they are
\* made, so it cannot be that every check for ever finds the lease lapsed.
Fairness ==
    /\ \A w \in Worker : WF_vars(Deliver(w))
    /\ SF_vars(PassCheck)
    /\ \A r \in Row : WF_vars(LeaseLapse(r) \/ BackoffOver(r))
    /\ WF_vars(FinishTap)

FairSpec == Spec /\ Fairness

-----------------------------------------------------------------------------
(* What has become of an alarm, in the words of its promise *)

\* Its message has appeared, and the loop that knows may still record it.
Heard(r) == \E w \in Worker : job[w].pc = "mark" /\ job[w].row = r /\ Markable(w)

Stage(r) ==
    CASE row[r].status = "absent" -> "none"
      [] row[r].status \in Waiting -> IF Heard(r) THEN "heard" ELSE "waiting"
      [] row[r].status = "delivered" -> "told"
      [] row[r].status = "failed" -> "failed"
      [] row[r].status \in Closed -> "closed"

AlarmOf(r) == [stage |-> Stage(r), at |-> row[r].occ, repeats |-> row[r].rule,
               series |-> row[r].series]

Promise == INSTANCE Alarms WITH
    Alarm <- Row, Time <- Occurrence, alarm <- [r \in Row |-> AlarmOf(r)], seen <- shown

-----------------------------------------------------------------------------
(* Properties *)

\* Every column and every program counter keeps its declared type.
TypeOK ==
    /\ row \in [Row -> Reminder]
    /\ task \in [Task -> TaskColumns]
    /\ job \in [Worker -> Job]
    /\ tap \in Callback
    /\ shown \subseteq Row
    /\ budget \in [created: Nat, events: Nat]
    /\ allowance \in [Row -> Int] /\ window \in [Row -> Int]
    /\ promised \subseteq Row

\* The occurrence that will carry a series on.
LiveBranch(r) == Exists(r) /\ row[r].rule /\ ~row[r].sent

\* A snoozed or repeated alarm never forks its series: at most one recurring
\* occurrence of a series is still to be delivered, whatever the order in which
\* snoozes, acknowledgements and failures commit (comment in snooze_reminder).
SingleBranch ==
    \A r, s \in Row :
        LiveBranch(r) /\ LiveBranch(s) /\ row[r].series = row[s].series => r = s

\* At-least-once has a price list: a message is repeated only if a crash, a lost
\* answer, a database error or a lapsed lease fell between the send and its
\* acknowledgement, or if the alarm was activated again (snooze, retry, new time).
RepeatsAreExplained == \A r \in Row : allowance[r] >= 0

\* Once an alarm is resolved or cancelled, only the sends that were past their
\* last check at that moment still arrive: the in-flight window the ADR admits.
OnlyInFlightArrivesLate == \A r \in Row : window[r] >= 0

\* The old sender overwrites neither a new owner nor a resolution (ADR of
\* 2026-09-04, "Доставка"): recording the outcome of a send changes no row whose
\* lease is not its own, and no row that was resolved or cancelled meanwhile.
SenderRespectsOwner ==
    [][\A w \in Worker, r \in Row :
          /\ job[w].pc \in {"mark", "fail"} /\ job'[w] # job[w]
          /\ Exists(r) /\ (row[r].lease # w \/ row[r].status \in Closed)
          => row'[r] = row[r]]_vars

\* An alarm the user was told is postponed keeps waiting until its new time
\* comes, unless the user closes it.
SnoozeKept ==
    \A r \in promised : \/ row[r].status \in Waiting \cup {"failed"} /\ ~row[r].sent
                        \/ row[r].status \in Closed

\* A recurring series never loses its next occurrence: some row of it is
\* recurring and still to be delivered (or failed, for the user to retry).
SeriesContinues ==
    \A r \in Row : Exists(r) /\ (row[r].rule \/ row[r].series # r)
        => \E n \in Row : LiveBranch(n) /\ row[n].series = row[r].series

\* An alarm is marked delivered only when its message has appeared since its time was
\* last set, a recurring one only together with its successor, and until then it waits
\* or has visibly failed: the "at least once" of the ADR of 2026-09-04.
ImplementsAlarms == Promise!Spec

\* A due alarm never stays due for ever: it is delivered, fails visibly, is
\* closed or is moved to another time.
DueIsSettled ==
    \A r \in Row :
        (row[r].status \in Waiting /\ ~row[r].sent /\ row[r].due /\ TaskOpen(row[r].task))
        ~> ~(row[r].status \in Waiting /\ ~row[r].sent /\ row[r].due /\ TaskOpen(row[r].task))

=============================================================================
