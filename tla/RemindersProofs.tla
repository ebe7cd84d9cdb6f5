--------------------------- MODULE RemindersProofs ---------------------------
(***************************************************************************)
(* Proofs about Reminders: the types of its state; that a recurring series *)
(* never has two occurrences still to be delivered; that every repeated or *)
(* late message has its cause and a late sender overwrites nothing; and,   *)
(* when buttons wait for the record of the delivery, that a series goes    *)
(* on, that a postponed alarm waits for its time, and that every step is a *)
(* step of the promise Alarms.                                             *)
(***************************************************************************)
EXTENDS Reminders, TLAPS, FiniteSetTheorems

\* What a sender loop or a callback works on exists and was read from the table.
JobOK == \A w \in Worker : job[w].pc \in {"send", "mark", "fail"} =>
            job[w].row \in Row /\ Exists(job[w].row)

TapOK == tap.pc # "idle" =>
            /\ tap.row \in Row /\ Exists(tap.row)
            /\ tap.snap \in Reminder
            /\ tap.snap.task = row[tap.row].task
            /\ tap.snap.rule \/ ~row[tap.row].rule
            /\ tap.pc = "snooze" => tap.snap.snoozes < MaxSnooze

ShownOK == \A r \in shown : Exists(r)

\* The first row of a series carries the series' identity and is never deleted.
SeriesOK == \A r \in Row : Exists(r) => Exists(row[r].series)

\* The alarm of a task does not repeat by itself.
TaskAlarmOK == \A r \in Row : Exists(r) /\ row[r].task # NoTask => ~row[r].rule

\* A recurring alarm that failed is not marked sent: a retry adds no branch.
FailedOK == \A r \in Row : row[r].status = "failed" /\ row[r].rule => ~row[r].sent

TypeInv == TypeOK /\ JobOK /\ TapOK /\ ShownOK
IInv == TypeInv /\ SeriesOK /\ TaskAlarmOK /\ FailedOK /\ SingleBranch

-----------------------------------------------------------------------------
(* What a step does to one row *)

\* A row that exists keeps its series and its task, gains no rule, never becomes
\* a live branch again, and is not marked sent when it fails.
Kept(r) ==
    /\ row'[r].status # "absent"
    /\ row'[r].series = row[r].series
    /\ row'[r].task = row[r].task
    /\ row'[r].rule => row[r].rule
    /\ row'[r].rule /\ ~row'[r].sent => ~row[r].sent
    /\ row'[r].status = "failed" /\ row'[r].rule => ~row'[r].sent

\* A row inserted by the user starts a series of its own.
Inserted(r) ==
    \/ row'[r].status = "absent"
    \/ /\ row'[r].status = "pending"
       /\ row'[r].series = r
       /\ row'[r].task # NoTask => ~row'[r].rule

Rows == /\ row' \in [Row -> Reminder]
        /\ \A r \in Row : IF Exists(r) THEN Kept(r) ELSE Inserted(r)

\* What callbacks and loops rely on.
Stay == /\ row' \in [Row -> Reminder]
        /\ \A r \in Row : Exists(r) => /\ row'[r].status # "absent"
                                       /\ row'[r].task = row[r].task
                                       /\ row'[r].rule => row[r].rule

LEMMA RowsStay == Rows => Stay
BY DEF Rows, Stay, Kept

\* A new row has the type of a row.
LEMMA NewReminderType ==
    ASSUME NEW series \in Row, NEW occ \in Occurrence, NEW rule \in BOOLEAN,
           NEW t \in Task \cup {NoTask}
    PROVE  NewReminder(series, occ, rule, t) \in Reminder
BY RemindersAssumption DEF NewReminder, Reminder, Status, Unclosed, Waiting, Closed

\* A flush mixes values of three rows, so it yields a row.
LEMMA FlushType ==
    ASSUME NEW cur \in Reminder, NEW old \in Reminder, NEW new \in Reminder
    PROVE  /\ Flush(cur, old, new) \in Reminder
           /\ Flush(cur, old, new).series = cur.series
           /\ Flush(cur, old, new).task = cur.task
BY DEF Flush, Reminder

\* Rows and callbacks in flight agree whatever rows do, as long as they stay.
LEMMA JobFrame == ASSUME TypeInv, Stay, job' = job PROVE JobOK'
BY DEF TypeInv, JobOK, Stay, Exists

LEMMA TapFrame ==
    ASSUME TypeInv, Stay,
           tap' = tap \/ tap'.pc = "idle"
    PROVE  TapOK'
BY DEF TypeInv, TapOK, Stay, Exists

\* Rows alone give the rest of the invariant.
LEMMA RowsInv ==
    ASSUME IInv, Rows
    PROVE  SeriesOK' /\ TaskAlarmOK' /\ FailedOK' /\ SingleBranch'
<1> USE DEF Exists
<1>0. row \in [Row -> Reminder] /\ row' \in [Row -> Reminder]
      BY DEF IInv, TypeInv, TypeOK, Rows
<1>1. SeriesOK'
  <2> SUFFICES ASSUME NEW r \in Row, Exists(r)'
               PROVE  Exists(row[r].series)'
      BY DEF SeriesOK
  <2>1. CASE Exists(r)
    <3>1. row'[r].series = row[r].series /\ row[r].series \in Row
          BY <2>1, <1>0 DEF Rows, Kept, Reminder
    <3>2. Exists(row[r].series)
          BY <2>1 DEF IInv, SeriesOK
    <3> QED BY <3>1, <3>2 DEF Rows, Kept
  <2>2. CASE ~Exists(r)
        BY <2>2 DEF Rows, Inserted
  <2> QED BY <2>1, <2>2
<1>2. TaskAlarmOK'
      BY <1>0 DEF IInv, TaskAlarmOK, Rows, Kept, Inserted
<1>3. FailedOK'
      BY <1>0 DEF IInv, FailedOK, Rows, Kept, Inserted
<1>4. SingleBranch'
      BY <1>0 DEF IInv, SeriesOK, SingleBranch, LiveBranch, Rows, Kept, Inserted, Reminder
<1> QED BY <1>1, <1>2, <1>3, <1>4

LEMMA SameRows == ASSUME IInv, row' = row PROVE Rows
BY DEF IInv, TypeInv, TypeOK, FailedOK, Rows, Kept, Inserted, Exists

\* One existing row changes, within what Kept allows.
LEMMA OneRow ==
    ASSUME IInv, NEW r \in Row, Exists(r), NEW new \in Reminder,
           row' = [row EXCEPT ![r] = new],
           new.status # "absent", new.series = row[r].series, new.task = row[r].task,
           new.rule => row[r].rule,
           new.rule /\ ~new.sent => ~row[r].sent,
           new.status = "failed" /\ new.rule => ~new.sent
    PROVE  Rows
<1>1. row \in [Row -> Reminder] /\ row' \in [Row -> Reminder]
      BY DEF IInv, TypeInv, TypeOK
<1>2. \A s \in Row : row'[s] = IF s = r THEN new ELSE row[s]
      BY <1>1
<1> QED BY <1>1, <1>2 DEF IInv, FailedOK, Rows, Kept, Inserted, Exists

\* One row is inserted.
LEMMA NewRow ==
    ASSUME IInv, NEW r \in Row, ~Exists(r),
           NEW occ \in Occurrence, NEW rule \in BOOLEAN, NEW t \in Task \cup {NoTask},
           rule => t = NoTask,
           row' = [row EXCEPT ![r] = NewReminder(r, occ, rule, t)]
    PROVE  Rows
<1>0. NewReminder(r, occ, rule, t) \in Reminder
      BY NewReminderType
<1>1. row \in [Row -> Reminder] /\ row' \in [Row -> Reminder]
      BY <1>0 DEF IInv, TypeInv, TypeOK
<1>2. \A s \in Row : row'[s] = IF s = r THEN NewReminder(r, occ, rule, t) ELSE row[s]
      BY <1>1
<1>3. /\ NewReminder(r, occ, rule, t).status = "pending"
      /\ NewReminder(r, occ, rule, t).series = r
      /\ NewReminder(r, occ, rule, t).rule = rule
      /\ NewReminder(r, occ, rule, t).task = t
      BY DEF NewReminder
<1> QED BY <1>1, <1>2, <1>3 DEF IInv, FailedOK, Rows, Kept, Inserted, Exists

\* The senders
LEMMA ClaimRows == ASSUME IInv, NEW w \in Worker, Claim(w) PROVE Rows
<1>0. row \in [Row -> Reminder]
      BY DEF IInv, TypeInv, TypeOK
<1>1. \A r \in Row : row'[r] = row[r] \/ row'[r] = [row[r] EXCEPT !.lease = w, !.live = TRUE]
      BY DEF Claim
<1>2. \A r \in Row : /\ row'[r] \in Reminder
                     /\ row'[r].status = row[r].status /\ row'[r].sent = row[r].sent
                     /\ row'[r].rule = row[r].rule /\ row'[r].series = row[r].series
                     /\ row'[r].task = row[r].task
  <2> TAKE r \in Row
  <2>1. row[r] \in Reminder
        BY <1>0
  <2>2. CASE row'[r] = row[r]
        BY <2>1, <2>2
  <2>3. CASE row'[r] = [row[r] EXCEPT !.lease = w, !.live = TRUE]
    <3>1. /\ row'[r].status = row[r].status /\ row'[r].sent = row[r].sent
          /\ row'[r].rule = row[r].rule /\ row'[r].series = row[r].series
          /\ row'[r].task = row[r].task
          BY <2>1, <2>3 DEF Reminder
    <3>2. row'[r] = [status |-> row[r].status, sent |-> row[r].sent, rule |-> row[r].rule,
                     series |-> row[r].series, occ |-> row[r].occ, task |-> row[r].task,
                     lease |-> w, live |-> TRUE, due |-> row[r].due,
                     backoff |-> row[r].backoff, attempts |-> row[r].attempts,
                     snoozes |-> row[r].snoozes]
          BY <2>1, <2>3 DEF Reminder
    <3>3. row'[r] \in Reminder
          BY <2>1, <3>2 DEF Reminder
    <3> QED BY <3>1, <3>3
  <2> QED BY <1>1, <2>2, <2>3
<1>3. row' = [r \in Row |-> row'[r]]
      BY DEF Claim
<1>4. row' \in [Row -> Reminder]
      BY <1>2, <1>3
<1> QED BY <1>2, <1>4 DEF IInv, FailedOK, Rows, Kept, Inserted, Exists

LEMMA DeliveredType ==
    ASSUME NEW r \in Row, row[r] \in Reminder
    PROVE  /\ DeliveredRow(r) \in Reminder
           /\ DeliveredRow(r).series = row[r].series
           /\ DeliveredRow(r).task = row[r].task
           /\ DeliveredRow(r).rule = row[r].rule
           /\ DeliveredRow(r).sent = TRUE
           /\ DeliveredRow(r).status = "delivered"
BY DEF DeliveredRow, Reminder, Status, Unclosed, Waiting, Closed

LEMMA MarkSentOnceRows == ASSUME IInv, NEW w \in Worker, MarkSentOnce(w) PROVE Rows
<1> DEFINE r == job[w].row
<1>1. /\ r \in Row /\ Exists(r) /\ row[r] \in Reminder
      /\ row' = [row EXCEPT ![r] = DeliveredRow(r)]
      BY DEF IInv, TypeInv, TypeOK, JobOK, MarkSentOnce
<1> HIDE DEF r
<1> QED BY <1>1, DeliveredType, OneRow

LEMMA RecordFailureRows == ASSUME IInv, NEW w \in Worker, RecordFailure(w) PROVE Rows
<1> DEFINE r == job[w].row
           new == FailedRow(r, job[w].terminal)
<1>0. r \in Row /\ Exists(r) /\ row[r] \in Reminder /\ job[w].terminal \in BOOLEAN
      BY DEF IInv, TypeInv, TypeOK, JobOK, RecordFailure, Job
<1>1. CASE ~Markable(w)
      BY <1>1, SameRows DEF RecordFailure
<1>2. CASE Markable(w)
  <2>1. row' = [row EXCEPT ![r] = new] /\ ~row[r].sent
        BY <1>2 DEF RecordFailure, Markable
  <2>2. new \in Reminder
    <3>1. row[r].attempts + 1 \in Nat /\ ~row[r].sent /\ row[r].sent \in BOOLEAN
          BY <1>0, <2>1 DEF Reminder
    <3>2. \A final \in BOOLEAN : (row[r].sent /\ ~final) = FALSE
          BY <3>1
    <3> DEFINE attempts == row[r].attempts + 1
               final == job[w].terminal \/ attempts >= MaxAttempts
               status == IF final THEN "failed" ELSE row[r].status
               sent == row[r].sent /\ ~final
    <3>3. new = [row[r] EXCEPT !.attempts = attempts, !.status = status, !.sent = sent,
                               !.backoff = "waiting", !.lease = NoWorker, !.live = FALSE]
          BY <1>0 DEF FailedRow
    <3>4. status \in Status /\ attempts \in Nat /\ sent \in BOOLEAN
          BY <1>0, <3>1, <3>2 DEF Reminder, Status, Unclosed
    <3> HIDE DEF new, attempts, final, status, sent
    <3>5. new = [status |-> status, sent |-> sent, rule |-> row[r].rule,
                 series |-> row[r].series, occ |-> row[r].occ, task |-> row[r].task,
                 lease |-> NoWorker, live |-> FALSE, due |-> row[r].due,
                 backoff |-> "waiting", attempts |-> attempts, snoozes |-> row[r].snoozes]
          BY <1>0, <3>3 DEF Reminder
    <3> QED BY <1>0, <3>4, <3>5 DEF Reminder
  <2>3. /\ new.series = row[r].series /\ new.task = row[r].task
        /\ new.rule = row[r].rule /\ ~new.sent
        /\ new.status \in {"failed", row[r].status}
        BY <1>0, <2>1 DEF FailedRow, Reminder
  <2> HIDE DEF r, new
  <2> QED BY <1>0, <2>1, <2>2, <2>3, OneRow DEF Exists
<1> QED BY <1>1, <1>2

\* The clock
LEMMA ClockRows ==
    ASSUME IInv, NEW r \in Row, BecomesDue(r) \/ LeaseLapse(r) \/ BackoffOver(r)
    PROVE  Rows
<1>0. row[r] \in Reminder
      BY DEF IInv, TypeInv, TypeOK
<1>1. PICK new \in {[row[r] EXCEPT !.due = TRUE], [row[r] EXCEPT !.live = FALSE],
                    [row[r] EXCEPT !.backoff = "over"]} : row' = [row EXCEPT ![r] = new]
      BY DEF BecomesDue, LeaseLapse, BackoffOver
<1>2. /\ new \in Reminder /\ new.status = row[r].status /\ new.sent = row[r].sent
      /\ new.rule = row[r].rule /\ new.series = row[r].series /\ new.task = row[r].task
  <2>1. CASE new = [row[r] EXCEPT !.due = TRUE]
        BY <1>0, <2>1 DEF Reminder
  <2>2. CASE new = [row[r] EXCEPT !.live = FALSE]
        BY <1>0, <2>2 DEF Reminder
  <2>3. CASE new = [row[r] EXCEPT !.backoff = "over"]
        BY <1>0, <2>3 DEF Reminder
  <2> QED BY <1>1, <2>1, <2>2, <2>3
<1>3. CASE Exists(r)
  <2>1. new.status = "failed" /\ new.rule => ~new.sent
        BY <1>2, <1>3 DEF IInv, FailedOK
  <2> QED BY <1>1, <1>2, <1>3, <2>1, OneRow DEF Exists
<1>4. CASE ~Exists(r)
  <2>1. row \in [Row -> Reminder] /\ row' \in [Row -> Reminder]
        BY <1>1, <1>2 DEF IInv, TypeInv, TypeOK
  <2>2. \A s \in Row : row'[s] = IF s = r THEN new ELSE row[s]
        BY <1>1, <2>1
  <2> QED BY <1>2, <1>4, <2>1, <2>2 DEF IInv, FailedOK, Rows, Kept, Inserted, Exists
<1> QED BY <1>3, <1>4

\* The buttons
LEMMA SnoozeRows == ASSUME IInv, SnoozeWrite PROVE Rows
<1> DEFINE r == tap.row
           old == tap.snap
           assigned == SnoozedRow(old, tap.target)
           flushed == Flush(row[r], old, assigned)
           new == [flushed EXCEPT !.due = FALSE]
<1>0. /\ r \in Row /\ Exists(r) /\ row[r] \in Reminder /\ old \in Reminder
      /\ old.rule \/ ~row[r].rule
      /\ old.snoozes < MaxSnooze
      /\ tap.target \in Occurrence
      BY DEF IInv, TypeInv, TypeOK, TapOK, SnoozeWrite, Callback
<1>1. row' = row \/ row' = [row EXCEPT ![r] = new]
      BY DEF SnoozeWrite
<1>2. assigned \in Reminder
  <2>1. old.snoozes + 1 \in 0 .. MaxSnooze
        BY <1>0, RemindersAssumption DEF Reminder
  <2> DEFINE rule == old.rule /\ ~old.sent
             snoozes == old.snoozes + 1
  <2>2. rule \in BOOLEAN
        BY <1>0 DEF Reminder
  <2>3. assigned = [old EXCEPT !.rule = rule, !.occ = tap.target, !.sent = FALSE,
                               !.status = "snoozed", !.lease = NoWorker, !.live = FALSE,
                               !.backoff = "none", !.attempts = 0, !.snoozes = snoozes]
        BY <1>0 DEF SnoozedRow, Reminder
  <2>4. snoozes \in 0 .. MaxSnooze
        BY <2>1
  <2> HIDE DEF rule, snoozes, assigned
  <2>5. assigned = [status |-> "snoozed", sent |-> FALSE, rule |-> rule,
                    series |-> old.series, occ |-> tap.target, task |-> old.task,
                    lease |-> NoWorker, live |-> FALSE, due |-> old.due, backoff |-> "none",
                    attempts |-> 0, snoozes |-> snoozes]
        BY <1>0, <2>3 DEF Reminder
  <2>6. old.series \in Row /\ old.task \in Task \cup {NoTask} /\ old.due \in BOOLEAN
        BY <1>0 DEF Reminder
  <2> QED BY <1>0, <2>2, <2>4, <2>5, <2>6 DEF Reminder, Status, Unclosed, Waiting
<1>3. /\ assigned.rule = (old.rule /\ ~old.sent)
      /\ assigned.sent = FALSE /\ assigned.status = "snoozed"
      BY <1>0 DEF SnoozedRow, Reminder
<1>4. /\ flushed \in Reminder /\ flushed.series = row[r].series /\ flushed.task = row[r].task
      BY <1>0, <1>2, FlushType
<1>5. /\ flushed.rule => row[r].rule
      /\ flushed.rule /\ ~flushed.sent => ~row[r].sent
      /\ flushed.status \in {"snoozed", row[r].status}
      /\ ~flushed.sent \/ (~old.sent /\ flushed.sent = row[r].sent)
  <2> HIDE DEF assigned
  <2> QED BY <1>0, <1>2, <1>3 DEF Flush, Reminder
<1>6. /\ new \in Reminder /\ new.series = row[r].series /\ new.task = row[r].task
      /\ new.rule = flushed.rule /\ new.sent = flushed.sent /\ new.status = flushed.status
  <2> HIDE DEF flushed
  <2> QED BY <1>4 DEF Reminder
<1>7. new.status = "failed" /\ new.rule => ~new.sent
  <2> HIDE DEF flushed, new
  <2> QED BY <1>0, <1>5, <1>6 DEF IInv, FailedOK
<1>8. CASE row' = row
      BY <1>8, SameRows
<1>9. CASE row' = [row EXCEPT ![r] = new]
  <2> HIDE DEF r, flushed, new
  <2> QED BY <1>9, <1>0, <1>5, <1>6, <1>7, OneRow DEF Exists
<1> QED BY <1>1, <1>8, <1>9

LEMMA DoneRows == ASSUME IInv, DoneWrite PROVE Rows
<1> DEFINE r == tap.row
           old == tap.snap
           new == Flush(row[r], old, ResolvedRow(old))
<1>0. r \in Row /\ Exists(r) /\ row[r] \in Reminder /\ old \in Reminder
      BY DEF IInv, TypeInv, TypeOK, TapOK, DoneWrite
<1>1. row' = row \/ (old.status # "resolved" /\ row' = [row EXCEPT ![r] = new])
      BY DEF DoneWrite
<1>2. /\ ResolvedRow(old) \in Reminder
      /\ ResolvedRow(old).rule = old.rule /\ ResolvedRow(old).sent = TRUE
      /\ ResolvedRow(old).status = "resolved"
      BY <1>0 DEF ResolvedRow, Reminder, Status, Unclosed, Waiting, Closed
<1>3. /\ new \in Reminder /\ new.series = row[r].series /\ new.task = row[r].task
      BY <1>0, <1>2, FlushType
<1>4. ASSUME old.status # "resolved"
      PROVE  /\ new.rule = row[r].rule
             /\ ~new.sent => ~row[r].sent
             /\ new.status = "resolved"
      BY <1>0, <1>2, <1>4 DEF Flush, Reminder
<1>5. CASE row' = row
      BY <1>5, SameRows
<1>6. CASE old.status # "resolved" /\ row' = [row EXCEPT ![r] = new]
  <2> HIDE DEF r, new
  <2> QED BY <1>6, <1>0, <1>3, <1>4, OneRow
<1> QED BY <1>1, <1>5, <1>6

LEMMA RetryRows == ASSUME IInv, NEW r \in Row, Retry(r) PROVE Rows
<1> DEFINE new == [row[r] EXCEPT !.status = "pending", !.sent = FALSE, !.attempts = 0,
                                 !.backoff = "over", !.lease = NoWorker, !.live = FALSE]
<1>1. row' = [row EXCEPT ![r] = new] /\ row[r].status = "failed" /\ row[r] \in Reminder
      BY DEF IInv, TypeInv, TypeOK, Retry
<1>2. /\ new \in Reminder /\ new.series = row[r].series /\ new.task = row[r].task
      /\ new.rule = row[r].rule /\ ~new.sent /\ new.status = "pending"
      BY <1>1 DEF Reminder, Status, Unclosed, Waiting, Closed
<1>3. row[r].rule => ~row[r].sent
      BY <1>1 DEF IInv, FailedOK
<1> HIDE DEF new
<1> QED BY <1>1, <1>2, <1>3, OneRow DEF Exists

\* The tasks
LEMMA CloseType ==
    ASSUME IInv, NEW t \in Task, NEW status \in Closed, NEW read,
           \A r \in AlarmsOf(t) : read[r] \in Reminder
    PROVE  /\ CloseAlarms(t, status, read) \in [Row -> Reminder]
           /\ \A r \in Row :
                LET new == CloseAlarms(t, status, read)[r] IN
                IF Exists(r)
                THEN /\ new.status # "absent"
                     /\ new.series = row[r].series /\ new.task = row[r].task
                     /\ new.rule = row[r].rule
                     /\ row[r].rule => new = row[r]
                ELSE new = row[r]
<1> DEFINE assigned(s) == [read[s] EXCEPT !.status = status, !.sent = TRUE, !.lease = NoWorker]
           new(s) == Flush(row[s], read[s], assigned(s))
<1>0. row \in [Row -> Reminder]
      BY DEF IInv, TypeInv, TypeOK
<1>1. CloseAlarms(t, status, read)
        = [s \in Row |-> IF s \in AlarmsOf(t) THEN new(s) ELSE row[s]]
      BY DEF CloseAlarms
<1>2. ASSUME NEW s \in AlarmsOf(t)
      PROVE  /\ new(s) \in Reminder /\ new(s).series = row[s].series /\ new(s).task = row[s].task
             /\ new(s).rule = row[s].rule /\ new(s).status \in {status, row[s].status}
             /\ ~row[s].rule /\ Exists(s)
  <2>0. /\ row[s] \in Reminder /\ read[s] \in Reminder /\ s \in Row
        /\ row[s].task = t /\ row[s].status \in Unclosed
        BY <1>0, <1>2 DEF AlarmsOf
  <2>1. assigned(s) \in Reminder /\ assigned(s).rule = read[s].rule /\ assigned(s).status = status
        BY <2>0 DEF Reminder, Status, Closed
  <2>2. new(s) \in Reminder /\ new(s).series = row[s].series /\ new(s).task = row[s].task
        BY <2>0, <2>1, FlushType
  <2>3. new(s).rule = row[s].rule /\ new(s).status \in {status, row[s].status}
    <3> HIDE DEF assigned
    <3> QED BY <2>0, <2>1 DEF Flush, Reminder
  <2>4. Exists(s)
        BY <2>0 DEF Exists, Unclosed, Waiting
  <2>5. ~row[s].rule
        BY <2>0, <2>4, RemindersAssumption DEF IInv, TaskAlarmOK
  <2> QED BY <2>2, <2>3, <2>4, <2>5
<1> HIDE DEF new
<1>3. CloseAlarms(t, status, read) \in [Row -> Reminder]
      BY <1>0, <1>1, <1>2
<1>4. status # "absent"
      BY DEF Closed
<1> SUFFICES ASSUME NEW r \in Row
             PROVE  LET after == CloseAlarms(t, status, read)[r] IN
                    IF Exists(r)
                    THEN /\ after.status # "absent"
                         /\ after.series = row[r].series /\ after.task = row[r].task
                         /\ after.rule = row[r].rule
                         /\ row[r].rule => after = row[r]
                    ELSE after = row[r]
    BY <1>3
<1>5. CASE r \in AlarmsOf(t)
      BY <1>1, <1>2, <1>3, <1>4, <1>5 DEF Exists
<1>6. CASE r \notin AlarmsOf(t)
      BY <1>1, <1>3, <1>6 DEF Exists
<1> QED BY <1>5, <1>6

LEMMA CloseRows ==
    ASSUME IInv, NEW t \in Task, NEW status \in Closed, NEW read,
           \A r \in AlarmsOf(t) : read[r] \in Reminder,
           row' = CloseAlarms(t, status, read)
    PROVE  Rows
<1>1. row \in [Row -> Reminder] /\ row' \in [Row -> Reminder]
      BY CloseType DEF IInv, TypeInv, TypeOK, Rows
<1>2. ASSUME NEW r \in Row, Exists(r) PROVE Kept(r)
      BY <1>2, CloseType DEF IInv, FailedOK, Kept, Exists
<1>3. ASSUME NEW r \in Row, ~Exists(r) PROVE Inserted(r)
      BY <1>3, CloseType DEF Inserted, Exists
<1> QED BY <1>1, <1>2, <1>3 DEF Rows

LEMMA CompleteRows ==
    ASSUME IInv, NEW t \in Task, NEW read,
           \A r \in AlarmsOf(t) : read[r] \in Reminder,
           Complete(t, read)
    PROVE  Rows
<1>0. "resolved" \in Closed
      BY DEF Closed
<1>1. CASE row' = CloseAlarms(t, "resolved", read)
      BY <1>0, <1>1, CloseRows
<1>2. ASSUME NEW next \in Task, NEW n \in Row, ~Exists(n),
             row' = [CloseAlarms(t, "resolved", read) EXCEPT ![n] = NewReminder(n, 0, FALSE, next)]
      PROVE  Rows
  <2> DEFINE closed == CloseAlarms(t, "resolved", read)
             new == NewReminder(n, 0, FALSE, next)
  <2>0. closed \in [Row -> Reminder]
        BY <1>0, CloseType
  <2>1. /\ new \in Reminder /\ new.status = "pending" /\ new.series = n /\ new.rule = FALSE
    <3>1. 0 \in Occurrence
          BY RemindersAssumption DEF Occurrence, OffGrid
    <3> QED BY <3>1, NewReminderType DEF NewReminder
  <2>2. row' \in [Row -> Reminder]
        /\ \A r \in Row : row'[r] = IF r = n THEN new ELSE closed[r]
    <3> HIDE DEF closed, new
    <3> QED BY <1>2, <2>0, <2>1 DEF closed, new
  <2>3. ASSUME NEW r \in Row, Exists(r) PROVE Kept(r)
    <3>1. r # n /\ row'[r] = closed[r]
          BY <1>2, <2>2, <2>3
    <3> QED BY <1>0, <2>3, <3>1, CloseType DEF IInv, FailedOK, Kept, Exists
  <2>4. ASSUME NEW r \in Row, ~Exists(r) PROVE Inserted(r)
    <3>1. CASE r = n
      <4> HIDE DEF new
      <4> QED BY <2>1, <2>2, <3>1 DEF Inserted
    <3>2. CASE r # n
      <4>1. closed[r] = row[r]
            BY <1>0, <2>4, CloseType
      <4> QED BY <2>2, <2>4, <3>2, <4>1 DEF Inserted, Exists
    <3> QED BY <3>1, <3>2
  <2> QED BY <2>2, <2>3, <2>4 DEF Rows
<1> QED BY <1>1, <1>2 DEF Complete, CompleteOnce, CompleteRepeat

LEMMA DoneTaskRows == ASSUME IInv, DoneTask PROVE Rows
<1> DEFINE t == tap.snap.task
           read == [row EXCEPT ![tap.row] = tap.snap]
<1>1. /\ tap.row \in Row /\ tap.snap \in Reminder
      /\ row \in [Row -> Reminder]
      BY DEF IInv, TypeInv, TypeOK, TapOK, DoneTask
<1>2. t \in Task
      BY <1>1 DEF DoneTask, Reminder
<1>3. read \in [Row -> Reminder]
      BY <1>1
<1>4. \A r \in AlarmsOf(t) : read[r] \in Reminder
      BY <1>3 DEF AlarmsOf
<1>5. CASE row' = row
      BY <1>5, SameRows
<1>6. CASE Complete(t, read)
  <2> HIDE DEF t, read
  <2> QED BY <1>2, <1>4, <1>6, CompleteRows
<1> QED BY <1>5, <1>6 DEF DoneTask

LEMMA MovedType ==
    ASSUME NEW old \in Reminder, NEW occ \in Occurrence
    PROVE  /\ MovedRow(old, occ) \in Reminder
           /\ MovedRow(old, occ).series = old.series /\ MovedRow(old, occ).task = old.task
           /\ MovedRow(old, occ).rule = FALSE /\ MovedRow(old, occ).status = "pending"
<1> DEFINE moved == MovedRow(old, occ)
<1>0. moved = [old EXCEPT !.occ = occ, !.rule = FALSE, !.sent = FALSE, !.status = "pending",
                          !.lease = NoWorker, !.live = FALSE, !.due = FALSE,
                          !.backoff = "none", !.attempts = 0]
      BY DEF MovedRow
<1> HIDE DEF moved
<1>1. moved
        = [status |-> "pending", sent |-> FALSE, rule |-> FALSE, series |-> old.series,
           occ |-> occ, task |-> old.task, lease |-> NoWorker, live |-> FALSE,
           due |-> FALSE, backoff |-> "none", attempts |-> 0, snoozes |-> old.snoozes]
      BY <1>0 DEF Reminder
<1>2. /\ old.series \in Row /\ old.task \in Task \cup {NoTask}
      /\ old.snoozes \in 0 .. MaxSnooze
      BY DEF Reminder
<1>3. moved \in Reminder
      BY <1>1, <1>2 DEF Reminder, Status, Unclosed, Waiting
<1> QED BY <1>1, <1>3 DEF moved

LEMMA MoveRows ==
    ASSUME IInv, NEW t \in Task, NEW r \in Row, NEW occ \in Occurrence, MoveDeadline(t, r, occ)
    PROVE  Rows
<1>1. CASE Exists(r)
  <2>0. row[r] \in Reminder /\ row' = [row EXCEPT ![r] = MovedRow(row[r], occ)]
        BY <1>1 DEF IInv, TypeInv, TypeOK, MoveDeadline
  <2> QED BY <1>1, <2>0, MovedType, OneRow
<1>2. CASE ~Exists(r)
      BY <1>2, NewRow DEF MoveDeadline
<1> QED BY <1>1, <1>2

LEMMA CreateRows == ASSUME IInv, Create PROVE Rows
<1>0. 0 \in Occurrence
      BY RemindersAssumption DEF Occurrence, OffGrid
<1>1. ASSUME NEW r \in Row, NEW rule \in Rules, CreateReminder(r, rule) PROVE Rows
      BY <1>0, <1>1, NewRow, RemindersAssumption DEF CreateReminder
<1>2. ASSUME NEW t \in Task, NEW r \in Row, NEW repeats \in Rules, CreateTask(t, r, repeats)
      PROVE  Rows
      BY <1>0, <1>2, NewRow DEF CreateTask
<1> QED BY <1>1, <1>2 DEF Create

\* Every step but the one that continues a series is a step of Rows.
LEMMA StepRows ==
    ASSUME IInv, [Next]_vars,
           \A w \in Worker, next \in Occurrence, n \in Row : ~MarkSentRepeat(w, next, n)
    PROVE  Rows
<1>1. CASE UNCHANGED vars
      BY <1>1, SameRows DEF vars
<1>2. CASE Create
      BY <1>2, CreateRows
<1>3. ASSUME NEW w \in Worker, Deliver(w) PROVE Rows
  <2>1. CASE Claim(w)
        BY <2>1, ClaimRows
  <2>2. CASE \E r \in Row : Check(w, r)
        BY <2>2, SameRows DEF Check
  <2>3. CASE Send(w)
        BY <2>3, SameRows DEF Send, SendOk, SendRefused, SendAmbiguous
  <2>4. CASE MarkSent(w)
        BY <2>4, SameRows, MarkSentOnceRows DEF MarkSent, MarkSentStale, MarkSentConflict
  <2>5. CASE MarkSentDbError(w) \/ RecordFailureLost(w)
        BY <2>5, SameRows DEF MarkSentDbError, RecordFailureLost
  <2>6. CASE RecordFailure(w)
        BY <2>6, RecordFailureRows
  <2> QED BY <1>3, <2>1, <2>2, <2>3, <2>4, <2>5, <2>6 DEF Deliver
<1>4. CASE Clock
      BY <1>4, ClockRows DEF Clock
<1>5. CASE Buttons
  <2>1. CASE FinishTap
        BY <2>1, SnoozeRows, DoneRows, DoneTaskRows DEF FinishTap
  <2>2. CASE \E r \in Row : Retry(r)
        BY <2>2, RetryRows
  <2> QED BY <1>5, <2>1, <2>2, SameRows DEF Buttons, SnoozeRead, DoneRead
<1>6. ASSUME NEW t \in Task,
             \/ CompleteTask(t) \/ CancelTask(t) \/ ReopenTask(t) \/ ClearDeadline(t)
             \/ \E r \in Row, occ \in Occurrence : MoveDeadline(t, r, occ)
      PROVE  Rows
  <2>0. \A r \in AlarmsOf(t) : row[r] \in Reminder
        BY DEF IInv, TypeInv, TypeOK, AlarmsOf
  <2>1. CASE CompleteTask(t)
        BY <2>0, <2>1, CompleteRows DEF CompleteTask
  <2>2. CASE CancelTask(t) \/ ClearDeadline(t)
        BY <2>0, <2>2, CloseRows DEF CancelTask, ClearDeadline, Closed
  <2>3. CASE ReopenTask(t)
        BY <2>3, SameRows DEF ReopenTask
  <2>4. CASE \E r \in Row, occ \in Occurrence : MoveDeadline(t, r, occ)
        BY <2>4, MoveRows
  <2> QED BY <1>6, <2>1, <2>2, <2>3, <2>4
<1>7. CASE Crash
      BY <1>7, SameRows DEF Crash
<1> QED BY <1>1, <1>2, <1>3, <1>4, <1>5, <1>6, <1>7 DEF Next, TaskOperations

\* The step that continues a series hands the live branch over to the new row.
LEMMA MarkSentRepeatRows ==
    ASSUME IInv, NEW w \in Worker, NEW next \in Occurrence, NEW n \in Row,
           MarkSentRepeat(w, next, n)
    PROVE  Stay /\ SeriesOK' /\ TaskAlarmOK' /\ FailedOK' /\ SingleBranch'
<1> DEFINE r == job[w].row
           new == NewReminder(row[r].series, next, TRUE, row[r].task)
           sent == DeliveredRow(r)
<1>0. /\ row \in [Row -> Reminder]
      /\ r \in Row /\ Exists(r) /\ ~Exists(n) /\ row[r].rule /\ ~row[r].sent
      /\ row' = [row EXCEPT ![r] = sent, ![n] = new]
      BY DEF IInv, TypeInv, TypeOK, JobOK, MarkSentRepeat, Markable
<1>1. row[r].task = NoTask /\ Exists(row[r].series) /\ row[r].series \in Row
      BY <1>0, RemindersAssumption DEF IInv, TaskAlarmOK, SeriesOK, Reminder
<1>2. /\ new \in Reminder /\ new.status = "pending" /\ new.series = row[r].series
      /\ new.task = NoTask /\ new.sent = FALSE
      BY <1>1, NewReminderType DEF NewReminder
<1>3. /\ sent \in Reminder /\ sent.series = row[r].series /\ sent.task = NoTask
      /\ sent.rule = row[r].rule /\ sent.sent = TRUE /\ sent.status = "delivered"
      BY <1>0, <1>1, DeliveredType
<1> HIDE DEF r, new, sent
<1>4. /\ row' \in [Row -> Reminder]
      /\ \A s \in Row : row'[s] = IF s = n THEN new ELSE IF s = r THEN sent ELSE row[s]
      BY <1>0, <1>2, <1>3
<1>5. Stay
      BY <1>0, <1>1, <1>3, <1>4 DEF Stay, Exists
<1>6. SeriesOK'
  <2> SUFFICES ASSUME NEW s \in Row, Exists(s)'
               PROVE  Exists(row[s].series)'
      BY DEF SeriesOK
  <2>1. row'[s].series \in Row /\ Exists(row'[s].series)
    <3>1. CASE s = n \/ s = r
          BY <3>1, <1>1, <1>2, <1>3, <1>4
    <3>2. CASE s # n /\ s # r
          BY <3>2, <1>0, <1>4 DEF IInv, SeriesOK, Exists, Reminder
    <3> QED BY <3>1, <3>2
  <2> QED BY <2>1, <1>2, <1>3, <1>4 DEF Exists
<1>7. TaskAlarmOK'
      BY <1>2, <1>3, <1>4 DEF IInv, TaskAlarmOK, Exists
<1>8. FailedOK'
      BY <1>2, <1>3, <1>4 DEF IInv, FailedOK
<1>9. SingleBranch'
  <2>1. ASSUME NEW s \in Row, LiveBranch(s)' PROVE s # r /\ (s # n => LiveBranch(s) /\ row'[s] = row[s])
        BY <2>1, <1>0, <1>3, <1>4 DEF LiveBranch, Exists
  <2>2. LiveBranch(r)
        BY <1>0 DEF LiveBranch
  <2>3. ASSUME NEW s \in Row, s # n, LiveBranch(s)' PROVE row'[s].series # row[r].series
        BY <2>1, <2>2, <2>3, <1>0 DEF IInv, SingleBranch
  <2>4. row'[n].series = row[r].series
        BY <1>2, <1>4
  <2> QED BY <2>1, <2>3, <2>4 DEF IInv, SingleBranch
<1> QED BY <1>5, <1>6, <1>7, <1>8, <1>9

\* Every step keeps the rows that exist, and the part of the invariant about rows.
LEMMA StepInv ==
    ASSUME IInv, [Next]_vars
    PROVE  Stay /\ SeriesOK' /\ TaskAlarmOK' /\ FailedOK' /\ SingleBranch'
<1>1. CASE \E w \in Worker, next \in Occurrence, n \in Row : MarkSentRepeat(w, next, n)
      BY <1>1, MarkSentRepeatRows
<1>2. CASE \A w \in Worker, next \in Occurrence, n \in Row : ~MarkSentRepeat(w, next, n)
  <2>1. Rows
        BY <1>2, StepRows
  <2> QED BY <2>1, RowsStay, RowsInv
<1> QED BY <1>1, <1>2

-----------------------------------------------------------------------------
(* Types *)

\* What a loop, a callback and the columns of history may become in one step.
JobsGo == /\ job' \in [Worker -> Job]
          /\ \A w \in Worker : \/ job'[w].pc \notin {"send", "mark", "fail"}
                               \/ job'[w].row \in Row /\ Exists(job'[w].row)

TapGoes == tap' = tap \/ tap' = IdleTap

RestTyped == /\ task' \in [Task -> TaskColumns]
             /\ shown' \subseteq Row
             /\ budget' \in [created: Nat, events: Nat]
             /\ allowance' \in [Row -> Int] /\ window' \in [Row -> Int]
             /\ promised' \subseteq Row

LEMMA IdleTypes == IdleJob \in Job /\ IdleTap \in Callback
BY RemindersAssumption DEF IdleJob, Job, IdleTap, Callback, Occurrence, OffGrid

LEMMA GoesOn ==
    ASSUME TypeInv, Stay, JobsGo, TapGoes, RestTyped, \A r \in shown' : Exists(r)
    PROVE  TypeInv'
<1>1. TypeOK'
      BY IdleTypes DEF TypeInv, TypeOK, Stay, JobsGo, TapGoes, RestTyped
<1>2. JobOK'
      BY DEF JobOK, JobsGo, Stay, Exists
<1>3. TapOK'
      BY TapFrame DEF TapGoes, IdleTap
<1>4. ShownOK'
      BY DEF RestTyped, ShownOK, Stay, Exists
<1> QED BY <1>1, <1>2, <1>3, <1>4 DEF TypeInv

LEMMA ProceedType ==
    ASSUME TypeOK, NEW w \in Worker
    PROVE  /\ Proceed(w) \in Job
           /\ Proceed(w).pc \notin {"send", "mark", "fail"}
<1>1. job[w].left \subseteq Row
      BY DEF TypeOK, Job
<1> QED BY <1>1 DEF Proceed, IdleJob, Job

LEMMA CountWindowType == ASSUME TypeOK, CountWindow PROVE window' \in [Row -> Int]
<1>1. \A r \in Row : Cardinality({w \in Worker : job[w].pc = "send" /\ job[w].row = r}) \in Int
  <2> TAKE r \in Row
  <2>1. IsFiniteSet({w \in Worker : job[w].pc = "send" /\ job[w].row = r})
        BY FS_Subset, RemindersAssumption
  <2> QED BY <2>1, FS_CardinalityType
<1> QED BY <1>1 DEF TypeOK, CountWindow

LEMMA EventType == ASSUME TypeOK, Event PROVE budget' \in [created: Nat, events: Nat]
BY DEF TypeOK, Event

LEMMA Unmoved ==
    ASSUME TypeInv
    PROVE  /\ job' = job => JobsGo
           /\ tap' = tap => TapGoes
           /\ shown' = shown => \A r \in shown' : Exists(r)
BY DEF TypeInv, TypeOK, JobOK, ShownOK, JobsGo, TapGoes

\* The loop w goes on with its next claim.
LEMMA JobProceeds ==
    ASSUME TypeInv, NEW w \in Worker, job' = [job EXCEPT ![w] = Proceed(w)]
    PROVE  JobsGo
BY ProceedType DEF TypeInv, TypeOK, JobOK, JobsGo

\* The loop w keeps its claim and moves to another point of its program.
LEMMA JobMoves ==
    ASSUME TypeInv, NEW w \in Worker, job[w].pc \in {"send", "mark", "fail"},
           NEW pc \in {"send", "mark", "fail"}, NEW terminal \in BOOLEAN,
           job' = [job EXCEPT ![w] = [job[w] EXCEPT !.pc = pc, !.terminal = terminal]]
    PROVE  JobsGo
<1>1. job[w] \in Job /\ job[w].row \in Row /\ Exists(job[w].row)
      BY DEF TypeInv, TypeOK, JobOK
<1>2. /\ [job[w] EXCEPT !.pc = pc, !.terminal = terminal] \in Job
      /\ [job[w] EXCEPT !.pc = pc, !.terminal = terminal].row = job[w].row
      BY <1>1 DEF Job
<1> QED BY <1>1, <1>2 DEF TypeInv, TypeOK, JobOK, JobsGo

\* ... when only the point changes.
LEMMA JobMovesOn ==
    ASSUME TypeInv, NEW w \in Worker, job[w].pc \in {"send", "mark", "fail"},
           NEW pc \in {"send", "mark", "fail"},
           job' = [job EXCEPT ![w].pc = pc]
    PROVE  JobsGo
<1>1. job[w].terminal \in BOOLEAN /\ job[w] \in Job
      BY DEF TypeInv, TypeOK, Job
<1>2. [job[w] EXCEPT !.pc = pc] = [job[w] EXCEPT !.pc = pc, !.terminal = job[w].terminal]
      BY <1>1 DEF Job
<1> QED BY <1>1, <1>2, JobMoves

LEMMA DeliverTypes ==
    ASSUME IInv, Stay, NEW w \in Worker, Deliver(w)
    PROVE  TypeInv'
<1> USE DEF IInv
<1>0. /\ TypeInv /\ TypeOK /\ \A r \in shown : Exists(r)
      /\ allowance \in [Row -> Int] /\ window \in [Row -> Int]
      BY DEF TypeInv, TypeOK, ShownOK
<1>1. CASE Claim(w)
  <2>1. JobsGo
    <3>1. {r \in Row : Claimable(r)} \subseteq Row
          OBVIOUS
    <3> QED BY <1>0, <1>1, <3>1 DEF TypeInv, TypeOK, JobOK, JobsGo, Claim, IdleJob, Job
  <2> QED BY <1>0, <1>1, <2>1, Unmoved, GoesOn DEF Claim, RestTyped, TypeOK, history
<1>2. ASSUME NEW r \in Row, Check(w, r) PROVE TypeInv'
  <2> DEFINE left == job[w].left \ {r}
  <2>1. left \subseteq Row
        BY <1>0 DEF TypeOK, Job
  <2>2. PICK j : /\ job' = [job EXCEPT ![w] = j]
                 /\ \/ /\ ClaimIsActive(w, r)
                       /\ j = [IdleJob EXCEPT !.pc = "send", !.row = r, !.left = left]
                    \/ j = [IdleJob EXCEPT !.pc = "check", !.left = left]
                    \/ j = IdleJob
        BY <1>2 DEF Check
  <2>3. j \in Job /\ (j.pc \in {"send", "mark", "fail"} => j.row = r /\ ClaimIsActive(w, r))
    <3> HIDE DEF left
    <3>1. CASE j = [IdleJob EXCEPT !.pc = "send", !.row = r, !.left = left]
          BY <2>1, <2>2, <3>1 DEF IdleJob, Job
    <3>2. CASE j = [IdleJob EXCEPT !.pc = "check", !.left = left]
          BY <2>1, <3>2 DEF IdleJob, Job
    <3>3. CASE j = IdleJob
          BY <3>3 DEF IdleJob, Job
    <3> QED BY <2>2, <3>1, <3>2, <3>3
  <2>4. ClaimIsActive(w, r) => Exists(r)
        BY DEF ClaimIsActive, Exists, Waiting
  <2>5. JobsGo
        BY <1>0, <2>2, <2>3, <2>4 DEF TypeInv, TypeOK, JobOK, JobsGo
  <2> QED BY <1>0, <1>2, <2>5, Unmoved, GoesOn DEF Check, RestTyped, TypeOK, history
<1>3. CASE SendOk(w) \/ SendAmbiguous(w)
  <2>1. /\ job[w].row \in Row /\ Exists(job[w].row) /\ job[w].pc = "send"
        /\ \E pc \in {"mark", "fail"} : job' = [job EXCEPT ![w].pc = pc]
        BY <1>0, <1>3 DEF TypeInv, JobOK, SendOk, SendAmbiguous
  <2>2. JobsGo
        BY <1>0, <2>1, JobMovesOn
  <2>3. \E lost \in {0, 1} : Accepted(job[w].row, lost)
        BY <1>3 DEF SendOk, SendAmbiguous
  <2>4. /\ shown' \subseteq Row /\ \A r \in shown' : Exists(r)
        /\ allowance' \in [Row -> Int] /\ window' \in [Row -> Int]
        BY <1>0, <2>1, <2>3 DEF Accepted, TypeOK
  <2>5. task' = task /\ tap' = tap /\ promised' = promised
        /\ budget' \in [created: Nat, events: Nat]
        BY <1>0, <1>3, EventType DEF SendOk, SendAmbiguous, TypeOK
  <2> QED BY <1>0, <2>2, <2>4, <2>5, Unmoved, GoesOn DEF RestTyped, TypeOK
<1>4. ASSUME NEW terminal \in BOOLEAN, SendRefused(w, terminal) PROVE TypeInv'
  <2>1. job' = [job EXCEPT ![w] = [job[w] EXCEPT !.pc = "fail", !.terminal = terminal]]
        BY <1>0, <1>4 DEF SendRefused, TypeOK, Job
  <2>2. JobsGo
        BY <1>0, <1>4, <2>1, JobMoves DEF SendRefused
  <2> QED BY <1>0, <1>4, <2>2, Unmoved, GoesOn DEF SendRefused, RestTyped, TypeOK, history
<1>5. CASE \/ MarkSentStale(w) \/ MarkSentOnce(w) \/ RecordFailure(w) \/ RecordFailureLost(w)
           \/ \E next \in Occurrence, n \in Row : MarkSentRepeat(w, next, n)
  <2>1. JobsGo
        BY <1>0, <1>5, JobProceeds
        DEF MarkSentStale, MarkSentOnce, RecordFailure, RecordFailureLost, MarkSentRepeat
  <2>2. /\ task' = task /\ tap' = tap /\ shown' = shown /\ promised' = promised
        /\ window' = window
        BY <1>5
        DEF MarkSentStale, MarkSentOnce, RecordFailure, RecordFailureLost, MarkSentRepeat, history
  <2>3. budget' \in [created: Nat, events: Nat]
        BY <1>0, <1>5, EventType
        DEF MarkSentStale, MarkSentOnce, RecordFailure, RecordFailureLost, MarkSentRepeat, TypeOK
  <2>4. allowance' \in [Row -> Int]
    <3>1. ASSUME NEW next \in Occurrence, NEW n \in Row, MarkSentRepeat(w, next, n)
          PROVE  allowance' \in [Row -> Int]
          BY <1>0, <3>1 DEF MarkSentRepeat
    <3>2. ASSUME allowance' = allowance
          PROVE  allowance' \in [Row -> Int]
          BY <1>0, <3>2
    <3> QED BY <1>5, <3>1, <3>2
            DEF MarkSentStale, MarkSentOnce, RecordFailure, RecordFailureLost, history
  <2> QED BY <1>0, <2>1, <2>2, <2>3, <2>4, Unmoved, GoesOn DEF RestTyped, TypeOK
<1>6. CASE MarkSentDbError(w) \/ \E next \in Occurrence : MarkSentConflict(w, next)
  <2>1. JobsGo
        BY <1>0, <1>6, JobMovesOn DEF MarkSentDbError, MarkSentConflict
  <2>2. /\ task' = task /\ tap' = tap /\ shown' = shown /\ promised' = promised
        /\ window' = window /\ allowance' \in [Row -> Int]
        BY <1>0, <1>6 DEF MarkSentDbError, MarkSentConflict
  <2>3. budget' \in [created: Nat, events: Nat]
        BY <1>0, <1>6, EventType DEF MarkSentDbError, MarkSentConflict, TypeOK
  <2> QED BY <1>0, <2>1, <2>2, <2>3, Unmoved, GoesOn DEF RestTyped, TypeOK
<1> QED BY <1>1, <1>2, <1>3, <1>4, <1>5, <1>6 DEF Deliver, Send, MarkSent

LEMMA CreateTypes == ASSUME IInv, Stay, Create PROVE TypeInv'
<1>0. /\ TypeInv /\ TypeOK
      /\ task \in [Task -> TaskColumns] /\ allowance \in [Row -> Int]
      BY DEF IInv, TypeInv, TypeOK
<1>1. job' = job /\ tap' = tap /\ shown' = shown /\ window' = window /\ promised' = promised
      BY DEF Create, CreateReminder, CreateTask
<1>2. budget' \in [created: Nat, events: Nat]
  <2>1. budget' = [budget EXCEPT !.created = @ + 1]
        BY DEF Create, CreateReminder, CreateTask
  <2> QED BY <1>0, <2>1 DEF TypeOK
<1>3. allowance' \in [Row -> Int] /\ task' \in [Task -> TaskColumns]
  <2>1. ASSUME NEW r \in Row, NEW rule \in Rules, CreateReminder(r, rule)
        PROVE  allowance' \in [Row -> Int] /\ task' \in [Task -> TaskColumns]
        BY <1>0, <2>1 DEF CreateReminder
  <2>2. ASSUME NEW t \in Task, NEW r \in Row, NEW repeats \in Rules, CreateTask(t, r, repeats)
        PROVE  allowance' \in [Row -> Int] /\ task' \in [Task -> TaskColumns]
        BY <1>0, <2>2, RemindersAssumption DEF CreateTask, TaskColumns
  <2> QED BY <2>1, <2>2 DEF Create
<1> QED BY <1>0, <1>1, <1>2, <1>3, Unmoved, GoesOn DEF RestTyped, TypeOK

LEMMA ClockTypes == ASSUME IInv, Stay, Clock PROVE TypeInv'
<1>0. TypeInv /\ TypeOK /\ allowance \in [Row -> Int]
      BY DEF IInv, TypeInv, TypeOK
<1>1. job' = job /\ tap' = tap /\ shown' = shown /\ window' = window /\ task' = task
      /\ promised' \subseteq promised
      BY DEF Clock, BecomesDue, LeaseLapse, BackoffOver, history
<1>2. allowance' \in [Row -> Int]
      BY <1>0 DEF Clock, BecomesDue, LeaseLapse, BackoffOver, history
<1>3. budget' \in [created: Nat, events: Nat]
      BY <1>0, EventType DEF Clock, BecomesDue, LeaseLapse, BackoffOver, TypeOK
<1> QED BY <1>0, <1>1, <1>2, <1>3, Unmoved, GoesOn DEF RestTyped, TypeOK

LEMMA CrashTypes == ASSUME IInv, Stay, Crash PROVE TypeInv'
<1>0. TypeInv /\ TypeOK /\ allowance \in [Row -> Int]
      BY DEF IInv, TypeInv, TypeOK
<1>1. JobsGo
      BY IdleTypes DEF Crash, JobsGo, IdleJob
<1>2. TapGoes
      BY DEF Crash, TapGoes
<1>3. allowance' \in [Row -> Int] /\ task' = task /\ shown' = shown /\ window' = window
      /\ promised' = promised
      BY <1>0 DEF Crash
<1>4. budget' \in [created: Nat, events: Nat]
      BY <1>0, EventType DEF Crash
<1> QED BY <1>0, <1>1, <1>2, <1>3, <1>4, Unmoved, GoesOn DEF RestTyped, TypeOK

\* A callback starts with the row it reads.
LEMMA ReadTypes ==
    ASSUME IInv, Stay, NEW r \in Row,
           DoneRead(r) \/ \E target \in Occurrence : SnoozeRead(r, target)
    PROVE  TypeInv'
<1>0. /\ TypeInv /\ TypeOK
      /\ row' = row /\ task' = task /\ job' = job /\ shown' = shown
      /\ allowance' = allowance /\ window' = window /\ promised' = promised
      BY DEF IInv, TypeInv, SnoozeRead, DoneRead, history
<1>1. budget' \in [created: Nat, events: Nat]
      BY <1>0, EventType DEF SnoozeRead, DoneRead
<1>2. row[r] \in Reminder /\ Exists(r)
      BY <1>0 DEF TypeOK, TypeInv, ShownOK, SnoozeRead, DoneRead, Tappable
<1>3. /\ tap' \in Callback
      /\ tap'.row = r /\ tap'.snap = row[r]
      /\ tap'.pc = "snooze" => row[r].snoozes < MaxSnooze
  <2>1. CASE DoneRead(r)
        BY <2>1, <1>2, IdleTypes DEF DoneRead, IdleTap, Callback
  <2>2. ASSUME NEW target \in Occurrence, SnoozeRead(r, target)
        PROVE  /\ tap' \in Callback
               /\ tap'.row = r /\ tap'.snap = row[r]
               /\ row[r].snoozes < MaxSnooze
        BY <2>2, <1>2 DEF SnoozeRead, IdleTap, Callback
  <2> QED BY <2>1, <2>2
<1>6. TapOK'
      BY <1>0, <1>2, <1>3 DEF TypeInv, TapOK, Exists
<1>7. TypeOK'
      BY <1>0, <1>1, <1>3 DEF TypeOK
<1>8. JobOK' /\ ShownOK'
      BY <1>0 DEF TypeInv, JobOK, ShownOK, Exists
<1> QED BY <1>6, <1>7, <1>8 DEF TypeInv

LEMMA SnoozeTypes == ASSUME IInv, Stay, SnoozeWrite PROVE TypeInv'
<1>0. /\ TypeInv /\ TypeOK /\ allowance \in [Row -> Int] /\ promised \subseteq Row
      /\ tap.row \in Row
      BY DEF IInv, TypeInv, TypeOK, TapOK, SnoozeWrite
<1>1. /\ task' = task /\ job' = job /\ shown' = shown /\ budget' = budget /\ window' = window
      /\ promised' \subseteq promised \cup {tap.row}
      BY DEF SnoozeWrite
<1>2. allowance' \in [Row -> Int]
      BY <1>0 DEF SnoozeWrite
<1>3. TapGoes
      BY DEF SnoozeWrite, TapGoes
<1> QED BY <1>0, <1>1, <1>2, <1>3, Unmoved, GoesOn DEF RestTyped, TypeOK

LEMMA DoneTypes == ASSUME IInv, Stay, DoneWrite PROVE TypeInv'
<1>0. TypeInv /\ TypeOK
      BY DEF IInv, TypeInv
<1>1. /\ task' = task /\ job' = job /\ shown' = shown /\ budget' = budget
      /\ allowance' = allowance /\ promised' \subseteq promised
      /\ TapGoes /\ CountWindow
      BY DEF DoneWrite, TapGoes
<1>2. window' \in [Row -> Int]
      BY <1>0, <1>1, CountWindowType
<1> QED BY <1>0, <1>1, <1>2, Unmoved, GoesOn DEF RestTyped, TypeOK

LEMMA CompleteTypes ==
    ASSUME TypeOK, NEW t \in Task, NEW read, Complete(t, read)
    PROVE  /\ task' \in [Task -> TaskColumns]
           /\ allowance' \in [Row -> Int]
           /\ promised' \subseteq Row
<1>0. task \in [Task -> TaskColumns] /\ allowance \in [Row -> Int] /\ promised \subseteq Row
      BY DEF TypeOK
<1>1. promised' \subseteq Row
      BY <1>0 DEF Complete, CompleteOnce, CompleteRepeat
<1> DEFINE done == [task[t] EXCEPT !.status = "done"]
<1>2. done \in TaskColumns
      BY <1>0 DEF TaskColumns
<1>3. CASE CompleteOnce(t, read)
  <2>1. task' = [task EXCEPT ![t] = done] /\ allowance' = allowance
        BY <1>3 DEF CompleteOnce
  <2> HIDE DEF done
  <2> QED BY <1>0, <1>1, <1>2, <2>1
<1>4. ASSUME NEW next \in Task, NEW n \in Row, CompleteRepeat(t, read, next, n)
      PROVE  task' \in [Task -> TaskColumns] /\ allowance' \in [Row -> Int]
  <2>1. task' = [task EXCEPT ![t] = done, ![next] = task[t]]
        BY <1>4 DEF CompleteRepeat
  <2>2. task' \in [Task -> TaskColumns]
    <3> HIDE DEF done
    <3> QED BY <1>0, <1>2, <2>1
  <2>3. allowance' = [allowance EXCEPT ![n] = 1] \/ allowance' = allowance
        BY <1>4 DEF CompleteRepeat
  <2> QED BY <1>0, <2>2, <2>3
<1> QED BY <1>1, <1>3, <1>4 DEF Complete

LEMMA DoneTaskTypes == ASSUME IInv, Stay, DoneTask PROVE TypeInv'
<1> DEFINE t == tap.snap.task
           read == [row EXCEPT ![tap.row] = tap.snap]
<1>0. /\ TypeInv /\ TypeOK /\ t \in Task
      BY DEF IInv, TypeInv, TapOK, DoneTask, Reminder
<1>1. /\ job' = job /\ shown' = shown /\ budget' = budget
      /\ TapGoes /\ CountWindow
      /\ \/ Complete(t, read)
         \/ task' = task /\ allowance' = allowance /\ promised' = promised
      BY DEF DoneTask, TapGoes
<1>2. window' \in [Row -> Int]
      BY <1>0, <1>1, CountWindowType
<1>4. /\ task' \in [Task -> TaskColumns] /\ allowance' \in [Row -> Int] /\ promised' \subseteq Row
  <2> HIDE DEF t, read
  <2> QED BY <1>0, <1>1, CompleteTypes DEF TypeOK
<1> QED BY <1>0, <1>1, <1>2, <1>4, Unmoved, GoesOn DEF RestTyped, TypeOK

LEMMA RetryTypes == ASSUME IInv, Stay, NEW r \in Row, Retry(r) PROVE TypeInv'
<1>0. TypeInv /\ TypeOK /\ allowance \in [Row -> Int]
      BY DEF IInv, TypeInv, TypeOK
<1>1. /\ task' = task /\ job' = job /\ tap' = tap /\ shown' = shown /\ window' = window
      /\ promised' = promised /\ allowance' \in [Row -> Int]
      BY <1>0 DEF Retry
<1>2. budget' \in [created: Nat, events: Nat]
      BY <1>0, EventType DEF Retry
<1> QED BY <1>0, <1>1, <1>2, Unmoved, GoesOn DEF RestTyped, TypeOK

LEMMA TaskStatusType ==
    ASSUME TypeOK, NEW t \in Task, NEW status \in {"open", "cancelled"}
    PROVE  [task EXCEPT ![t].status = status] \in [Task -> TaskColumns]
<1>1. task \in [Task -> TaskColumns] /\ [task[t] EXCEPT !.status = status] \in TaskColumns
      BY DEF TypeOK, TaskColumns
<1> QED BY <1>1

LEMMA TaskAlarmType ==
    ASSUME TypeOK, NEW t \in Task, NEW alarm \in BOOLEAN
    PROVE  [task EXCEPT ![t].alarm = alarm] \in [Task -> TaskColumns]
<1>1. task \in [Task -> TaskColumns] /\ [task[t] EXCEPT !.alarm = alarm] \in TaskColumns
      BY DEF TypeOK, TaskColumns
<1> QED BY <1>1

LEMMA TaskTypes ==
    ASSUME IInv, Stay, NEW t \in Task,
           \/ CompleteTask(t) \/ CancelTask(t) \/ ReopenTask(t) \/ ClearDeadline(t)
           \/ \E r \in Row, occ \in Occurrence : MoveDeadline(t, r, occ)
    PROVE  TypeInv'
<1>0. /\ TypeInv /\ TypeOK
      /\ allowance \in [Row -> Int] /\ promised \subseteq Row /\ window \in [Row -> Int]
      BY DEF IInv, TypeInv, TypeOK
<1>1. CASE CompleteTask(t)
  <2>1. window' \in [Row -> Int] /\ budget' \in [created: Nat, events: Nat]
        BY <1>0, <1>1, CountWindowType, EventType DEF CompleteTask
  <2>2. job' = job /\ tap' = tap /\ shown' = shown
        BY <1>1 DEF CompleteTask
  <2> QED BY <1>0, <1>1, <2>1, <2>2, CompleteTypes, Unmoved, GoesOn
          DEF CompleteTask, RestTyped, TypeOK
<1>2. CASE CancelTask(t) \/ ClearDeadline(t)
  <2>1. window' \in [Row -> Int] /\ budget' \in [created: Nat, events: Nat]
        BY <1>0, <1>2, CountWindowType, EventType DEF CancelTask, ClearDeadline
  <2>2. task' \in [Task -> TaskColumns]
        BY <1>0, <1>2, TaskStatusType, TaskAlarmType DEF CancelTask, ClearDeadline
  <2>3. /\ job' = job /\ tap' = tap /\ shown' = shown /\ allowance' = allowance
        /\ promised' \subseteq promised
        BY <1>2 DEF CancelTask, ClearDeadline
  <2> QED BY <1>0, <2>1, <2>2, <2>3, Unmoved, GoesOn DEF RestTyped, TypeOK
<1>3. CASE ReopenTask(t)
  <2>1. task' \in [Task -> TaskColumns] /\ budget' \in [created: Nat, events: Nat]
        BY <1>0, <1>3, TaskStatusType, EventType DEF ReopenTask
  <2> QED BY <1>0, <1>3, <2>1, Unmoved, GoesOn DEF ReopenTask, RestTyped, TypeOK, history
<1>4. ASSUME NEW r \in Row, NEW occ \in Occurrence, MoveDeadline(t, r, occ) PROVE TypeInv'
  <2>1. task' \in [Task -> TaskColumns] /\ budget' \in [created: Nat, events: Nat]
        BY <1>0, <1>4, TaskAlarmType, EventType DEF MoveDeadline
  <2>2. /\ job' = job /\ tap' = tap /\ shown' = shown /\ window' = window
        /\ promised' \subseteq promised /\ allowance' \in [Row -> Int]
        BY <1>0, <1>4 DEF MoveDeadline
  <2> QED BY <1>0, <2>1, <2>2, Unmoved, GoesOn DEF RestTyped, TypeOK
<1> QED BY <1>1, <1>2, <1>3, <1>4

-----------------------------------------------------------------------------
(* The theorems *)

LEMMA InitInv == Init => IInv
<1> SUFFICES ASSUME Init PROVE IInv
    OBVIOUS
<1>1. \A r \in Row : AbsentReminder(r) \in Reminder /\ AbsentReminder(r).status = "absent"
  <2> TAKE r \in Row
  <2> DEFINE new == NewReminder(r, 0, FALSE, NoTask)
  <2>0. 0 \in Occurrence
        BY RemindersAssumption DEF Occurrence, OffGrid
  <2>1. new \in Reminder
        BY <2>0, NewReminderType
  <2> HIDE DEF new
  <2> QED BY <2>1 DEF AbsentReminder, new, Reminder, Status
<1>2. row \in [Row -> Reminder] /\ \A r \in Row : ~Exists(r)
      BY <1>1 DEF Init, Exists
<1>3. TypeOK
      BY <1>2, IdleTypes DEF Init, TypeOK, TaskColumns
<1>4. JobOK /\ TapOK /\ ShownOK
      BY DEF Init, JobOK, TapOK, ShownOK, IdleJob, IdleTap
<1> QED BY <1>2, <1>3, <1>4
        DEF IInv, TypeInv, SeriesOK, TaskAlarmOK, FailedOK, SingleBranch, LiveBranch, Exists

LEMMA NextInv == IInv /\ [Next]_vars => IInv'
<1> SUFFICES ASSUME IInv, [Next]_vars PROVE IInv'
    OBVIOUS
<1>0. Stay /\ SeriesOK' /\ TaskAlarmOK' /\ FailedOK' /\ SingleBranch'
      BY StepInv
<1>1. TypeInv'
  <2>1. CASE UNCHANGED vars
    <3>1. TypeInv /\ JobsGo /\ TapGoes /\ RestTyped /\ \A r \in shown' : Exists(r)
          BY <2>1, Unmoved DEF vars, IInv, TypeInv, TypeOK, RestTyped
    <3> QED BY <1>0, <3>1, GoesOn
  <2>2. CASE Create
        BY <1>0, <2>2, CreateTypes
  <2>3. CASE \E w \in Worker : Deliver(w)
        BY <1>0, <2>3, DeliverTypes
  <2>4. CASE Clock
        BY <1>0, <2>4, ClockTypes
  <2>5. CASE Buttons
        BY <1>0, <2>5, ReadTypes, SnoozeTypes, DoneTypes, DoneTaskTypes, RetryTypes
        DEF Buttons, FinishTap
  <2>6. CASE TaskOperations
        BY <1>0, <2>6, TaskTypes DEF TaskOperations
  <2>7. CASE Crash
        BY <1>0, <2>7, CrashTypes
  <2> QED BY <2>1, <2>2, <2>3, <2>4, <2>5, <2>6, <2>7 DEF Next
<1> QED BY <1>0, <1>1 DEF IInv

\* The inductive invariant holds in every reachable state.
THEOREM Invariance == Spec => []IInv
BY InitInv, NextInv, PTL DEF Spec

\* Every column of every table and every program counter keeps its type.
THEOREM TypeCorrect == Spec => []TypeOK
<1>1. IInv => TypeOK
      BY DEF IInv, TypeInv
<1> QED BY <1>1, Invariance, PTL

\* Whatever the order in which sends, failures, snoozes, retries, task operations
\* and crashes commit, a series never has two recurring occurrences to deliver.
THEOREM SeriesNeverForks == Spec => []SingleBranch
<1>1. IInv => SingleBranch
      BY DEF IInv
<1> QED BY <1>1, Invariance, PTL

-----------------------------------------------------------------------------
(* Who may still send, and what a message costs *)

\* The loops that will send the message of r whatever happens to its row.
Senders(r) == {w \in Worker : job[w].pc = "send" /\ job[w].row = r}

\* The owner of the lease is past its last check: no other loop gets there.
Held(r) == \E w \in Worker : /\ job[w].pc \in {"send", "mark"} /\ job[w].row = r
                             /\ row[r].lease = w /\ row[r].live

\* Some loop may still claim r, or pass the check of its claim, and send.
Sendable(r) == row[r].status \in Waiting /\ ~row[r].sent /\ ~Held(r)

Cost(r) == Cardinality(Senders(r)) + (IF Sendable(r) THEN 1 ELSE 0)

\* Every message that is on its way or still possible has its cause.
Covered(r) == allowance[r] >= Cost(r)
Explained == \A r \in Row : Covered(r)

\* The messages of a closed alarm were on their way when it was closed.
Counted(r) == /\ window[r] >= 0
              /\ row[r].status \in Closed => window[r] >= Cardinality(Senders(r))
InFlight == \A r \in Row : Counted(r)

\* A closed alarm is marked sent, so no loop claims it.
ClosedSent == \A r \in Row : row[r].status \in Closed => row[r].sent

\* What a callback read is what the table holds, but for a delivery or a failure
\* recorded meanwhile; nothing is recorded for an alarm that was read as sent.
SnapOK == tap.pc # "idle" =>
    /\ row[tap.row].status \in {tap.snap.status, "delivered", "failed"}
    /\ tap.snap.status \in Closed => tap.snap.sent
    /\ tap.snap.sent => /\ row[tap.row].sent
                        /\ row[tap.row].status = tap.snap.status
                        /\ row[tap.row].lease = tap.snap.lease
                        /\ row[tap.row].rule = tap.snap.rule

Accounts == ClosedSent /\ SnapOK /\ Explained /\ InFlight

-----------------------------------------------------------------------------
(* What the loops and the clock do to a row *)

Same(r) == /\ row'[r].status = row[r].status /\ row'[r].sent = row[r].sent
           /\ row'[r].rule = row[r].rule /\ row'[r].due = row[r].due
           /\ row'[r].lease = row[r].lease

\* A row that is not sent is claimed, comes due, fails or is delivered; a promised
\* one only when it is due or leased.
Undisturbed(r) ==
    \/ Same(r)
    \/ /\ ~row[r].sent /\ row'[r].rule = row[r].rule
       /\ r \in promised' => row[r].lease # NoWorker \/ row[r].due
       /\ \/ row'[r].status = row[r].status /\ ~row'[r].sent
          \/ row'[r].status = "failed" /\ ~row'[r].sent
          \/ row'[r].status = "delivered" /\ row'[r].sent /\ row'[r].lease = NoWorker

Calm == /\ promised' \subseteq promised
        /\ \A r \in Row : Exists(r) => Undisturbed(r)
        /\ \A r \in Row : ~Exists(r) => \/ Same(r)
                                        \/ row'[r].status = "pending" /\ ~row'[r].sent

LEMMA SameCalm ==
    ASSUME row' = row, promised' = promised
    PROVE  Calm
BY DEF Calm, Undisturbed, Same, Exists

\* One row changes.
LEMMA OneCalm ==
    ASSUME row \in [Row -> Reminder], NEW r \in Row, NEW new,
           row' = [row EXCEPT ![r] = new], promised' \subseteq promised,
           Exists(r) => Undisturbed(r), ~Exists(r) => Same(r)
    PROVE  Calm
<1>1. \A s \in Row : row'[s] = IF s = r THEN new ELSE row[s]
      OBVIOUS
<1>2. \A s \in Row \ {r} : Same(s)
      BY <1>1 DEF Same
<1>3. \A s \in Row : Exists(s) => Undisturbed(s)
      BY <1>2 DEF Undisturbed
<1> QED BY <1>2, <1>3 DEF Calm

LEMMA ClaimCalm == ASSUME IInv, NEW w \in Worker, Claim(w) PROVE Calm
<1>0. row \in [Row -> Reminder] /\ promised' = promised
      BY DEF IInv, TypeInv, TypeOK, Claim, history
<1>1. \A r \in Row : row'[r] = IF Claimable(r) THEN [row[r] EXCEPT !.lease = w, !.live = TRUE]
                               ELSE row[r]
      BY DEF Claim
<1>2. ASSUME NEW r \in Row, Claimable(r)
      PROVE  /\ row'[r].status = row[r].status /\ row'[r].sent = row[r].sent
             /\ row'[r].rule = row[r].rule
             /\ ~row[r].sent /\ row[r].due /\ Exists(r)
  <2>1. row[r] \in Reminder /\ row'[r] = [row[r] EXCEPT !.lease = w, !.live = TRUE]
        BY <1>0, <1>1, <1>2
  <2>2. ~row[r].sent /\ row[r].due /\ Exists(r)
        BY <1>2 DEF Claimable, Exists, Waiting
  <2> QED BY <2>1, <2>2 DEF Reminder
<1>3. \A r \in Row : Undisturbed(r)
  <2> TAKE r \in Row
  <2>1. CASE Claimable(r)
        BY <1>2, <2>1 DEF Undisturbed
  <2>2. CASE ~Claimable(r)
        BY <1>1, <2>2 DEF Undisturbed, Same
  <2> QED BY <2>1, <2>2
<1>4. ASSUME NEW r \in Row, ~Exists(r) PROVE Same(r)
      BY <1>1, <1>2, <1>4 DEF Same
<1> QED BY <1>0, <1>3, <1>4 DEF Calm

\* What the constructors of a row leave in the columns that matter here.
LEMMA DeliveredColumns ==
    ASSUME NEW r \in Row, row[r] \in Reminder
    PROVE  DeliveredRow(r).lease = NoWorker /\ DeliveredRow(r).due = row[r].due
BY DEF DeliveredRow, Reminder

LEMMA FailedColumns ==
    ASSUME NEW r \in Row, row[r] \in Reminder, ~row[r].sent, NEW terminal \in BOOLEAN
    PROVE  /\ FailedRow(r, terminal).status \in {"failed", row[r].status}
           /\ ~FailedRow(r, terminal).sent
           /\ FailedRow(r, terminal).rule = row[r].rule
BY DEF FailedRow, Reminder

\* A loop records an outcome only of a row it holds and that is not sent.
LEMMA MarkableRow ==
    ASSUME IInv, NEW w \in Worker, job[w].pc \in {"mark", "fail"}, Markable(w)
    PROVE  /\ job[w].row \in Row /\ Exists(job[w].row) /\ row[job[w].row] \in Reminder
           /\ ~row[job[w].row].sent /\ row[job[w].row].lease = w /\ w # NoWorker
           /\ job[w].terminal \in BOOLEAN
BY RemindersAssumption DEF IInv, TypeInv, TypeOK, JobOK, Job, Markable

LEMMA MarkSentOnceCalm == ASSUME IInv, NEW w \in Worker, MarkSentOnce(w) PROVE Calm
<1> DEFINE r == job[w].row
<1>1. /\ r \in Row /\ Exists(r) /\ row[r] \in Reminder /\ ~row[r].sent /\ row[r].lease = w
      /\ w # NoWorker
      /\ row' = [row EXCEPT ![r] = DeliveredRow(r)] /\ promised' = promised
      BY MarkableRow DEF MarkSentOnce, history
<1>2. row \in [Row -> Reminder]
      BY DEF IInv, TypeInv, TypeOK
<1> HIDE DEF r
<1>3. row'[r] = DeliveredRow(r)
      BY <1>1, <1>2
<1>4. Undisturbed(r)
      BY <1>1, <1>3, DeliveredType, DeliveredColumns DEF Undisturbed
<1> QED BY <1>1, <1>2, <1>4, OneCalm

LEMMA MarkSentRepeatCalm ==
    ASSUME IInv, NEW w \in Worker, NEW next \in Occurrence, NEW n \in Row,
           MarkSentRepeat(w, next, n)
    PROVE  Calm
<1> DEFINE r == job[w].row
           new == NewReminder(row[r].series, next, TRUE, row[r].task)
<1>1. /\ r \in Row /\ Exists(r) /\ row[r] \in Reminder /\ ~row[r].sent /\ row[r].lease = w
      /\ w # NoWorker /\ ~Exists(n)
      /\ row' = [row EXCEPT ![r] = DeliveredRow(r), ![n] = new] /\ promised' = promised
      BY MarkableRow DEF MarkSentRepeat
<1>2. row \in [Row -> Reminder]
      BY DEF IInv, TypeInv, TypeOK
<1>3. new.status = "pending" /\ ~new.sent
      BY DEF NewReminder
<1> HIDE DEF r, new
<1>4. \A s \in Row : row'[s] = IF s = n THEN new ELSE IF s = r THEN DeliveredRow(r) ELSE row[s]
      BY <1>1, <1>2
<1>5. Undisturbed(r)
  <2>1. row'[r] = DeliveredRow(r)
        BY <1>1, <1>4
  <2> QED BY <1>1, <2>1, DeliveredType, DeliveredColumns DEF Undisturbed
<1>6. \A s \in Row \ {r, n} : Undisturbed(s)
      BY <1>4 DEF Undisturbed, Same
<1>7. ASSUME NEW s \in Row, ~Exists(s)
      PROVE  \/ Same(s)
             \/ row'[s].status = "pending" /\ ~row'[s].sent
      BY <1>1, <1>3, <1>4, <1>7 DEF Same
<1>8. \A s \in Row : Exists(s) => Undisturbed(s)
      BY <1>1, <1>5, <1>6
<1> QED BY <1>1, <1>7, <1>8 DEF Calm

LEMMA RecordFailureCalm == ASSUME IInv, NEW w \in Worker, RecordFailure(w) PROVE Calm
<1> DEFINE r == job[w].row
           new == FailedRow(r, job[w].terminal)
<1>1. CASE ~Markable(w)
      BY <1>1, SameCalm DEF RecordFailure, history
<1>2. CASE Markable(w)
  <2>1. /\ r \in Row /\ Exists(r) /\ row[r] \in Reminder /\ ~row[r].sent /\ row[r].lease = w
        /\ w # NoWorker /\ job[w].terminal \in BOOLEAN
        /\ row' = [row EXCEPT ![r] = new] /\ promised' = promised
        BY <1>2, MarkableRow DEF RecordFailure, history
  <2>2. row \in [Row -> Reminder]
        BY DEF IInv, TypeInv, TypeOK
  <2>3. new.status \in {"failed", row[r].status} /\ ~new.sent /\ new.rule = row[r].rule
        BY <2>1, FailedColumns
  <2> HIDE DEF r, new
  <2>4. Undisturbed(r)
        BY <2>1, <2>2, <2>3 DEF Undisturbed
  <2> QED BY <2>1, <2>2, <2>4, OneCalm
<1> QED BY <1>1, <1>2

LEMMA ClockCalm ==
    ASSUME IInv, NEW r \in Row, BecomesDue(r) \/ LeaseLapse(r) \/ BackoffOver(r)
    PROVE  Calm
<1>0. row \in [Row -> Reminder] /\ row[r] \in Reminder
      BY DEF IInv, TypeInv, TypeOK
<1>1. CASE BecomesDue(r)
  <2> DEFINE new == [row[r] EXCEPT !.due = TRUE]
  <2>1. new.status = row[r].status /\ new.sent = row[r].sent /\ new.rule = row[r].rule
        BY <1>0 DEF Reminder
  <2>2. /\ row' = [row EXCEPT ![r] = new] /\ promised' = promised \ {r}
        /\ Exists(r) /\ ~row[r].sent
        BY <1>1 DEF BecomesDue
  <2> HIDE DEF new
  <2>3. Undisturbed(r)
        BY <1>0, <2>1, <2>2 DEF Undisturbed
  <2> QED BY <1>0, <2>2, <2>3, OneCalm
<1>2. CASE LeaseLapse(r) \/ BackoffOver(r)
  <2>1. PICK new \in {[row[r] EXCEPT !.live = FALSE], [row[r] EXCEPT !.backoff = "over"]} :
            row' = [row EXCEPT ![r] = new]
        BY <1>2 DEF LeaseLapse, BackoffOver
  <2>2. /\ new.status = row[r].status /\ new.sent = row[r].sent /\ new.rule = row[r].rule
        /\ new.due = row[r].due /\ new.lease = row[r].lease
        BY <1>0 DEF Reminder
  <2>3. promised' = promised /\ row'[r] = new
        BY <1>0, <1>2, <2>1 DEF LeaseLapse, BackoffOver, history
  <2>4. Same(r) /\ Undisturbed(r)
        BY <2>2, <2>3 DEF Undisturbed, Same
  <2> QED BY <1>0, <2>1, <2>3, <2>4, OneCalm
<1> QED BY <1>1, <1>2

LEMMA DeliverCalm == ASSUME IInv, NEW w \in Worker, Deliver(w) PROVE Calm
<1>1. CASE Claim(w) \/ MarkSentOnce(w) \/ RecordFailure(w)
      BY <1>1, ClaimCalm, MarkSentOnceCalm, RecordFailureCalm
<1>2. CASE \E next \in Occurrence, n \in Row : MarkSentRepeat(w, next, n)
      BY <1>2, MarkSentRepeatCalm
<1>3. CASE \/ \E r \in Row : Check(w, r)
           \/ MarkSentStale(w) \/ MarkSentDbError(w) \/ RecordFailureLost(w)
      BY <1>3, SameCalm DEF Check, MarkSentStale, MarkSentDbError, RecordFailureLost, history
<1>4. CASE Send(w) \/ \E next \in Occurrence : MarkSentConflict(w, next)
      BY <1>4, SameCalm DEF Send, SendOk, SendAmbiguous, SendRefused, MarkSentConflict, history
<1> QED BY <1>1, <1>2, <1>3, <1>4 DEF Deliver, MarkSent

\* Rows closed before stay so, no other is closed, and what was read stays true.
LEMMA CalmRows ==
    ASSUME IInv, ClosedSent, SnapOK, Calm, tap' = tap \/ tap'.pc = "idle"
    PROVE  /\ ClosedSent' /\ SnapOK'
           /\ \A r \in Row : row'[r].status \in Closed => row[r].status \in Closed
<1>1. ASSUME NEW r \in Row, row'[r].status \in Closed
      PROVE  row[r].status \in Closed /\ row'[r].sent
  <2>1. Exists(r)
        BY <1>1 DEF Calm, Closed, Same, Exists
  <2>2. Undisturbed(r)
        BY <2>1 DEF Calm
  <2>3. row'[r].status = row[r].status
        BY <1>1, <2>2 DEF Undisturbed, Same, Closed
  <2> QED BY <1>1, <2>2, <2>3 DEF ClosedSent, Undisturbed, Same
<1>2. SnapOK'
  <2>1. CASE tap'.pc = "idle"
        BY <2>1 DEF SnapOK
  <2>2. CASE tap.pc # "idle" /\ tap' = tap
    <3>1. tap.row \in Row /\ Exists(tap.row)
          BY <2>2 DEF IInv, TypeInv, TapOK
    <3>2. Undisturbed(tap.row)
          BY <3>1 DEF Calm
    <3> QED BY <2>2, <3>2 DEF SnapOK, Undisturbed, Same
  <2>3. CASE tap.pc = "idle" /\ tap' = tap
        BY <2>3 DEF SnapOK
  <2> QED BY <2>1, <2>2, <2>3
<1> QED BY <1>1, <1>2 DEF ClosedSent

-----------------------------------------------------------------------------
(* What the user does to the accounts *)

LEMMA SendersFinite ==
    ASSUME IInv, NEW r \in Row
    PROVE  /\ IsFiniteSet(Senders(r)) /\ Cardinality(Senders(r)) \in Nat
           /\ ~Exists(r) => Senders(r) = {} /\ Cardinality(Senders(r)) = 0
<1>1. IsFiniteSet(Senders(r))
      BY FS_Subset, RemindersAssumption DEF Senders
<1>2. ~Exists(r) => Senders(r) = {}
      BY DEF IInv, TypeInv, JobOK, Senders
<1> QED BY <1>1, <1>2, FS_CardinalityType, FS_EmptySet

\* A row's next messages are paid for: it was activated, or nothing is new.
Paid(r) ==
    \/ allowance'[r] >= allowance[r] + 1
    \/ /\ allowance'[r] >= allowance[r]
       /\ row'[r] = row[r] \/ row'[r].status \in Closed
    \/ ~Exists(r) /\ allowance'[r] >= 1

NoneClosed == /\ window' = window
              /\ \A r \in Row : row'[r].status \in Closed => row[r].status \in Closed

UserStep == /\ job' = job
            /\ \A r \in Row : Paid(r)
            /\ ClosedSent' /\ SnapOK'
            /\ CountWindow \/ NoneClosed

LEMMA PaidCovers ==
    ASSUME IInv, IInv', Explained, job' = job, NEW r \in Row, Paid(r)
    PROVE  Covered(r)'
<1>0. allowance[r] \in Int /\ allowance'[r] \in Int
      BY DEF IInv, TypeInv, TypeOK
<1>1. Senders(r)' = Senders(r)
      BY DEF Senders
<1>2. Cardinality(Senders(r)) \in Nat /\ (~Exists(r) => Cardinality(Senders(r)) = 0)
      BY SendersFinite
<1>3. allowance[r] >= Cardinality(Senders(r)) + (IF Sendable(r) THEN 1 ELSE 0)
      BY DEF Explained, Covered, Cost
<1>4. row'[r] = row[r] => Sendable(r)' = Sendable(r)
      BY DEF Sendable, Held
<1>5. row'[r].status \in Closed => ~Sendable(r)'
      BY DEF Sendable, Closed, Waiting
<1>6. allowance'[r] >= Cardinality(Senders(r)) + (IF Sendable(r)' THEN 1 ELSE 0)
      BY <1>0, <1>2, <1>3, <1>4, <1>5 DEF Paid
<1> QED BY <1>1, <1>6 DEF Covered, Cost

LEMMA UserAccounts ==
    ASSUME IInv, IInv', Accounts, UserStep
    PROVE  Accounts'
<1>1. Explained'
      BY PaidCovers DEF UserStep, Accounts, Explained
<1>2. \A r \in Row : Cardinality(Senders(r)) \in Nat /\ Senders(r)' = Senders(r)
      BY SendersFinite DEF UserStep, Senders
<1>3. InFlight'
  <2> SUFFICES ASSUME NEW r \in Row PROVE Counted(r)'
      BY DEF InFlight
  <2>1. Counted(r)
        BY DEF Accounts, InFlight
  <2>2. CASE NoneClosed
        BY <1>2, <2>1, <2>2 DEF NoneClosed, Counted
  <2>3. CASE CountWindow
    <3>1. window'[r] = IF row'[r].status \in Closed /\ row[r].status \notin Closed
                       THEN Cardinality(Senders(r)) ELSE window[r]
          BY <2>3 DEF CountWindow, Senders
    <3> QED BY <1>2, <2>1, <3>1 DEF Counted
  <2> QED BY <2>2, <2>3 DEF UserStep
<1> QED BY <1>1, <1>3 DEF UserStep, Accounts

\* One row is activated: inserted, snoozed, retried or moved.
LEMMA Activated ==
    ASSUME IInv, ClosedSent, NEW r \in Row, NEW new,
           row' = [row EXCEPT ![r] = new], new.status \notin Closed,
           allowance' = [allowance EXCEPT ![r] = @ + 1]
             \/ (~Exists(r) /\ allowance' = [allowance EXCEPT ![r] = 1]),
           job' = job, window' = window, tap'.pc = "idle"
    PROVE  UserStep
<1>0. row \in [Row -> Reminder] /\ allowance \in [Row -> Int]
      BY DEF IInv, TypeInv, TypeOK
<1>1. /\ \A s \in Row : row'[s] = IF s = r THEN new ELSE row[s]
      /\ \A s \in Row \ {r} : allowance'[s] = allowance[s]
      /\ allowance'[r] = allowance[r] + 1 \/ (~Exists(r) /\ allowance'[r] = 1)
      BY <1>0
<1>2. ASSUME NEW s \in Row PROVE Paid(s)
  <2>1. CASE s = r
        BY <1>0, <1>1, <2>1 DEF Paid
  <2>2. CASE s # r
        BY <1>0, <1>1, <2>2 DEF Paid
  <2> QED BY <2>1, <2>2
<1>3. ClosedSent' /\ NoneClosed
      BY <1>1 DEF ClosedSent, NoneClosed
<1>4. SnapOK'
      BY DEF SnapOK
<1> QED BY <1>2, <1>3, <1>4 DEF UserStep

\* Rows stay as they are.
LEMMA RowsUntouched ==
    ASSUME IInv, ClosedSent, row' = row, job' = job, allowance' = allowance, window' = window,
           SnapOK'
    PROVE  UserStep
<1>1. \A r \in Row : Paid(r)
      BY DEF IInv, TypeInv, TypeOK, Paid
<1> QED BY <1>1 DEF UserStep, NoneClosed, ClosedSent

LEMMA CreateUser == ASSUME IInv, Accounts, Create PROVE UserStep
<1>0. tap'.pc = "idle" /\ job' = job /\ window' = window
      BY DEF Create, CreateReminder, CreateTask, Isolated
<1>1. \E r \in Row, rule \in BOOLEAN, t \in Task \cup {NoTask} :
        /\ ~Exists(r) /\ row' = [row EXCEPT ![r] = NewReminder(r, 0, rule, t)]
        /\ allowance' = [allowance EXCEPT ![r] = 1]
      BY RemindersAssumption DEF Create, CreateReminder, CreateTask
<1>2. ASSUME NEW r \in Row, NEW rule \in BOOLEAN, NEW t \in Task \cup {NoTask},
             ~Exists(r), row' = [row EXCEPT ![r] = NewReminder(r, 0, rule, t)],
             allowance' = [allowance EXCEPT ![r] = 1]
      PROVE  UserStep
  <2>1. NewReminder(r, 0, rule, t).status \notin Closed
        BY DEF NewReminder, Closed
  <2> QED BY <1>0, <1>2, <2>1, Activated DEF Accounts
<1> QED BY <1>1, <1>2

LEMMA RetryUser == ASSUME IInv, Accounts, NEW r \in Row, Retry(r) PROVE UserStep
<1> DEFINE new == [row[r] EXCEPT !.status = "pending", !.sent = FALSE, !.attempts = 0,
                                 !.backoff = "over", !.lease = NoWorker, !.live = FALSE]
<1>1. /\ tap'.pc = "idle" /\ job' = job /\ window' = window
      /\ row' = [row EXCEPT ![r] = new] /\ allowance' = [allowance EXCEPT ![r] = @ + 1]
      BY DEF Retry, Isolated
<1>2. new.status \notin Closed
      BY DEF IInv, TypeInv, TypeOK, Reminder, Closed
<1> HIDE DEF new
<1> QED BY <1>1, <1>2, Activated DEF Accounts

LEMMA MoveUser ==
    ASSUME IInv, Accounts, NEW t \in Task, NEW r \in Row, NEW occ \in Occurrence,
           MoveDeadline(t, r, occ)
    PROVE  UserStep
<1> DEFINE new == IF Exists(r) THEN MovedRow(row[r], occ) ELSE NewReminder(r, occ, FALSE, t)
<1>1. /\ tap'.pc = "idle" /\ job' = job /\ window' = window
      /\ row' = [row EXCEPT ![r] = new] /\ allowance' = [allowance EXCEPT ![r] = @ + 1]
      BY DEF MoveDeadline, Isolated
<1>2. new.status \notin Closed
  <2>1. row[r] \in Reminder
        BY DEF IInv, TypeInv, TypeOK
  <2>2. MovedRow(row[r], occ).status = "pending" /\ NewReminder(r, occ, FALSE, t).status = "pending"
        BY <2>1, MovedType DEF NewReminder
  <2> QED BY <2>2 DEF Closed
<1> HIDE DEF new
<1> QED BY <1>1, <1>2, Activated DEF Accounts

\* A flushed snooze never closes a row: a row read as snoozed was not closed meanwhile.
LEMMA SnoozeUser == ASSUME IInv, Accounts, SnoozeWrite PROVE UserStep
<1> DEFINE r == tap.row
           flushed == Flush(row[r], tap.snap, SnoozedRow(tap.snap, tap.target))
           new == [flushed EXCEPT !.due = FALSE]
<1>1. /\ r \in Row /\ row[r] \in Reminder /\ tap.snap \in Reminder
      /\ tap'.pc = "idle" /\ job' = job /\ window' = window
      /\ \/ row' = [row EXCEPT ![r] = new] /\ allowance' = [allowance EXCEPT ![r] = @ + 1]
         \/ row' = row /\ allowance' = allowance
      BY DEF IInv, TypeInv, TypeOK, TapOK, SnoozeWrite, IdleTap
<1>2. new.status \notin Closed
  <2>1. SnoozedRow(tap.snap, tap.target).status = "snoozed"
        BY <1>1 DEF SnoozedRow, Reminder
  <2>2. flushed.status = IF tap.snap.status = "snoozed" THEN row[r].status ELSE "snoozed"
        BY <2>1 DEF Flush
  <2>3. new.status = flushed.status
        BY DEF Flush
  <2>4. row[r].status \in {tap.snap.status, "delivered", "failed"}
        BY DEF Accounts, SnapOK, SnoozeWrite
  <2> QED BY <2>2, <2>3, <2>4 DEF Closed
<1> HIDE DEF r, flushed, new
<1>3. SnapOK'
      BY <1>1 DEF SnapOK
<1> QED BY <1>1, <1>2, <1>3, Activated, RowsUntouched DEF Accounts

\* A session that closes the alarms of t holds no closed copy of an open alarm, and
\* an alarm it holds as sent is sent.
Current(t, read) ==
    \A r \in AlarmsOf(t) : /\ read[r] \in Reminder /\ read[r].status \notin Closed
                           /\ read[r].sent => row[r].sent /\ read[r].lease = row[r].lease

LEMMA RowsCurrent == ASSUME IInv, NEW t \in Task PROVE Current(t, row)
BY DEF IInv, TypeInv, TypeOK, Current, AlarmsOf, Unclosed, Waiting, Closed

LEMMA SnapCurrent ==
    ASSUME IInv, Accounts, NEW t \in Task, tap.pc = "done"
    PROVE  Current(t, [row EXCEPT ![tap.row] = tap.snap])
<1> DEFINE read == [row EXCEPT ![tap.row] = tap.snap]
<1>1. row \in [Row -> Reminder] /\ tap.row \in Row /\ tap.snap \in Reminder
      BY DEF IInv, TypeInv, TypeOK, TapOK
<1>2. \A r \in Row : read[r] = IF r = tap.row THEN tap.snap ELSE row[r]
      BY <1>1
<1> HIDE DEF read
<1>3. ASSUME NEW r \in AlarmsOf(t)
      PROVE  /\ read[r] \in Reminder /\ read[r].status \notin Closed
             /\ read[r].sent => row[r].sent /\ read[r].lease = row[r].lease
  <2>1. r \in Row /\ row[r].status \notin Closed
        BY DEF AlarmsOf, Unclosed, Waiting, Closed
  <2>2. CASE r # tap.row
        BY <1>1, <1>2, <2>1, <2>2
  <2>3. CASE r = tap.row
    <3>1. read[r] = tap.snap
          BY <1>2, <2>1, <2>3
    <3> QED BY <1>1, <2>1, <2>3, <3>1 DEF Accounts, SnapOK
  <2> QED BY <2>2, <2>3
<1> QED BY <1>3 DEF Current, read

LEMMA ClosedColumns ==
    ASSUME IInv, NEW t \in Task, NEW status \in Closed, NEW read, Current(t, read), NEW r \in Row
    PROVE  LET new == CloseAlarms(t, status, read)[r] IN
           IF r \in AlarmsOf(t)
           THEN /\ new.status = status /\ new.sent
                /\ read[r].lease = row[r].lease => new.lease = NoWorker
           ELSE new = row[r]
<1> DEFINE assigned == [read[r] EXCEPT !.status = status, !.sent = TRUE, !.lease = NoWorker]
<1>1. CloseAlarms(t, status, read)[r]
        = IF r \in AlarmsOf(t) THEN Flush(row[r], read[r], assigned) ELSE row[r]
      BY DEF CloseAlarms
<1>2. CASE r \in AlarmsOf(t)
  <2>1. /\ read[r] \in Reminder /\ read[r].status \notin Closed
        /\ read[r].sent => row[r].sent /\ read[r].lease = row[r].lease
        /\ row[r] \in Reminder
        BY <1>2 DEF Current, IInv, TypeInv, TypeOK
  <2>2. assigned.status = status /\ assigned.sent = TRUE /\ assigned.lease = NoWorker
        BY <2>1 DEF Reminder
  <2> HIDE DEF assigned
  <2>3. /\ Flush(row[r], read[r], assigned).status = status
        /\ Flush(row[r], read[r], assigned).sent
        /\ read[r].lease = row[r].lease => Flush(row[r], read[r], assigned).lease = NoWorker
        BY <2>1, <2>2 DEF Flush, Reminder
  <2> QED BY <1>1, <1>2, <2>3
<1>3. CASE r \notin AlarmsOf(t)
      BY <1>1, <1>3
<1> QED BY <1>2, <1>3

LEMMA Closes ==
    ASSUME IInv, Accounts, NEW t \in Task, NEW status \in Closed, NEW read, Current(t, read),
           row' = CloseAlarms(t, status, read), allowance' = allowance,
           job' = job, tap'.pc = "idle", CountWindow
    PROVE  UserStep
<1>0. allowance \in [Row -> Int]
      BY DEF IInv, TypeInv, TypeOK
<1>1. ASSUME NEW r \in Row
      PROVE  row'[r] = row[r] \/ (row'[r].status \in Closed /\ row'[r].sent)
      BY ClosedColumns
<1>2. \A r \in Row : Paid(r)
      BY <1>0, <1>1 DEF Paid
<1>3. ClosedSent' /\ SnapOK'
      BY <1>1 DEF Accounts, ClosedSent, SnapOK
<1> QED BY <1>2, <1>3 DEF UserStep

LEMMA Completes ==
    ASSUME IInv, Accounts, NEW t \in Task, NEW read, Current(t, read), Complete(t, read),
           job' = job, tap'.pc = "idle", CountWindow
    PROVE  UserStep
<1>0. "resolved" \in Closed /\ allowance \in [Row -> Int]
      BY DEF Closed, IInv, TypeInv, TypeOK
<1>1. CASE row' = CloseAlarms(t, "resolved", read) /\ allowance' = allowance
      BY <1>0, <1>1, Closes
<1>2. ASSUME NEW next \in Task, NEW n \in Row, ~Exists(n),
             row' = [CloseAlarms(t, "resolved", read) EXCEPT ![n] = NewReminder(n, 0, FALSE, next)],
             allowance' = [allowance EXCEPT ![n] = 1]
      PROVE  UserStep
  <2> DEFINE closed == CloseAlarms(t, "resolved", read)
             new == NewReminder(n, 0, FALSE, next)
  <2>1. closed = [r \in Row |-> closed[r]]
        BY DEF CloseAlarms
  <2>2. new.status \notin Closed
        BY DEF NewReminder, Closed
  <2>3. ASSUME NEW r \in Row
        PROVE  closed[r] = row[r] \/ (closed[r].status \in Closed /\ closed[r].sent)
        BY <1>0, ClosedColumns
  <2> HIDE DEF closed
  <2>4. row' = [closed EXCEPT ![n] = new]
        BY <1>2 DEF closed
  <2> HIDE DEF new
  <2>5. \A r \in Row : row'[r] = IF r = n THEN new ELSE closed[r]
        BY <2>1, <2>4
  <2>6. \A r \in Row : allowance'[r] = IF r = n THEN 1 ELSE allowance[r]
        BY <1>0, <1>2
  <2>7. ASSUME NEW r \in Row PROVE Paid(r)
    <3>1. CASE r = n
      <4>1. allowance'[r] = 1 /\ ~Exists(r)
            BY <1>2, <2>6, <3>1
      <4>2. allowance'[r] >= 1
            BY <4>1
      <4> QED BY <4>1, <4>2 DEF Paid
    <3>2. CASE r # n
          BY <1>0, <2>3, <2>5, <2>6, <3>2 DEF Paid
    <3> QED BY <3>1, <3>2
  <2>8. ClosedSent' /\ SnapOK'
        BY <2>2, <2>3, <2>5 DEF Accounts, ClosedSent, SnapOK
  <2> QED BY <2>7, <2>8 DEF UserStep
<1> QED BY <1>1, <1>2 DEF Complete, CompleteOnce, CompleteRepeat

LEMMA DoneUser == ASSUME IInv, Accounts, DoneWrite PROVE UserStep
<1> DEFINE r == tap.row
           old == tap.snap
           new == Flush(row[r], old, ResolvedRow(old))
<1>1. /\ r \in Row /\ row \in [Row -> Reminder] /\ row[r] \in Reminder /\ old \in Reminder
      /\ tap'.pc = "idle" /\ job' = job /\ allowance' = allowance /\ CountWindow
      /\ row' = row \/ (old.status # "resolved" /\ row' = [row EXCEPT ![r] = new])
      BY DEF IInv, TypeInv, TypeOK, TapOK, DoneWrite, IdleTap
<1>2. old.status # "resolved" => new.status = "resolved" /\ new.sent
  <2>1. ResolvedRow(old).status = "resolved" /\ ResolvedRow(old).sent = TRUE
        BY <1>1 DEF ResolvedRow, Reminder
  <2>2. old.sent => row[r].sent
        BY DEF Accounts, SnapOK, DoneWrite
  <2> QED BY <1>1, <2>1, <2>2 DEF Flush, Reminder
<1> HIDE DEF r, new
<1>3. \A s \in Row : row'[s] = row[s] \/ (row'[s].status = "resolved" /\ row'[s].sent)
      BY <1>1, <1>2
<1>4. \A s \in Row : Paid(s)
      BY <1>1, <1>3 DEF IInv, TypeInv, TypeOK, Paid, Closed
<1>5. ClosedSent' /\ SnapOK'
      BY <1>1, <1>3 DEF Accounts, ClosedSent, SnapOK
<1> QED BY <1>1, <1>4, <1>5 DEF UserStep

LEMMA DoneTaskUser == ASSUME IInv, Accounts, DoneTask PROVE UserStep
<1> DEFINE t == tap.snap.task
           read == [row EXCEPT ![tap.row] = tap.snap]
<1>1. /\ t \in Task /\ tap.pc = "done" /\ tap'.pc = "idle" /\ job' = job /\ CountWindow
      /\ Complete(t, read) \/ (row' = row /\ allowance' = allowance)
      BY DEF IInv, TypeInv, TapOK, DoneTask, IdleTap, Reminder
<1>2. Current(t, read)
      BY <1>1, SnapCurrent
<1>3. CASE Complete(t, read)
  <2> HIDE DEF t, read
  <2> QED BY <1>1, <1>2, <1>3, Completes
<1>4. CASE row' = row /\ allowance' = allowance
  <2>1. \A r \in Row : Paid(r)
        BY <1>4 DEF IInv, TypeInv, TypeOK, Paid
  <2> QED BY <1>1, <1>4, <2>1 DEF UserStep, Accounts, ClosedSent, SnapOK
<1> QED BY <1>1, <1>3, <1>4

LEMMA ReadUser ==
    ASSUME IInv, Accounts, NEW r \in Row,
           DoneRead(r) \/ \E target \in Occurrence : SnoozeRead(r, target)
    PROVE  UserStep
<1>1. /\ row' = row /\ job' = job /\ allowance' = allowance /\ window' = window
      /\ tap'.row = r /\ tap'.snap = row[r]
      BY DEF DoneRead, SnoozeRead, IdleTap, history
<1>2. SnapOK'
      BY <1>1 DEF Accounts, ClosedSent, SnapOK
<1> QED BY <1>1, <1>2, RowsUntouched DEF Accounts

LEMMA TaskUser ==
    ASSUME IInv, Accounts, NEW t \in Task,
           \/ CompleteTask(t) \/ CancelTask(t) \/ ReopenTask(t) \/ ClearDeadline(t)
           \/ \E r \in Row, occ \in Occurrence : MoveDeadline(t, r, occ)
    PROVE  UserStep
<1>1. CASE CompleteTask(t)
      BY <1>1, RowsCurrent, Completes DEF CompleteTask, Isolated
<1>2. CASE CancelTask(t) \/ ClearDeadline(t)
  <2>1. "cancelled" \in Closed
        BY DEF Closed
  <2> QED BY <1>2, <2>1, RowsCurrent, Closes DEF CancelTask, ClearDeadline, Isolated
<1>3. CASE ReopenTask(t)
  <2>1. /\ row' = row /\ job' = job /\ allowance' = allowance /\ window' = window
        /\ tap'.pc = "idle"
        BY <1>3 DEF ReopenTask, Isolated, history
  <2> QED BY <2>1, RowsUntouched DEF SnapOK, Accounts
<1>4. CASE \E r \in Row, occ \in Occurrence : MoveDeadline(t, r, occ)
      BY <1>4, MoveUser
<1> QED BY <1>1, <1>2, <1>3, <1>4

-----------------------------------------------------------------------------
(* What the loops, the clock and a crash do to the accounts *)

\* The senders when the loop w moves on to the job j.
LEMMA SendersMove ==
    ASSUME IInv, NEW w \in Worker, NEW j, job' = [job EXCEPT ![w] = j], NEW r \in Row
    PROVE  /\ Cardinality(Senders(r)) \in Nat /\ Cardinality(Senders(r)') \in Nat
           /\ (j.pc # "send" /\ job[w].pc # "send") \/ (j.pc = job[w].pc /\ j.row = job[w].row)
              => Cardinality(Senders(r)') = Cardinality(Senders(r))
           /\ j.pc # "send" /\ job[w].pc = "send"
              => Cardinality(Senders(r)') = Cardinality(Senders(r))
                                             - (IF job[w].row = r THEN 1 ELSE 0)
           /\ j.pc = "send" /\ job[w].pc # "send"
              => Cardinality(Senders(r)') = Cardinality(Senders(r))
                                             + (IF j.row = r THEN 1 ELSE 0)
<1>0. job \in [Worker -> Job]
      BY DEF IInv, TypeInv, TypeOK
<1>1. \A v \in Worker : job'[v] = IF v = w THEN j ELSE job[v]
      BY <1>0
<1>2. IsFiniteSet(Senders(r)) /\ IsFiniteSet(Senders(r)')
      BY FS_Subset, RemindersAssumption DEF Senders
<1>3. Cardinality(Senders(r)) \in Nat /\ Cardinality(Senders(r)') \in Nat
      BY <1>2, FS_CardinalityType
<1>4. CASE w \in Senders(r)
  <2>1. CASE j.pc = "send" /\ j.row = r
    <3>1. Senders(r)' = Senders(r)
          BY <1>1, <1>4, <2>1 DEF Senders
    <3> QED BY <1>3, <1>4, <2>1, <3>1 DEF Senders
  <2>2. CASE ~(j.pc = "send" /\ j.row = r)
    <3>1. Senders(r)' = Senders(r) \ {w}
          BY <1>1, <1>4, <2>2 DEF Senders
    <3>2. Cardinality(Senders(r)') = Cardinality(Senders(r)) - 1
          BY <1>2, <1>4, <3>1, FS_RemoveElement
    <3> QED BY <1>3, <1>4, <2>2, <3>2 DEF Senders
  <2> QED BY <2>1, <2>2
<1>5. CASE w \notin Senders(r)
  <2>1. CASE j.pc = "send" /\ j.row = r
    <3>1. Senders(r)' = Senders(r) \cup {w}
          BY <1>1, <1>5, <2>1 DEF Senders
    <3>2. Cardinality(Senders(r)') = Cardinality(Senders(r)) + 1
          BY <1>2, <1>5, <3>1, FS_AddElement
    <3> QED BY <1>3, <1>5, <2>1, <3>2 DEF Senders
  <2>2. CASE ~(j.pc = "send" /\ j.row = r)
    <3>1. Senders(r)' = Senders(r)
          BY <1>1, <1>5, <2>2 DEF Senders
    <3>2. Cardinality(Senders(r)') = Cardinality(Senders(r))
          BY <3>1
    <3>3. job[w].pc = "send" => job[w].row # r
          BY <1>5 DEF Senders
    <3> QED BY <1>3, <2>2, <3>2, <3>3
  <2> QED BY <2>1, <2>2
<1> QED BY <1>4, <1>5

\* The accounts of r after a step that changes the number of its senders by d.
LEMMA Balance ==
    ASSUME IInv, IInv', Accounts, NEW r \in Row, NEW d \in Int,
           row'[r].status \in Closed => row[r].status \in Closed,
           Cardinality(Senders(r)') = Cardinality(Senders(r)) + d,
           \/ allowance'[r] >= allowance[r] + d + 1
           \/ allowance'[r] >= allowance[r] + d /\ (Sendable(r)' => Sendable(r))
           \/ allowance'[r] >= allowance[r] + d - 1 /\ Sendable(r) /\ ~Sendable(r)',
           IF row'[r].status \in Closed THEN window'[r] >= window[r] + d
                                        ELSE window'[r] >= window[r]
    PROVE  Covered(r)' /\ Counted(r)'
<1>0. /\ allowance[r] \in Int /\ allowance'[r] \in Int
      /\ window[r] \in Int /\ window'[r] \in Int
      BY DEF IInv, TypeInv, TypeOK
<1>1. IsFiniteSet(Senders(r)) /\ IsFiniteSet(Senders(r)')
      BY FS_Subset, RemindersAssumption DEF Senders
<1>2. Cardinality(Senders(r)) \in Nat /\ Cardinality(Senders(r)') \in Nat
      BY <1>1, FS_CardinalityType
<1>3. allowance[r] >= Cardinality(Senders(r)) + (IF Sendable(r) THEN 1 ELSE 0)
      BY DEF Accounts, Explained, Covered, Cost
<1>4. allowance'[r] >= Cardinality(Senders(r)') + (IF Sendable(r)' THEN 1 ELSE 0)
      BY <1>0, <1>2, <1>3
<1>5. window[r] >= 0 /\ (row[r].status \in Closed => window[r] >= Cardinality(Senders(r)))
      BY DEF Accounts, InFlight, Counted
<1>6. window'[r] >= 0 /\ (row'[r].status \in Closed => window'[r] >= Cardinality(Senders(r)'))
      BY <1>0, <1>2, <1>5
<1> QED BY <1>4, <1>6 DEF Covered, Cost, Counted

\* ... when the number of senders and the window stay, and nothing becomes sendable.
LEMMA Level ==
    ASSUME IInv, IInv', Accounts, NEW r \in Row,
           row'[r].status \in Closed => row[r].status \in Closed,
           Cardinality(Senders(r)') = Cardinality(Senders(r)),
           \/ allowance'[r] = allowance[r] /\ (Sendable(r)' => Sendable(r))
           \/ allowance'[r] = allowance[r] + 1,
           window'[r] = window[r]
    PROVE  Covered(r)' /\ Counted(r)'
<1>1. /\ allowance[r] \in Int /\ window[r] \in Int
      /\ Cardinality(Senders(r)) \in Nat
      BY SendersFinite DEF IInv, TypeInv, TypeOK
<1>2. Cardinality(Senders(r)') = Cardinality(Senders(r)) + 0
      BY <1>1
<1>3. \/ allowance'[r] >= allowance[r] + 0 + 1
      \/ allowance'[r] >= allowance[r] + 0 /\ (Sendable(r)' => Sendable(r))
      BY <1>1
<1>4. window'[r] >= window[r] + 0 /\ window'[r] >= window[r]
      BY <1>1
<1> QED BY <1>2, <1>3, <1>4, Balance

\* The loop that moves takes its hold of a row with it, or keeps it.
LEMMA HeldMove ==
    ASSUME IInv, NEW w \in Worker, NEW j, job' = [job EXCEPT ![w] = j], NEW r \in Row,
           row'[r].lease = row[r].lease, row'[r].live = row[r].live, Held(r),
           \/ job[w].pc \notin {"send", "mark"} \/ job[w].row # r \/ row[r].lease # w
           \/ j.pc \in {"send", "mark"} /\ j.row = job[w].row
    PROVE  Held(r)'
<1>0. \A v \in Worker : job'[v] = IF v = w THEN j ELSE job[v]
      BY DEF IInv, TypeInv, TypeOK
<1>1. PICK v \in Worker : /\ job[v].pc \in {"send", "mark"} /\ job[v].row = r
                          /\ row[r].lease = v /\ row[r].live
      BY DEF Held
<1>2. job'[v].pc \in {"send", "mark"} /\ job'[v].row = r
      BY <1>0, <1>1
<1> QED BY <1>1, <1>2 DEF Held

LEMMA StillSendable ==
    ASSUME NEW r \in Row, row'[r] = row[r], Held(r) => Held(r)', Sendable(r)'
    PROVE  Sendable(r)
BY DEF Sendable

\* The check of a claim makes the loop a sender of a row that was sendable.
LEMMA CheckAccounts ==
    ASSUME IInv, IInv', Accounts, NEW w \in Worker, NEW c \in Row, Check(w, c),
           NEW r \in Row, row'[r].status \in Closed => row[r].status \in Closed
    PROVE  Covered(r)' /\ Counted(r)'
<1> DEFINE left == job[w].left \ {c}
<1>0. row' = row /\ allowance' = allowance /\ window' = window /\ job[w].pc = "check"
      BY DEF Check, history
<1>1. allowance[r] \in Int /\ window[r] \in Int
      BY DEF IInv, TypeInv, TypeOK
<1>2. CASE ClaimIsActive(w, c)
  <2> DEFINE j == [IdleJob EXCEPT !.pc = "send", !.row = c, !.left = left]
  <2>1. job' = [job EXCEPT ![w] = j] /\ j.pc = "send" /\ j.row = c
        BY <1>2 DEF Check, IdleJob
  <2> HIDE DEF j
  <2>2. Cardinality(Senders(r)') = Cardinality(Senders(r)) + (IF c = r THEN 1 ELSE 0)
        BY <1>0, <2>1, SendersMove
  <2>3. CASE r = c
    <3>1. Sendable(r)
          BY <1>0, <1>2, <2>3 DEF ClaimIsActive, Sendable, Held
    <3>2. job'[w] = j
          BY <2>1 DEF IInv, TypeInv, TypeOK
    <3>3. ~Sendable(r)'
          BY <1>0, <1>2, <2>1, <2>3, <3>2 DEF ClaimIsActive, Sendable, Held
    <3>4. row'[r].status \notin Closed
          BY <1>0, <1>2, <2>3 DEF ClaimIsActive, Waiting, Closed
    <3>5. allowance'[r] >= allowance[r] + 1 - 1 /\ window'[r] >= window[r]
          BY <1>0, <1>1
    <3> QED BY <2>2, <2>3, <3>1, <3>3, <3>4, <3>5, Balance
  <2>4. CASE r # c
    <3>1. Held(r) => Held(r)'
          BY <1>0, <2>1, HeldMove
    <3>2. Cardinality(Senders(r)') = Cardinality(Senders(r))
          BY <2>2, <2>4, SendersFinite
    <3> QED BY <1>0, <3>1, <3>2, StillSendable, Level
  <2> QED BY <2>3, <2>4
<1>3. CASE ~ClaimIsActive(w, c)
  <2> DEFINE next == [IdleJob EXCEPT !.pc = "check", !.left = left]
  <2>1. job' = [job EXCEPT ![w] = IdleJob] \/ job' = [job EXCEPT ![w] = next]
        BY <1>3 DEF Check
  <2>2. IdleJob.pc # "send" /\ next.pc # "send"
        BY DEF IdleJob
  <2> HIDE DEF next
  <2>3. ASSUME NEW j, job' = [job EXCEPT ![w] = j], j.pc # "send"
        PROVE  Covered(r)' /\ Counted(r)'
    <3>1. Held(r) => Held(r)'
          BY <1>0, <2>3, HeldMove
    <3>2. Cardinality(Senders(r)') = Cardinality(Senders(r))
          BY <1>0, <2>3, SendersMove
    <3> QED BY <1>0, <3>1, <3>2, StillSendable, Level
  <2> QED BY <2>1, <2>2, <2>3
<1> QED BY <1>2, <1>3

LEMMA ClaimAccounts ==
    ASSUME IInv, IInv', Accounts, NEW w \in Worker, Claim(w),
           NEW r \in Row, row'[r].status \in Closed => row[r].status \in Closed
    PROVE  Covered(r)' /\ Counted(r)'
<1> DEFINE j == [IdleJob EXCEPT !.pc = "check", !.left = {s \in Row : Claimable(s)}]
<1>1. /\ job[w].pc = "idle" /\ job' = [job EXCEPT ![w] = j] /\ j.pc # "send"
      /\ allowance' = allowance /\ window' = window
      /\ row'[r] = IF Claimable(r) THEN [row[r] EXCEPT !.lease = w, !.live = TRUE] ELSE row[r]
      BY DEF Claim, history, IdleJob
<1> HIDE DEF j
<1>2. Cardinality(Senders(r)') = Cardinality(Senders(r))
      BY <1>1, SendersMove
<1>3. Sendable(r)' => Sendable(r)
  <2>1. CASE Claimable(r)
    <3>1. row[r].lease = NoWorker \/ ~row[r].live
          BY <2>1 DEF Claimable
    <3> QED BY <2>1, <3>1, RemindersAssumption DEF Claimable, Sendable, Held
  <2>2. CASE ~Claimable(r)
    <3>1. Held(r) => Held(r)'
          BY <1>1, <2>2, HeldMove
    <3> QED BY <1>1, <2>2, <3>1 DEF Sendable
  <2> QED BY <2>1, <2>2
<1> QED BY <1>1, <1>2, <1>3, Level

\* Telegram's answer makes a sender of its row less.
LEMMA SendAccounts ==
    ASSUME IInv, IInv', Accounts, NEW w \in Worker, Send(w), NEW r \in Row
    PROVE  Covered(r)' /\ Counted(r)'
<1> DEFINE d == IF job[w].row = r THEN -1 ELSE 0
<1>0. /\ row' = row /\ job[w].pc = "send"
      /\ allowance \in [Row -> Int] /\ window \in [Row -> Int] /\ job[w] \in Job
      /\ job \in [Worker -> Job]
      BY DEF IInv, TypeInv, TypeOK, Send, SendOk, SendAmbiguous, SendRefused
<1>1. PICK pc \in {"mark", "fail"}, terminal \in BOOLEAN :
          job' = [job EXCEPT ![w] = [job[w] EXCEPT !.pc = pc, !.terminal = terminal]]
  <2>1. job[w].terminal \in BOOLEAN
        BY <1>0 DEF Job
  <2>2. CASE SendOk(w) \/ SendAmbiguous(w)
    <3>1. PICK pc \in {"mark", "fail"} : job' = [job EXCEPT ![w].pc = pc]
          BY <2>2 DEF SendOk, SendAmbiguous
    <3>2. [job[w] EXCEPT !.pc = pc] = [job[w] EXCEPT !.pc = pc, !.terminal = job[w].terminal]
          BY <1>0 DEF Job
    <3> QED BY <2>1, <3>1, <3>2
  <2>3. CASE \E terminal \in BOOLEAN : SendRefused(w, terminal)
    <3>1. PICK terminal \in BOOLEAN : SendRefused(w, terminal)
          BY <2>3
    <3>2. job' = [job EXCEPT ![w] = [job[w] EXCEPT !.pc = "fail", !.terminal = terminal]]
          BY <1>0, <3>1 DEF SendRefused
    <3> QED BY <3>2
  <2> QED BY <2>2, <2>3 DEF Send
<1> DEFINE j == [job[w] EXCEPT !.pc = pc, !.terminal = terminal]
<1>2. j.pc = pc /\ j.row = job[w].row /\ job' = [job EXCEPT ![w] = j]
      BY <1>0, <1>1 DEF Job
<1> HIDE DEF j
<1>3. d \in Int /\ Cardinality(Senders(r)') = Cardinality(Senders(r)) + d
  <2>1. Cardinality(Senders(r)') = Cardinality(Senders(r)) - (IF job[w].row = r THEN 1 ELSE 0)
        BY <1>0, <1>2, SendersMove
  <2> QED BY <2>1, SendersFinite
<1>4. /\ \/ allowance'[r] >= allowance[r] + d + 1
         \/ allowance'[r] >= allowance[r] + d /\ (Sendable(r)' => Sendable(r))
      /\ IF row'[r].status \in Closed THEN window'[r] >= window[r] + d
                                      ELSE window'[r] >= window[r]
  <2>1. CASE SendOk(w)
    <3>1. Held(r) => Held(r)'
      <4>1. pc = "mark"
        <5>1. job'[w].pc = "mark" /\ job'[w] = j
              BY <1>0, <1>2, <2>1 DEF SendOk, Job
        <5> QED BY <1>2, <5>1
      <4> QED BY <1>0, <1>2, <4>1, HeldMove
    <3>2. Sendable(r)' => Sendable(r)
          BY <1>0, <3>1, StillSendable
    <3>3. /\ allowance'[r] = IF r = job[w].row THEN allowance[r] - 1 ELSE allowance[r]
          /\ window'[r] = IF r = job[w].row /\ row[r].status \in Closed THEN window[r] - 1
                          ELSE window[r]
          BY <1>0, <2>1 DEF SendOk, Accepted
    <3>4. allowance'[r] >= allowance[r] + d
          BY <1>0, <3>3
    <3>5. IF row'[r].status \in Closed THEN window'[r] >= window[r] + d
                                       ELSE window'[r] >= window[r]
          BY <1>0, <3>3
    <3> QED BY <3>2, <3>4, <3>5
  <2>2. CASE SendAmbiguous(w) \/ \E t \in BOOLEAN : SendRefused(w, t)
    <3>1. /\ allowance'[r] = allowance[r]
          /\ \/ window'[r] = window[r]
             \/ window'[r] = IF r = job[w].row /\ row[r].status \in Closed THEN window[r] - 1
                             ELSE window[r]
          BY <1>0, <2>2 DEF SendAmbiguous, Accepted, SendRefused, history
    <3>2. IF row'[r].status \in Closed THEN window'[r] >= window[r] + d
                                       ELSE window'[r] >= window[r]
          BY <1>0, <3>1
    <3>3. CASE r = job[w].row
      <4>1. allowance'[r] >= allowance[r] + d + 1
            BY <1>0, <3>1, <3>3
      <4> QED BY <3>2, <4>1
    <3>4. CASE r # job[w].row
      <4>1. Held(r) => Held(r)'
            BY <1>0, <1>2, <3>4, HeldMove
      <4>2. Sendable(r)' => Sendable(r)
            BY <1>0, <4>1, StillSendable
      <4>3. allowance'[r] >= allowance[r] + d
            BY <1>0, <3>1, <3>4
      <4> QED BY <3>2, <4>2, <4>3
    <3> QED BY <3>3, <3>4
  <2> QED BY <2>1, <2>2 DEF Send
<1> HIDE DEF d
<1> QED BY <1>0, <1>3, <1>4, Balance

\* The loop w, past its send, goes on to the job j; the row of the claim is r0.
LEMMA RecordAccounts ==
    ASSUME IInv, IInv', Accounts, NEW w \in Worker, job[w].pc \in {"mark", "fail"},
           NEW j, job' = [job EXCEPT ![w] = j], j.pc # "send",
           window' = window, NEW r \in Row,
           row'[r].status \in Closed => row[r].status \in Closed,
           \/ allowance'[r] = allowance[r] + 1
           \/ allowance'[r] = allowance[r] /\ row'[r].sent
           \/ allowance'[r] = allowance[r] /\ row'[r] = row[r]
              /\ (job[w].row # r \/ row[r].lease # w \/ job[w].pc = "fail")
           \/ allowance'[r] = allowance[r] /\ Sendable(r)
    PROVE  Covered(r)' /\ Counted(r)'
<1>1. Cardinality(Senders(r)') = Cardinality(Senders(r))
      BY SendersMove
<1>2. CASE allowance'[r] = allowance[r] + 1
      BY <1>1, <1>2, Level
<1>3. CASE allowance'[r] = allowance[r] /\ row'[r].sent
  <2>1. ~Sendable(r)'
        BY <1>3 DEF Sendable
  <2> QED BY <1>1, <1>3, <2>1, Level
<1>4. CASE allowance'[r] = allowance[r] /\ row'[r] = row[r]
           /\ (job[w].row # r \/ row[r].lease # w \/ job[w].pc = "fail")
  <2>1. Held(r) => Held(r)'
        BY <1>4, HeldMove
  <2> QED BY <1>1, <1>4, <2>1, StillSendable, Level
<1>5. CASE allowance'[r] = allowance[r] /\ Sendable(r)
      BY <1>1, <1>5, Level
<1> QED BY <1>2, <1>3, <1>4, <1>5

LEMMA MarkAccounts ==
    ASSUME IInv, IInv', Accounts, NEW w \in Worker, MarkSentStale(w) \/ MarkSentOnce(w),
           NEW r \in Row, row'[r].status \in Closed => row[r].status \in Closed
    PROVE  Covered(r)' /\ Counted(r)'
<1>1. /\ job[w].pc = "mark" /\ job' = [job EXCEPT ![w] = Proceed(w)] /\ Proceed(w).pc # "send"
      /\ allowance' = allowance /\ window' = window
      BY ProceedType DEF IInv, TypeInv, MarkSentStale, MarkSentOnce, history
<1>2. CASE MarkSentStale(w)
  <2>1. row' = row /\ (job[w].row = r /\ row[r].lease = w => row[r].sent)
        BY <1>2 DEF MarkSentStale, Markable
  <2> QED BY <1>1, <2>1, RecordAccounts
<1>3. CASE MarkSentOnce(w)
  <2>1. row' = [row EXCEPT ![job[w].row] = DeliveredRow(job[w].row)] /\ row \in [Row -> Reminder]
        BY <1>3 DEF MarkSentOnce, IInv, TypeInv, TypeOK
  <2>2. CASE r = job[w].row
    <3>1. row'[r] = DeliveredRow(r)
          BY <2>1, <2>2
    <3>2. row'[r].sent
          BY <2>1, <3>1, DeliveredType
    <3> QED BY <1>1, <3>2, RecordAccounts
  <2>3. CASE r # job[w].row
    <3>1. row'[r] = row[r]
          BY <2>1, <2>3
    <3> QED BY <1>1, <2>3, <3>1, RecordAccounts
  <2> QED BY <2>2, <2>3
<1> QED BY <1>2, <1>3

LEMMA MarkSentRepeatAccounts ==
    ASSUME IInv, IInv', Accounts, NEW w \in Worker, NEW next \in Occurrence, NEW n \in Row,
           MarkSentRepeat(w, next, n),
           NEW r \in Row, row'[r].status \in Closed => row[r].status \in Closed
    PROVE  Covered(r)' /\ Counted(r)'
<1> DEFINE r0 == job[w].row
           new == NewReminder(row[r0].series, next, TRUE, row[r0].task)
<1>1. /\ job[w].pc = "mark" /\ job' = [job EXCEPT ![w] = Proceed(w)] /\ Proceed(w).pc # "send"
      /\ allowance' = [allowance EXCEPT ![n] = 1] /\ window' = window
      /\ row' = [row EXCEPT ![r0] = DeliveredRow(r0), ![n] = new]
      /\ ~Exists(n) /\ r0 \in Row /\ Exists(r0)
      BY ProceedType DEF IInv, TypeInv, JobOK, MarkSentRepeat
<1>0. row \in [Row -> Reminder] /\ allowance \in [Row -> Int]
      BY DEF IInv, TypeInv, TypeOK
<1> HIDE DEF r0, new
<1>2. /\ row'[r] = IF r = n THEN new ELSE IF r = r0 THEN DeliveredRow(r0) ELSE row[r]
      /\ allowance'[r] = IF r = n THEN 1 ELSE allowance[r]
      BY <1>0, <1>1
<1>3. CASE r = n
  <2>1. Cardinality(Senders(r)') = 0 /\ Cardinality(Senders(r)) = 0
    <3>1. PICK j : job' = [job EXCEPT ![w] = j] /\ j.pc # "send"
          BY <1>1
    <3>2. Cardinality(Senders(r)') = Cardinality(Senders(r))
          BY <1>1, <3>1, SendersMove
    <3>3. Cardinality(Senders(r)) = 0
          BY <1>1, <1>3, SendersFinite
    <3> QED BY <3>2, <3>3
  <2>2. allowance'[r] = 1
        BY <1>2, <1>3
  <2>3. Covered(r)'
        BY <2>1, <2>2 DEF Covered, Cost
  <2>4. row'[r].status \notin Closed
        BY <1>2, <1>3 DEF new, NewReminder, Closed
  <2>5. Counted(r)'
        BY <1>1, <2>4 DEF Accounts, InFlight, Counted
  <2> QED BY <2>3, <2>5
<1>4. CASE r = r0 /\ r # n
  <2>1. row'[r].sent
        BY <1>0, <1>1, <1>2, <1>4, DeliveredType
  <2> QED BY <1>1, <1>2, <1>4, <2>1, RecordAccounts
<1>5. CASE r # r0 /\ r # n
      BY <1>1, <1>2, <1>5, RecordAccounts DEF r0
<1> QED BY <1>3, <1>4, <1>5

\* The transaction that records the delivery fails: one more message is explained.
LEMMA MarkFailsAccounts ==
    ASSUME IInv, IInv', Accounts, NEW w \in Worker,
           MarkSentDbError(w) \/ \E next \in Occurrence : MarkSentConflict(w, next),
           NEW r \in Row
    PROVE  Covered(r)' /\ Counted(r)'
<1>1. /\ job[w].pc = "mark" /\ job' = [job EXCEPT ![w].pc = "fail"]
      /\ allowance' = [allowance EXCEPT ![job[w].row] = @ + 1]
      /\ window' = window /\ row' = row
      BY DEF MarkSentDbError, MarkSentConflict
<1> DEFINE j == [job[w] EXCEPT !.pc = "fail"]
<1>2. job' = [job EXCEPT ![w] = j] /\ j.pc # "send" /\ allowance \in [Row -> Int]
      BY <1>1 DEF IInv, TypeInv, TypeOK, Job
<1> HIDE DEF j
<1>3. allowance'[r] = IF r = job[w].row THEN allowance[r] + 1 ELSE allowance[r]
      BY <1>1, <1>2
<1> QED BY <1>1, <1>2, <1>3, RecordAccounts

LEMMA FailureAccounts ==
    ASSUME IInv, IInv', Accounts, NEW w \in Worker, RecordFailure(w) \/ RecordFailureLost(w),
           NEW r \in Row, row'[r].status \in Closed => row[r].status \in Closed
    PROVE  Covered(r)' /\ Counted(r)'
<1>1. /\ job[w].pc = "fail" /\ job' = [job EXCEPT ![w] = Proceed(w)] /\ Proceed(w).pc # "send"
      /\ allowance' = allowance /\ window' = window /\ row \in [Row -> Reminder]
      BY ProceedType DEF IInv, TypeInv, TypeOK, RecordFailure, RecordFailureLost, history
<1>2. CASE row'[r] = row[r]
      BY <1>1, <1>2, RecordAccounts
<1>3. CASE row'[r] # row[r]
  <2>1. /\ RecordFailure(w) /\ Markable(w) /\ r = job[w].row
        /\ row'[r] = FailedRow(r, job[w].terminal)
        BY <1>1, <1>3 DEF RecordFailure, RecordFailureLost
  <2>2. row[r] \in Reminder /\ ~row[r].sent /\ row[r].lease = w /\ job[w].terminal \in BOOLEAN
        BY <1>1, <2>1, MarkableRow
  <2>3. row'[r].status \in {"failed", row[r].status}
        BY <2>1, <2>2, FailedColumns
  <2>4. ~Held(r)
        BY <1>1, <2>2 DEF Held
  <2>5. Cardinality(Senders(r)') = Cardinality(Senders(r))
        BY <1>1, SendersMove
  <2>6. Sendable(r)' => Sendable(r)
        BY <2>2, <2>3, <2>4 DEF Sendable, Waiting
  <2> QED BY <1>1, <2>5, <2>6, Level
<1> QED BY <1>2, <1>3

LEMMA DeliverAccounts ==
    ASSUME IInv, IInv', Accounts, NEW w \in Worker, Deliver(w),
           \A r \in Row : row'[r].status \in Closed => row[r].status \in Closed
    PROVE  Explained' /\ InFlight'
<1>1. \A r \in Row : Covered(r)' /\ Counted(r)'
  <2> TAKE r \in Row
  <2>1. CASE Claim(w)
        BY <2>1, ClaimAccounts
  <2>2. CASE \E c \in Row : Check(w, c)
        BY <2>2, CheckAccounts
  <2>3. CASE Send(w)
        BY <2>3, SendAccounts
  <2>4. CASE MarkSentStale(w) \/ MarkSentOnce(w)
        BY <2>4, MarkAccounts
  <2>5. CASE \E next \in Occurrence, n \in Row : MarkSentRepeat(w, next, n)
        BY <2>5, MarkSentRepeatAccounts
  <2>6. CASE MarkSentDbError(w) \/ \E next \in Occurrence : MarkSentConflict(w, next)
        BY <2>6, MarkFailsAccounts
  <2>7. CASE RecordFailure(w) \/ RecordFailureLost(w)
        BY <2>7, FailureAccounts
  <2> QED BY <2>1, <2>2, <2>3, <2>4, <2>5, <2>6, <2>7 DEF Deliver, MarkSent
<1> QED BY <1>1 DEF Explained, InFlight

LEMMA ClockAccounts ==
    ASSUME IInv, IInv', Accounts, NEW c \in Row,
           BecomesDue(c) \/ LeaseLapse(c) \/ BackoffOver(c),
           \A r \in Row : row'[r].status \in Closed => row[r].status \in Closed
    PROVE  Explained' /\ InFlight'
<1>0. /\ job' = job /\ window' = window /\ row \in [Row -> Reminder]
      /\ allowance \in [Row -> Int]
      BY DEF IInv, TypeInv, TypeOK, BecomesDue, LeaseLapse, BackoffOver, history
<1>1. \A r \in Row : Senders(r)' = Senders(r)
      BY <1>0 DEF Senders
<1>2. ASSUME NEW r \in Row
      PROVE  \/ allowance'[r] = allowance[r] /\ (Sendable(r)' => Sendable(r))
             \/ allowance'[r] = allowance[r] + 1
  <2>1. CASE row'[r] = row[r]
    <3>1. Sendable(r)' = Sendable(r)
          BY <1>0, <2>1 DEF Sendable, Held
    <3>2. allowance'[r] = allowance[r] \/ allowance'[r] = allowance[r] + 1
          BY <1>0 DEF BecomesDue, LeaseLapse, BackoffOver, history
    <3> QED BY <3>1, <3>2
  <2>2. CASE row'[r] # row[r] /\ ~LeaseLapse(c)
    <3>1. row'[r] \in {[row[r] EXCEPT !.due = TRUE], [row[r] EXCEPT !.backoff = "over"]}
          BY <1>0, <2>2 DEF BecomesDue, BackoffOver
    <3>2. /\ row'[r].status = row[r].status /\ row'[r].sent = row[r].sent
          /\ row'[r].lease = row[r].lease /\ row'[r].live = row[r].live
          BY <1>0, <3>1 DEF Reminder
    <3>3. Sendable(r)' = Sendable(r)
          BY <1>0, <3>2 DEF Sendable, Held
    <3>4. allowance' = allowance
          BY <2>2 DEF BecomesDue, BackoffOver, history
    <3> QED BY <3>3, <3>4
  <2>3. CASE row'[r] # row[r] /\ LeaseLapse(c)
    <3>1. r = c
          BY <1>0, <2>3 DEF LeaseLapse
    <3>2. CASE Working(r, {"send", "mark"})
          BY <1>0, <2>3, <3>1, <3>2 DEF LeaseLapse
    <3>3. CASE ~Working(r, {"send", "mark"})
      <4>1. ~Held(r)
            BY <3>3 DEF Held, Working
      <4>2. row'[r].status = row[r].status /\ row'[r].sent = row[r].sent
            BY <1>0, <2>3, <3>1 DEF LeaseLapse, Reminder
      <4>3. allowance' = allowance
            BY <2>3, <3>1, <3>3 DEF LeaseLapse
      <4> QED BY <4>1, <4>2, <4>3 DEF Sendable
    <3> QED BY <3>2, <3>3
  <2> QED BY <2>1, <2>2, <2>3
<1>3. \A r \in Row : Covered(r)' /\ Counted(r)'
      BY <1>0, <1>1, <1>2, Level
<1> QED BY <1>3 DEF Explained, InFlight

\* The sends under way die with the process, and their rows become sendable.
LEMMA CrashAccounts ==
    ASSUME IInv, IInv', Accounts, Crash
    PROVE  Explained' /\ InFlight'
<1>0. /\ row' = row /\ window' = window /\ allowance \in [Row -> Int]
      /\ window \in [Row -> Int] /\ \A w \in Worker : job'[w].pc = "idle"
      BY DEF IInv, TypeInv, TypeOK, Crash, IdleJob
<1> SUFFICES ASSUME NEW r \in Row PROVE Covered(r)' /\ Counted(r)'
    BY DEF Explained, InFlight
<1>1. Senders(r)' = {} /\ Cardinality(Senders(r)') = 0
      BY <1>0, FS_EmptySet DEF Senders
<1>2. Cardinality(Senders(r)) \in Nat /\ IsFiniteSet(Senders(r))
      BY SendersFinite
<1>3. allowance[r] >= Cardinality(Senders(r)) + (IF Sendable(r) THEN 1 ELSE 0)
      BY DEF Accounts, Explained, Covered, Cost
<1>4. allowance'[r] = IF \E w \in Worker : job[w].row = r /\ job[w].pc = "mark"
                      THEN allowance[r] + 1 ELSE allowance[r]
      BY DEF Crash
<1>5. Covered(r)'
  <2>1. CASE ~Sendable(r)'
        BY <1>0, <1>1, <1>2, <1>3, <1>4, <2>1 DEF Covered, Cost
  <2>2. CASE Sendable(r)'
    <3>1. allowance'[r] >= 1
      <4>1. CASE Sendable(r)
            BY <1>0, <1>2, <1>3, <1>4, <4>1
      <4>2. CASE ~Sendable(r)
        <5>1. Held(r)
              BY <1>0, <2>2, <4>2 DEF Sendable
        <5>2. CASE \E w \in Worker : job[w].row = r /\ job[w].pc = "mark"
              BY <1>0, <1>2, <1>3, <1>4, <5>2
        <5>3. CASE ~\E w \in Worker : job[w].row = r /\ job[w].pc = "mark"
          <6>1. Senders(r) # {}
                BY <5>1, <5>3 DEF Held, Senders
          <6>2. Cardinality(Senders(r)) # 0
                BY <1>2, <6>1, FS_EmptySet
          <6> QED BY <1>0, <1>2, <1>3, <1>4, <6>2
        <5> QED BY <5>2, <5>3
      <4> QED BY <4>1, <4>2
    <3> QED BY <1>1, <2>2, <3>1 DEF Covered, Cost
  <2> QED BY <2>1, <2>2
<1>6. Counted(r)'
  <2>1. Counted(r)
        BY DEF Accounts, InFlight
  <2> QED BY <1>0, <1>1, <2>1 DEF Counted
<1> QED BY <1>5, <1>6

LEMMA StepAccounts == IInv /\ IInv' /\ Accounts /\ [Next]_vars => Accounts'
<1> SUFFICES ASSUME IInv, IInv', Accounts, [Next]_vars PROVE Accounts'
    OBVIOUS
<1>1. CASE UNCHANGED vars
  <2>1. UserStep
    <3>1. SnapOK'
          BY <1>1 DEF vars, Accounts, SnapOK
    <3> QED BY <1>1, <3>1, RowsUntouched DEF vars, Accounts
  <2> QED BY <2>1, UserAccounts
<1>2. CASE Create
      BY <1>2, CreateUser, UserAccounts
<1>3. ASSUME NEW w \in Worker, Deliver(w) PROVE Accounts'
  <2>1. tap' = tap
        BY <1>3 DEF Deliver, Claim, Check, Send, SendOk, SendAmbiguous, SendRefused, MarkSent,
                    MarkSentStale, MarkSentOnce, MarkSentRepeat, MarkSentConflict,
                    MarkSentDbError, RecordFailure, RecordFailureLost
  <2>2. Calm
        BY <1>3, DeliverCalm
  <2> QED BY <1>3, <2>1, <2>2, CalmRows, DeliverAccounts DEF Accounts
<1>4. ASSUME NEW r \in Row, BecomesDue(r) \/ LeaseLapse(r) \/ BackoffOver(r) PROVE Accounts'
  <2>1. tap' = tap
        BY <1>4 DEF BecomesDue, LeaseLapse, BackoffOver
  <2>2. Calm
        BY <1>4, ClockCalm
  <2> QED BY <1>4, <2>1, <2>2, CalmRows, ClockAccounts DEF Accounts
<1>5. CASE Buttons
      BY <1>5, ReadUser, RetryUser, SnoozeUser, DoneUser, DoneTaskUser, UserAccounts
      DEF Buttons, FinishTap
<1>6. CASE TaskOperations
      BY <1>6, TaskUser, UserAccounts DEF TaskOperations
<1>7. CASE Crash
  <2>1. Calm /\ tap'.pc = "idle"
        BY <1>7, SameCalm DEF Crash, IdleTap
  <2> QED BY <1>7, <2>1, CalmRows, CrashAccounts DEF Accounts
<1> QED BY <1>1, <1>2, <1>3, <1>4, <1>5, <1>6, <1>7 DEF Next, Clock

LEMMA InitAccounts == Init => Accounts
<1> SUFFICES ASSUME Init PROVE Accounts
    OBVIOUS
<1>1. \A r \in Row : row[r].status = "absent" /\ allowance[r] = 0 /\ window[r] = 0
      BY DEF Init, AbsentReminder, NewReminder
<1>2. \A r \in Row : Senders(r) = {} /\ Cardinality(Senders(r)) = 0
      BY FS_EmptySet DEF Init, Senders, IdleJob
<1>3. \A r \in Row : ~Sendable(r) /\ row[r].status \notin Closed
      BY <1>1 DEF Sendable, Waiting, Closed
<1>4. Explained
      BY <1>1, <1>2, <1>3 DEF Explained, Covered, Cost
<1>5. InFlight
      BY <1>1, <1>3 DEF InFlight, Counted
<1>6. ClosedSent /\ SnapOK
      BY <1>3 DEF Init, ClosedSent, SnapOK, IdleTap
<1> QED BY <1>4, <1>5, <1>6 DEF Accounts

\* The books are kept in every reachable state: who may still send, what explains it.
THEOREM AccountsKept == Spec => []Accounts
BY Invariance, InitAccounts, StepAccounts, PTL DEF Spec

\* Every message beyond the first is explained by a crash, a lost answer, a database
\* error, a lapsed lease or a new activation, for any number of loops and alarms.
THEOREM NoIdleRepeat == Spec => []RepeatsAreExplained
<1>1. IInv /\ Accounts => RepeatsAreExplained
  <2> SUFFICES ASSUME IInv, Accounts, NEW r \in Row PROVE allowance[r] >= 0
      BY DEF RepeatsAreExplained
  <2>1. allowance[r] >= Cardinality(Senders(r)) + (IF Sendable(r) THEN 1 ELSE 0)
        BY DEF Accounts, Explained, Covered, Cost
  <2>2. allowance[r] \in Int /\ Cardinality(Senders(r)) \in Nat
        BY SendersFinite DEF IInv, TypeInv, TypeOK
  <2> QED BY <2>1, <2>2
<1> QED BY <1>1, Invariance, AccountsKept, PTL

\* After an alarm is closed, only the sends that were past their last check arrive.
THEOREM OnlyTheWindow == Spec => []OnlyInFlightArrivesLate
<1>1. Accounts => OnlyInFlightArrivesLate
      BY DEF Accounts, InFlight, Counted, OnlyInFlightArrivesLate
<1> QED BY <1>1, AccountsKept, PTL

\* A loop that records an outcome changes no row leased to another loop and no row
\* that was closed meanwhile.
RespectsOwner(w) ==
    job[w].pc \in {"mark", "fail"} /\ job'[w] # job[w]
    => \A r \in Row : Exists(r) /\ (row[r].lease # w \/ row[r].status \in Closed)
                      => row'[r] = row[r]

LEMMA OwnMove ==
    ASSUME IInv, [Next]_vars, NEW w \in Worker, job'[w] # job[w]
    PROVE  Deliver(w) \/ row' = row
<1>0. job \in [Worker -> Job]
      BY DEF IInv, TypeInv, TypeOK
<1>1. CASE UNCHANGED vars \/ Create \/ Clock \/ Buttons \/ TaskOperations
  <2>1. job' = job
        BY <1>1 DEF vars, Create, CreateReminder, CreateTask, Clock, BecomesDue, LeaseLapse,
                    BackoffOver, Buttons, SnoozeRead, DoneRead, Retry, FinishTap, SnoozeWrite,
                    DoneWrite, DoneTask, TaskOperations, CompleteTask, CancelTask, ReopenTask,
                    ClearDeadline, MoveDeadline
  <2> QED BY <2>1
<1>2. CASE Crash
      BY <1>2 DEF Crash
<1>3. ASSUME NEW v \in Worker, Deliver(v), v # w PROVE FALSE
  <2>1. \E j : job' = [job EXCEPT ![v] = j]
        BY <1>3 DEF Deliver, Claim, Check, Send, SendOk, SendAmbiguous, SendRefused, MarkSent,
                    MarkSentStale, MarkSentOnce, MarkSentRepeat, MarkSentConflict,
                    MarkSentDbError, RecordFailure, RecordFailureLost
  <2> QED BY <1>0, <1>3, <2>1
<1> QED BY <1>1, <1>2, <1>3 DEF Next

LEMMA OwnerRespected ==
    ASSUME IInv, Accounts, [Next]_vars, NEW w \in Worker
    PROVE  RespectsOwner(w)
<1> SUFFICES ASSUME job[w].pc \in {"mark", "fail"}, job'[w] # job[w],
                    NEW r \in Row, Exists(r), row[r].lease # w \/ row[r].status \in Closed
             PROVE  row'[r] = row[r]
    BY DEF RespectsOwner
<1>0. row \in [Row -> Reminder]
      BY DEF IInv, TypeInv, TypeOK
<1>1. Markable(w) => r # job[w].row
      BY DEF Markable, Accounts, ClosedSent
<1>2. CASE row' = row
      BY <1>2
<1>3. CASE Deliver(w) /\ row' # row
  <2>1. \/ MarkSentOnce(w) \/ RecordFailure(w)
        \/ \E next \in Occurrence, n \in Row : MarkSentRepeat(w, next, n)
        BY <1>3 DEF Deliver, Claim, Check, Send, SendOk, SendAmbiguous, SendRefused, MarkSent,
                    MarkSentStale, MarkSentConflict, MarkSentDbError, RecordFailureLost
  <2>2. CASE MarkSentOnce(w)
        BY <1>0, <1>1, <2>2 DEF MarkSentOnce
  <2>3. CASE RecordFailure(w)
        BY <1>0, <1>1, <2>3 DEF RecordFailure
  <2>4. ASSUME NEW next \in Occurrence, NEW n \in Row, MarkSentRepeat(w, next, n)
        PROVE  row'[r] = row[r]
        BY <1>0, <1>1, <2>4 DEF MarkSentRepeat
  <2> QED BY <2>1, <2>2, <2>3, <2>4
<1> QED BY <1>2, <1>3, OwnMove

\* The outcome of an old send overwrites neither a new owner nor a resolution.
THEOREM OldSenderYields == Spec => SenderRespectsOwner
<1>1. IInv /\ Accounts /\ [Next]_vars =>
        [\A w \in Worker, r \in Row :
            /\ job[w].pc \in {"mark", "fail"} /\ job'[w] # job[w]
            /\ Exists(r) /\ (row[r].lease # w \/ row[r].status \in Closed)
            => row'[r] = row[r]]_vars
      BY OwnerRespected DEF RespectsOwner
<1> QED BY <1>1, Invariance, AccountsKept, PTL DEF Spec, SenderRespectsOwner

-----------------------------------------------------------------------------
(* When buttons wait for the record of the delivery *)

\* A sent alarm is delivered or closed, and nobody leases it.
SentSettled == \A r \in Row : row[r].sent => /\ row[r].status \in {"delivered"} \cup Closed
                                             /\ row[r].lease = NoWorker

\* A callback works on a row that it read as sent.
SnapAcked == tap.pc # "idle" => tap.snap.sent

\* A promised alarm waits for its time, unclaimed, or is closed.
PromiseWaits(r) == \/ row[r].status \in Closed
                   \/ /\ row[r].status \in Waiting \cup {"failed"} /\ ~row[r].sent
                      /\ ~row[r].due /\ row[r].lease = NoWorker

PromiseOK == \A r \in promised : PromiseWaits(r)

Acked == SentSettled /\ SnapAcked /\ PromiseOK /\ SeriesContinues

\* The occurrences that carry a series on still do.
LiveKept == \A r \in Row : LiveBranch(r) => LiveBranch(r)'

\* A new occurrence is still to be delivered.
NewUnsent == \A r \in Row : ~Exists(r) /\ Exists(r)' => ~row'[r].sent

LEMMA SeriesOn ==
    ASSUME IInv, Rows, SeriesContinues, LiveKept, NewUnsent
    PROVE  SeriesContinues'
<1> SUFFICES ASSUME NEW r \in Row, Exists(r)', row'[r].rule \/ row'[r].series # r
             PROVE  \E n \in Row : LiveBranch(n)' /\ row'[n].series = row'[r].series
    BY DEF SeriesContinues
<1>1. CASE Exists(r)
  <2>1. row'[r].series = row[r].series /\ (row[r].rule \/ row[r].series # r)
        BY <1>1 DEF Rows, Kept
  <2>2. PICK n \in Row : LiveBranch(n) /\ row[n].series = row[r].series
        BY <1>1, <2>1 DEF SeriesContinues
  <2>3. LiveBranch(n)' /\ row'[n].series = row[n].series
        BY <2>2 DEF LiveKept, LiveBranch, Rows, Kept
  <2> QED BY <2>1, <2>2, <2>3
<1>2. CASE ~Exists(r)
  <2>1. row'[r].series = r /\ ~row'[r].sent
        BY <1>2 DEF Rows, Inserted, Exists, NewUnsent
  <2>2. LiveBranch(r)'
        BY <2>1 DEF LiveBranch
  <2> QED BY <2>2
<1> QED BY <1>1, <1>2

\* What the loops and the clock leave of it.
LEMMA CalmAcked ==
    ASSUME IInv, Accounts, SentSettled, PromiseOK, Calm
    PROVE  SentSettled' /\ PromiseOK' /\ NewUnsent
<1>1. SentSettled'
  <2> SUFFICES ASSUME NEW r \in Row, row'[r].sent
               PROVE  /\ row'[r].status \in {"delivered"} \cup Closed
                      /\ row'[r].lease = NoWorker
      BY DEF SentSettled
  <2>1. Same(r) \/ (row'[r].status = "delivered" /\ row'[r].lease = NoWorker)
        BY DEF Calm, Undisturbed
  <2> QED BY <2>1 DEF SentSettled, Same
<1>2. PromiseOK'
  <2> SUFFICES ASSUME NEW r \in promised' PROVE PromiseWaits(r)'
      BY DEF PromiseOK
  <2>1. r \in Row /\ PromiseWaits(r)
        BY DEF Calm, PromiseOK, IInv, TypeInv, TypeOK
  <2>2. Exists(r)
        BY <2>1 DEF PromiseWaits, Exists, Waiting, Closed
  <2>3. row[r].sent \/ (row[r].lease = NoWorker /\ ~row[r].due)
        BY <2>1 DEF PromiseWaits, Accounts, ClosedSent
  <2>4. Same(r)
        BY <2>1, <2>2, <2>3 DEF Calm, Undisturbed
  <2> QED BY <2>1, <2>4 DEF PromiseWaits, Same
<1>3. NewUnsent
      BY DEF NewUnsent, Calm, Same, Exists
<1> QED BY <1>1, <1>2, <1>3

\* Only a delivery ends a live branch, and mark_sent of an alarm with a rule continues it.
LEMMA CalmLive ==
    ASSUME IInv, Calm, Stay,
           \A r \in Row : LiveBranch(r) => ~row'[r].sent
    PROVE  LiveKept
<1> SUFFICES ASSUME NEW r \in Row, LiveBranch(r) PROVE LiveBranch(r)'
    BY DEF LiveKept
<1>1. Exists(r) /\ row[r].rule /\ ~row'[r].sent
      BY DEF LiveBranch
<1>2. row'[r].rule
      BY <1>1 DEF Calm, Undisturbed, Same
<1> QED BY <1>1, <1>2 DEF LiveBranch, Stay, Exists

LEMMA DeliverLive ==
    ASSUME IInv, NEW w \in Worker, Deliver(w),
           \A next \in Occurrence, n \in Row : ~MarkSentRepeat(w, next, n),
           NEW r \in Row, LiveBranch(r)
    PROVE  ~row'[r].sent
<1>0. row \in [Row -> Reminder] /\ ~row[r].sent /\ row[r].rule
      BY DEF IInv, TypeInv, TypeOK, LiveBranch
<1>1. CASE row'[r] = row[r]
      BY <1>0, <1>1
<1>2. CASE Claim(w)
  <2>1. row'[r] \in {row[r], [row[r] EXCEPT !.lease = w, !.live = TRUE]}
        BY <1>2 DEF Claim
  <2> QED BY <1>0, <2>1 DEF Reminder
<1>3. CASE MarkSentOnce(w)
  <2>1. row'[r] = row[r]
        BY <1>0, <1>3 DEF MarkSentOnce
  <2> QED BY <1>0, <2>1
<1>4. CASE RecordFailure(w) /\ row'[r] # row[r]
  <2>1. Markable(w) /\ r = job[w].row /\ row'[r] = FailedRow(r, job[w].terminal)
        BY <1>0, <1>4 DEF RecordFailure
  <2>2. job[w].terminal \in BOOLEAN
        BY <1>4, <2>1, MarkableRow DEF RecordFailure
  <2> QED BY <1>0, <2>1, <2>2, FailedColumns
<1> QED BY <1>1, <1>2, <1>3, <1>4
        DEF Deliver, Check, Send, SendOk, SendAmbiguous, SendRefused, MarkSent, MarkSentStale,
            MarkSentConflict, MarkSentDbError, RecordFailureLost

LEMMA ClockLive ==
    ASSUME IInv, NEW c \in Row, BecomesDue(c) \/ LeaseLapse(c) \/ BackoffOver(c),
           NEW r \in Row, LiveBranch(r)
    PROVE  ~row'[r].sent
<1>0. row \in [Row -> Reminder] /\ ~row[r].sent
      BY DEF IInv, TypeInv, TypeOK, LiveBranch
<1>1. row'[r] \in {row[r], [row[r] EXCEPT !.due = TRUE], [row[r] EXCEPT !.live = FALSE],
                   [row[r] EXCEPT !.backoff = "over"]}
      BY <1>0 DEF BecomesDue, LeaseLapse, BackoffOver
<1> QED BY <1>0, <1>1 DEF Reminder

\* The delivery of a recurring alarm hands its series over to the next occurrence.
LEMMA RepeatContinues ==
    ASSUME IInv, SeriesContinues, NEW w \in Worker, NEW next \in Occurrence, NEW n \in Row,
           MarkSentRepeat(w, next, n)
    PROVE  SeriesContinues'
<1> DEFINE r0 == job[w].row
           new == NewReminder(row[r0].series, next, TRUE, row[r0].task)
           sent == DeliveredRow(r0)
<1>0. /\ row \in [Row -> Reminder] /\ r0 \in Row /\ row[r0] \in Reminder
      /\ Exists(r0) /\ row[r0].rule /\ ~Exists(n)
      /\ row' = [row EXCEPT ![r0] = sent, ![n] = new]
      BY DEF IInv, TypeInv, TypeOK, JobOK, MarkSentRepeat
<1>1. /\ new.status = "pending" /\ new.rule /\ ~new.sent /\ new.series = row[r0].series
      BY DEF NewReminder
<1>2. sent.series = row[r0].series
      BY <1>0, DeliveredType
<1> HIDE DEF r0, new, sent
<1>3. \A s \in Row : row'[s] = IF s = n THEN new ELSE IF s = r0 THEN sent ELSE row[s]
      BY <1>0
<1>4. LiveBranch(n)' /\ row'[n].series = row[r0].series
      BY <1>1, <1>3 DEF LiveBranch, Exists
<1> SUFFICES ASSUME NEW r \in Row, Exists(r)', row'[r].rule \/ row'[r].series # r
             PROVE  \E m \in Row : LiveBranch(m)' /\ row'[m].series = row'[r].series
    BY DEF SeriesContinues
<1>5. CASE row'[r].series = row[r0].series
      BY <1>4, <1>5
<1>6. CASE row'[r].series # row[r0].series
  <2>1. r # n /\ r # r0
        BY <1>1, <1>2, <1>3, <1>6
  <2>2. row'[r] = row[r] /\ Exists(r)
        BY <1>3, <2>1 DEF Exists
  <2>3. PICK m \in Row : LiveBranch(m) /\ row[m].series = row[r].series
        BY <2>2 DEF SeriesContinues
  <2>4. m # r0 /\ m # n
        BY <1>0, <1>6, <2>2, <2>3 DEF LiveBranch
  <2>5. row'[m] = row[m]
        BY <1>3, <2>4
  <2> QED BY <2>2, <2>3, <2>5 DEF LiveBranch, Exists
<1> QED BY <1>5, <1>6

\* What a user's operation does to one row.
Handled(r) ==
    \/ row'[r] = row[r] /\ (r \in promised' => r \in promised)
    \/ /\ Exists(r) /\ ~LiveBranch(r)
       /\ row'[r].status \in Closed /\ row'[r].sent /\ row'[r].lease = NoWorker
    \/ /\ row'[r].status \in Waiting /\ ~row'[r].sent
       /\ LiveBranch(r) => row'[r].rule
       /\ r \in promised' => ~row'[r].due /\ row'[r].lease = NoWorker

LEMMA HandledAcked ==
    ASSUME IInv, SentSettled, PromiseOK, promised' \subseteq Row, \A r \in Row : Handled(r)
    PROVE  SentSettled' /\ PromiseOK' /\ LiveKept /\ NewUnsent
<1>1. SentSettled'
      BY DEF Handled, SentSettled
<1>2. PromiseOK'
  <2> SUFFICES ASSUME NEW r \in promised' PROVE PromiseWaits(r)'
      BY DEF PromiseOK
  <2>1. r \in Row /\ Handled(r)
        OBVIOUS
  <2> QED BY <2>1 DEF Handled, PromiseOK, PromiseWaits
<1>3. LiveKept
      BY DEF Handled, LiveKept, LiveBranch, Exists, Waiting
<1>4. NewUnsent
      BY DEF Handled, NewUnsent, Exists
<1> QED BY <1>1, <1>2, <1>3, <1>4

\* One row changes as a user's operation may change it.
LEMMA OneHandled ==
    ASSUME IInv, NEW r \in Row, NEW new, row' = [row EXCEPT ![r] = new],
           promised' \subseteq promised \cup {r}, Handled(r)
    PROVE  \A s \in Row : Handled(s)
<1>1. \A s \in Row \ {r} : row'[s] = row[s]
      BY DEF IInv, TypeInv, TypeOK
<1> QED BY <1>1 DEF Handled

LEMMA NoneHandled ==
    ASSUME row' = row, promised' \subseteq promised
    PROVE  \A s \in Row : Handled(s)
BY DEF Handled

\* A promised row exists.
LEMMA PromisedExists == ASSUME PromiseOK, NEW r \in promised PROVE Exists(r)
BY DEF PromiseOK, PromiseWaits, Exists, Waiting, Closed

LEMMA InsertHandled ==
    ASSUME IInv, PromiseOK, NEW r \in Row, ~Exists(r),
           NEW occ, NEW rule, NEW t, row'[r] = NewReminder(r, occ, rule, t)
    PROVE  Handled(r)
<1>1. /\ row'[r].status = "pending" /\ ~row'[r].sent /\ ~row'[r].due
      /\ row'[r].lease = NoWorker
      BY DEF NewReminder
<1> QED BY <1>1 DEF Handled, LiveBranch, Waiting

LEMMA CreateHandled == ASSUME IInv, PromiseOK, Create PROVE \A r \in Row : Handled(r)
<1>1. /\ promised' = promised /\ row \in [Row -> Reminder]
      /\ \E r \in Row, rule \in BOOLEAN, t \in Task \cup {NoTask} :
           ~Exists(r) /\ row' = [row EXCEPT ![r] = NewReminder(r, 0, rule, t)]
      BY RemindersAssumption DEF Create, CreateReminder, CreateTask, IInv, TypeInv, TypeOK
<1>2. ASSUME NEW r \in Row, NEW rule \in BOOLEAN, NEW t \in Task \cup {NoTask},
             ~Exists(r), row' = [row EXCEPT ![r] = NewReminder(r, 0, rule, t)]
      PROVE  \A s \in Row : Handled(s)
  <2>1. row'[r] = NewReminder(r, 0, rule, t)
        BY <1>1, <1>2
  <2>2. Handled(r)
        BY <1>2, <2>1, InsertHandled
  <2> QED BY <1>1, <1>2, <2>2, OneHandled
<1> QED BY <1>1, <1>2

LEMMA RetryHandled ==
    ASSUME IInv, PromiseOK, NEW r \in Row, Retry(r)
    PROVE  \A s \in Row : Handled(s)
<1> DEFINE new == [row[r] EXCEPT !.status = "pending", !.sent = FALSE, !.attempts = 0,
                                 !.backoff = "over", !.lease = NoWorker, !.live = FALSE]
<1>1. /\ row[r] \in Reminder /\ row'[r] = new /\ row' = [row EXCEPT ![r] = new]
      /\ promised' = promised /\ row[r].status = "failed"
      BY DEF IInv, TypeInv, TypeOK, Retry
<1>2. /\ new.status = "pending" /\ ~new.sent /\ new.rule = row[r].rule
      /\ new.due = row[r].due /\ new.lease = NoWorker
      BY <1>1 DEF Reminder
<1> HIDE DEF new
<1>3. r \in promised => ~row[r].due
      BY <1>1 DEF PromiseOK, PromiseWaits, Closed
<1>4. Handled(r)
      BY <1>1, <1>2, <1>3 DEF Handled, LiveBranch, Waiting
<1> QED BY <1>1, <1>4, OneHandled

LEMMA MoveHandled ==
    ASSUME IInv, PromiseOK, NEW t \in Task, NEW r \in Row, NEW occ \in Occurrence,
           MoveDeadline(t, r, occ)
    PROVE  \A s \in Row : Handled(s)
<1>1. /\ row \in [Row -> Reminder] /\ row[r] \in Reminder /\ promised' = promised \ {r}
      /\ row' = [row EXCEPT ![r] = IF Exists(r) THEN MovedRow(row[r], occ)
                                   ELSE NewReminder(r, occ, FALSE, t)]
      /\ Exists(r) => r \in AlarmsOf(t)
      BY DEF IInv, TypeInv, TypeOK, MoveDeadline, Movable
<1>2. CASE Exists(r)
  <2>1. row'[r] = MovedRow(row[r], occ)
        BY <1>1, <1>2
  <2>2. MovedRow(row[r], occ).status = "pending" /\ ~MovedRow(row[r], occ).sent
        BY <1>1 DEF MovedRow, Reminder
  <2>3. ~row[r].rule
        BY <1>1, <1>2, RemindersAssumption DEF AlarmsOf, IInv, TaskAlarmOK
  <2>4. Handled(r)
        BY <1>1, <2>1, <2>2, <2>3 DEF Handled, LiveBranch, Waiting
  <2> QED BY <1>1, <2>4, OneHandled
<1>3. CASE ~Exists(r)
  <2>1. row'[r] = NewReminder(r, occ, FALSE, t)
        BY <1>1, <1>3
  <2>2. Handled(r)
        BY <1>3, <2>1, InsertHandled
  <2> QED BY <1>1, <2>2, OneHandled
<1> QED BY <1>2, <1>3

\* What a callback read is what the table still holds.
LEMMA ReadStands ==
    ASSUME IInv, Accounts, SentSettled, SnapAcked, tap.pc # "idle"
    PROVE  /\ tap.row \in Row /\ row[tap.row] \in Reminder /\ tap.snap \in Reminder
           /\ tap.snap.sent /\ row[tap.row].sent
           /\ tap.snap.status \in {"delivered"} \cup Closed
           /\ row[tap.row].status = tap.snap.status
           /\ tap.snap.lease = NoWorker /\ row[tap.row].lease = NoWorker
           /\ ~LiveBranch(tap.row)
BY DEF IInv, TypeInv, TypeOK, TapOK, Accounts, SnapOK, SentSettled, SnapAcked, LiveBranch

LEMMA SnoozeHandled ==
    ASSUME IInv, Accounts, SentSettled, SnapAcked, SnoozeWrite
    PROVE  \A s \in Row : Handled(s)
<1> DEFINE r == tap.row
           old == tap.snap
           assigned == SnoozedRow(old, tap.target)
           flushed == Flush(row[r], old, assigned)
           new == [flushed EXCEPT !.due = FALSE]
<1>0. tap.pc # "idle"
      BY DEF SnoozeWrite
<1>1. /\ row' = [row EXCEPT ![r] = new] \/ (row' = row /\ promised' = promised)
      /\ promised' \subseteq promised \cup {r} /\ row \in [Row -> Reminder]
      BY DEF SnoozeWrite, IInv, TypeInv, TypeOK
<1>2. assigned.status = "snoozed" /\ ~assigned.sent /\ assigned.lease = NoWorker
      BY <1>0, ReadStands DEF SnoozedRow, Reminder
<1> HIDE DEF assigned
<1>3. flushed.status = "snoozed" /\ ~flushed.sent /\ flushed.lease = NoWorker
      BY <1>0, <1>2, ReadStands DEF Flush, Closed
<1>4. new.status = "snoozed" /\ ~new.sent /\ new.lease = NoWorker /\ ~new.due
      BY <1>3 DEF Flush
<1> HIDE DEF flushed, new, r
<1>5. r \in Row /\ ~LiveBranch(r)
      BY <1>0, ReadStands DEF r
<1>6. CASE row' = [row EXCEPT ![r] = new]
  <2>1. row'[r] = new
        BY <1>1, <1>5, <1>6
  <2>2. Handled(r)
        BY <1>4, <1>5, <2>1 DEF Handled, Waiting
  <2> QED BY <1>1, <1>5, <1>6, <2>2, OneHandled
<1>7. CASE row' = row /\ promised' = promised
      BY <1>7, NoneHandled
<1> QED BY <1>1, <1>6, <1>7

LEMMA DoneHandled ==
    ASSUME IInv, Accounts, SentSettled, SnapAcked, DoneWrite
    PROVE  \A s \in Row : Handled(s)
<1> DEFINE r == tap.row
           old == tap.snap
           new == Flush(row[r], old, ResolvedRow(old))
<1>0. tap.pc # "idle"
      BY DEF DoneWrite
<1>1. /\ row' = row \/ (old.status # "resolved" /\ row' = [row EXCEPT ![r] = new])
      /\ promised' \subseteq promised /\ row \in [Row -> Reminder]
      BY DEF DoneWrite, IInv, TypeInv, TypeOK
<1>2. /\ ResolvedRow(old).status = "resolved" /\ ResolvedRow(old).sent = TRUE
      /\ ResolvedRow(old).lease = old.lease
      BY <1>0, ReadStands DEF ResolvedRow, Reminder
<1>3. old.status # "resolved" => new.status = "resolved" /\ new.sent /\ new.lease = NoWorker
      BY <1>0, <1>2, ReadStands DEF Flush
<1>4. /\ r \in Row /\ Exists(r) /\ ~LiveBranch(r)
      BY <1>0, ReadStands DEF IInv, TypeInv, TapOK
<1> HIDE DEF new, r
<1>5. CASE old.status # "resolved" /\ row' = [row EXCEPT ![r] = new]
  <2>1. row'[r] = new
        BY <1>1, <1>4, <1>5
  <2>2. Handled(r)
        BY <1>3, <1>4, <1>5, <2>1 DEF Handled, Closed
  <2> QED BY <1>1, <1>4, <1>5, <2>2, OneHandled
<1>6. CASE row' = row
      BY <1>1, <1>6, NoneHandled
<1> QED BY <1>1, <1>5, <1>6

\* The alarms of a task carry no series on, so closing them ends none.
LEMMA ClosedHandled ==
    ASSUME IInv, NEW t \in Task, NEW status \in Closed, NEW read, Current(t, read),
           \A r \in AlarmsOf(t) : read[r].lease = row[r].lease,
           promised' \subseteq promised,
           NEW r \in Row, row'[r] = CloseAlarms(t, status, read)[r]
    PROVE  Handled(r)
<1>1. CASE r \in AlarmsOf(t)
  <2>1. row'[r].status \in Closed /\ row'[r].sent /\ row'[r].lease = NoWorker
        BY <1>1, ClosedColumns
  <2>2. Exists(r)
        BY <1>1 DEF AlarmsOf, Exists, Unclosed, Waiting
  <2>3. ~LiveBranch(r)
        BY <1>1, <2>2, RemindersAssumption DEF AlarmsOf, IInv, TaskAlarmOK, LiveBranch
  <2> QED BY <2>1, <2>2, <2>3 DEF Handled
<1>2. CASE r \notin AlarmsOf(t)
      BY <1>2, ClosedColumns DEF Handled
<1> QED BY <1>1, <1>2

LEMMA CompleteHandled ==
    ASSUME IInv, PromiseOK, NEW t \in Task, NEW read, Current(t, read), Complete(t, read),
           \A r \in AlarmsOf(t) : read[r].lease = row[r].lease
    PROVE  \A r \in Row : Handled(r)
<1>0. "resolved" \in Closed /\ promised' \subseteq promised
      BY DEF Closed, Complete, CompleteOnce, CompleteRepeat
<1>1. CASE row' = CloseAlarms(t, "resolved", read)
      BY <1>0, <1>1, ClosedHandled
<1>2. ASSUME NEW next \in Task, NEW n \in Row, ~Exists(n),
             row' = [CloseAlarms(t, "resolved", read) EXCEPT ![n] = NewReminder(n, 0, FALSE, next)]
      PROVE  \A r \in Row : Handled(r)
  <2> DEFINE closed == CloseAlarms(t, "resolved", read)
  <2>1. closed = [r \in Row |-> closed[r]]
        BY DEF CloseAlarms
  <2> HIDE DEF closed
  <2>2. row' = [closed EXCEPT ![n] = NewReminder(n, 0, FALSE, next)]
        BY <1>2 DEF closed
  <2>3. \A r \in Row : row'[r] = IF r = n THEN NewReminder(n, 0, FALSE, next) ELSE closed[r]
        BY <2>1, <2>2
  <2>4. Handled(n)
    <3>1. row'[n] = NewReminder(n, 0, FALSE, next)
          BY <2>3
    <3> QED BY <1>2, <3>1, InsertHandled
  <2>5. ASSUME NEW r \in Row, r # n PROVE Handled(r)
    <3>1. row'[r] = CloseAlarms(t, "resolved", read)[r]
          BY <2>3, <2>5 DEF closed
    <3> QED BY <1>0, <3>1, ClosedHandled
  <2> QED BY <2>4, <2>5
<1> QED BY <1>1, <1>2 DEF Complete, CompleteOnce, CompleteRepeat

LEMMA DoneTaskHandled ==
    ASSUME IInv, Accounts, SentSettled, SnapAcked, PromiseOK, DoneTask
    PROVE  \A r \in Row : Handled(r)
<1> DEFINE t == tap.snap.task
           read == [row EXCEPT ![tap.row] = tap.snap]
<1>1. /\ t \in Task /\ tap.pc = "done"
      /\ Complete(t, read) \/ (row' = row /\ promised' = promised)
      BY DEF IInv, TypeInv, TapOK, DoneTask, Reminder
<1>2. Current(t, read)
      BY <1>1, SnapCurrent
<1>3. \A r \in AlarmsOf(t) : read[r].lease = row[r].lease
  <2>1. row \in [Row -> Reminder] /\ tap.snap.lease = row[tap.row].lease
        BY <1>1, ReadStands DEF IInv, TypeInv, TypeOK
  <2> QED BY <2>1 DEF AlarmsOf
<1>4. CASE Complete(t, read)
  <2> HIDE DEF t, read
  <2> QED BY <1>1, <1>2, <1>3, <1>4, CompleteHandled
<1>5. CASE row' = row /\ promised' = promised
      BY <1>5, NoneHandled
<1> QED BY <1>1, <1>4, <1>5

LEMMA TaskHandled ==
    ASSUME IInv, PromiseOK, NEW t \in Task,
           \/ CompleteTask(t) \/ CancelTask(t) \/ ReopenTask(t) \/ ClearDeadline(t)
           \/ \E r \in Row, occ \in Occurrence : MoveDeadline(t, r, occ)
    PROVE  \A r \in Row : Handled(r)
<1>1. CASE CompleteTask(t)
      BY <1>1, RowsCurrent, CompleteHandled DEF CompleteTask
<1>2. CASE CancelTask(t) \/ ClearDeadline(t)
  <2>1. /\ "cancelled" \in Closed /\ promised' \subseteq promised
        /\ row' = CloseAlarms(t, "cancelled", row)
        BY <1>2 DEF Closed, CancelTask, ClearDeadline
  <2> QED BY <2>1, RowsCurrent, ClosedHandled
<1>3. CASE ReopenTask(t)
      BY <1>3, NoneHandled DEF ReopenTask, history
<1>4. CASE \E r \in Row, occ \in Occurrence : MoveDeadline(t, r, occ)
      BY <1>4, MoveHandled
<1> QED BY <1>1, <1>2, <1>3, <1>4

LEMMA UserAcked ==
    ASSUME IInv, IInv', Accounts, Acked, SnapAcked', \A r \in Row : Handled(r), Rows
    PROVE  Acked'
<1>1. promised' \subseteq Row
      BY DEF IInv, TypeInv, TypeOK
<1>2. SentSettled' /\ PromiseOK' /\ LiveKept /\ NewUnsent
      BY <1>1, HandledAcked DEF Acked
<1> QED BY <1>2, SeriesOn DEF Acked

LEMMA StepAcked == ~EarlyTaps /\ IInv /\ IInv' /\ Accounts /\ Acked /\ [Next]_vars => Acked'
<1> SUFFICES ASSUME ~EarlyTaps, IInv, IInv', Accounts, Acked, [Next]_vars PROVE Acked'
    OBVIOUS
<1> USE DEF Acked
<1>0. Stay
      BY StepInv
<1>1. CASE \E w \in Worker, next \in Occurrence, n \in Row : MarkSentRepeat(w, next, n)
  <2>1. Calm /\ tap' = tap
        BY <1>1, MarkSentRepeatCalm DEF MarkSentRepeat
  <2> QED BY <1>1, <2>1, CalmAcked, RepeatContinues DEF SnapAcked
<1>2. CASE \A w \in Worker, next \in Occurrence, n \in Row : ~MarkSentRepeat(w, next, n)
  <2>0. Rows
        BY <1>2, StepRows
  <2>1. ASSUME Calm, tap' = tap \/ tap'.pc = "idle",
               \A r \in Row : LiveBranch(r) => ~row'[r].sent
        PROVE  Acked'
    <3>1. SentSettled' /\ PromiseOK' /\ NewUnsent /\ LiveKept
          BY <1>0, <2>1, CalmAcked, CalmLive
    <3>2. SnapAcked'
          BY <2>1 DEF SnapAcked
    <3> QED BY <2>0, <3>1, <3>2, SeriesOn
  <2>2. ASSUME NEW w \in Worker, Deliver(w) PROVE Acked'
    <3>1. tap' = tap
          BY <2>2 DEF Deliver, Claim, Check, Send, SendOk, SendAmbiguous, SendRefused, MarkSent,
                      MarkSentStale, MarkSentOnce, MarkSentRepeat, MarkSentConflict,
                      MarkSentDbError, RecordFailure, RecordFailureLost
    <3>2. Calm /\ \A r \in Row : LiveBranch(r) => ~row'[r].sent
          BY <1>2, <2>2, DeliverCalm, DeliverLive
    <3> QED BY <2>1, <3>1, <3>2
  <2>3. ASSUME NEW c \in Row, BecomesDue(c) \/ LeaseLapse(c) \/ BackoffOver(c) PROVE Acked'
    <3>1. tap' = tap
          BY <2>3 DEF BecomesDue, LeaseLapse, BackoffOver
    <3>2. Calm /\ \A r \in Row : LiveBranch(r) => ~row'[r].sent
          BY <2>3, ClockCalm, ClockLive
    <3> QED BY <2>1, <3>1, <3>2
  <2>4. CASE Crash \/ UNCHANGED vars
    <3>1. row' = row /\ promised' = promised /\ (tap' = tap \/ tap'.pc = "idle")
          BY <2>4 DEF Crash, vars, IdleTap
    <3>2. \A r \in Row : LiveBranch(r) => ~row'[r].sent
          BY <3>1 DEF LiveBranch
    <3> QED BY <2>1, <3>1, <3>2, SameCalm
  <2>5. CASE Create
    <3>1. SnapAcked'
          BY <2>5 DEF Create, CreateReminder, CreateTask, Isolated, SnapAcked
    <3> QED BY <2>0, <2>5, <3>1, CreateHandled, UserAcked
  <2>6. CASE TaskOperations
    <3>1. SnapAcked'
          BY <2>6 DEF TaskOperations, CompleteTask, CancelTask, ReopenTask, ClearDeadline,
                      MoveDeadline, Isolated, SnapAcked
    <3> QED BY <2>0, <2>6, <3>1, TaskHandled, UserAcked DEF TaskOperations
  <2>7. ASSUME NEW r \in Row, Retry(r) PROVE Acked'
    <3>1. SnapAcked'
          BY <2>7 DEF Retry, Isolated, SnapAcked
    <3> QED BY <2>0, <2>7, <3>1, RetryHandled, UserAcked
  <2>8. ASSUME NEW r \in Row, DoneRead(r) \/ \E target \in Occurrence : SnoozeRead(r, target)
        PROVE  Acked'
    <3>1. /\ row' = row /\ promised' = promised /\ tap'.snap = row[r] /\ row[r].sent
          BY <2>8 DEF DoneRead, SnoozeRead, Tappable, IdleTap, history
    <3>2. SnapAcked'
          BY <3>1 DEF SnapAcked
    <3> QED BY <2>0, <3>1, <3>2, NoneHandled, UserAcked
  <2>9. CASE FinishTap
    <3>1. SnapAcked'
          BY <2>9 DEF FinishTap, SnoozeWrite, DoneWrite, DoneTask, IdleTap, SnapAcked
    <3>2. \A r \in Row : Handled(r)
          BY <2>9, SnoozeHandled, DoneHandled, DoneTaskHandled DEF FinishTap
    <3> QED BY <2>0, <3>1, <3>2, UserAcked
  <2> QED BY <2>2, <2>3, <2>4, <2>5, <2>6, <2>7, <2>8, <2>9 DEF Next, Clock, Buttons
<1> QED BY <1>1, <1>2

LEMMA InitAcked == Init => Acked
<1> SUFFICES ASSUME Init PROVE Acked
    OBVIOUS
<1>1. \A r \in Row : row[r].status = "absent" /\ ~row[r].sent
      BY DEF Init, AbsentReminder, NewReminder
<1> QED BY <1>1 DEF Init, Acked, SentSettled, SnapAcked, PromiseOK, SeriesContinues, Exists, IdleTap

\* When buttons wait for the record of the delivery, a recurring series always keeps
\* its next occurrence.
THEOREM SeriesGoesOn == ~EarlyTaps => (Spec => []SeriesContinues)
<1>1. Acked => SeriesContinues
      BY DEF Acked
<1>2. CASE ~EarlyTaps
  <2>1. IInv /\ IInv' /\ Accounts /\ Acked /\ [Next]_vars => Acked'
        BY <1>2, StepAcked
  <2> QED BY <1>1, <2>1, Invariance, AccountsKept, InitAcked, PTL DEF Spec
<1> QED BY <1>2

\* When buttons wait for the record of the delivery, a postponed alarm keeps waiting
\* for its new time, or was closed by the user.
THEOREM PromiseKept == ~EarlyTaps => (Spec => []SnoozeKept)
<1>1. Acked => SnoozeKept
      BY DEF Acked, PromiseOK, PromiseWaits, SnoozeKept
<1>2. CASE ~EarlyTaps
  <2>1. IInv /\ IInv' /\ Accounts /\ Acked /\ [Next]_vars => Acked'
        BY <1>2, StepAcked
  <2> QED BY <1>1, <2>1, Invariance, AccountsKept, InitAcked, PTL DEF Spec
<1> QED BY <1>2

-----------------------------------------------------------------------------
(* What a loop knows of a message, and what the row says of it *)

\* Only an alarm that waits to be told is leased.
LeaseWaits == \A r \in Row : row[r].lease # NoWorker => row[r].status \in Waiting

\* A delivered alarm is marked sent.
DeliveredSent == \A r \in Row : row[r].status = "delivered" => row[r].sent

\* The message a loop is about to record has appeared.
MarkShown == \A w \in Worker : job[w].pc = "mark" => job[w].row \in shown

Known == LeaseWaits /\ DeliveredSent /\ MarkShown

LEMMA InitKnown == Init => Known
<1> SUFFICES ASSUME Init PROVE Known
    OBVIOUS
<1>1. \A r \in Row : row[r].status = "absent" /\ row[r].lease = NoWorker
      BY DEF Init, AbsentReminder, NewReminder
<1>2. \A w \in Worker : job[w].pc = "idle"
      BY DEF Init, IdleJob
<1> QED BY <1>1, <1>2 DEF Known, LeaseWaits, DeliveredSent, MarkShown

\* A row that a user's operation leaves alone, closes, or sets waiting.
LEMMA HandledKnown ==
    ASSUME LeaseWaits, DeliveredSent, \A r \in Row : Handled(r)
    PROVE  LeaseWaits' /\ DeliveredSent'
BY DEF LeaseWaits, DeliveredSent, Handled, Waiting, Closed

\* What the loops and the clock leave of the marks on the rows.
LEMMA CalmKnown == ASSUME DeliveredSent, Calm PROVE DeliveredSent'
<1> SUFFICES ASSUME NEW r \in Row, row'[r].status = "delivered" PROVE row'[r].sent
    BY DEF DeliveredSent
<1> QED BY DEF Calm, Undisturbed, Same, DeliveredSent

\* A step that keeps every lease, or ends it, or gives one to an alarm that waits.
LEMMA LeasesStay ==
    ASSUME LeaseWaits,
           \A r \in Row : \/ row'[r].lease = row[r].lease /\ row'[r].status = row[r].status
                          \/ row'[r].lease = NoWorker
                          \/ row'[r].status \in Waiting
    PROVE  LeaseWaits'
BY DEF LeaseWaits

LEMMA DeliverLeases == ASSUME IInv, LeaseWaits, NEW w \in Worker, Deliver(w) PROVE LeaseWaits'
<1>0. row \in [Row -> Reminder]
      BY DEF IInv, TypeInv, TypeOK
<1>1. CASE row' = row
      BY <1>1, LeasesStay
<1>2. CASE Claim(w)
  <2>1. ASSUME NEW r \in Row
        PROVE  \/ row'[r].lease = row[r].lease /\ row'[r].status = row[r].status
               \/ row'[r].status \in Waiting
    <3>1. CASE Claimable(r)
      <4>1. row'[r] = [row[r] EXCEPT !.lease = w, !.live = TRUE] /\ row[r].status \in Waiting
            BY <1>2, <3>1 DEF Claim, Claimable
      <4> QED BY <1>0, <4>1 DEF Reminder
    <3>2. CASE ~Claimable(r)
          BY <1>2, <3>2 DEF Claim
    <3> QED BY <3>1, <3>2
  <2> QED BY <2>1, LeasesStay
<1>3. CASE row' # row /\ ~Claim(w)
  <2> DEFINE r0 == job[w].row
  <2>1. \/ MarkSentOnce(w) \/ (RecordFailure(w) /\ Markable(w))
        \/ \E next \in Occurrence, n \in Row : MarkSentRepeat(w, next, n)
        BY <1>3 DEF Deliver, Check, Send, SendOk, SendAmbiguous, SendRefused, MarkSent,
                    MarkSentStale, MarkSentConflict, MarkSentDbError, RecordFailure, RecordFailureLost
  <2>2. r0 \in Row /\ row[r0] \in Reminder
        BY <2>1, MarkableRow DEF MarkSentOnce, MarkSentRepeat, RecordFailure
  <2>3. DeliveredRow(r0).lease = NoWorker /\ FailedRow(r0, job[w].terminal).lease = NoWorker
        BY <2>2 DEF DeliveredRow, FailedRow, Reminder
  <2>4. CASE MarkSentOnce(w) \/ (RecordFailure(w) /\ Markable(w))
        BY <1>0, <2>2, <2>3, <2>4, LeasesStay DEF MarkSentOnce, RecordFailure
  <2>5. ASSUME NEW next \in Occurrence, NEW n \in Row, MarkSentRepeat(w, next, n)
        PROVE  LeaseWaits'
    <3> DEFINE new == NewReminder(row[r0].series, next, TRUE, row[r0].task)
    <3>1. row' = [row EXCEPT ![r0] = DeliveredRow(r0), ![n] = new] /\ new.lease = NoWorker
          BY <2>5 DEF MarkSentRepeat, NewReminder
    <3> HIDE DEF new, r0
    <3>2. \A r \in Row : row'[r] = row[r] \/ row'[r].lease = NoWorker
          BY <1>0, <2>2, <2>3, <3>1 DEF r0
    <3> QED BY <3>2, LeasesStay
  <2> QED BY <2>1, <2>4, <2>5
<1> QED BY <1>1, <1>2, <1>3

LEMMA ClockLeases ==
    ASSUME IInv, LeaseWaits, NEW c \in Row, BecomesDue(c) \/ LeaseLapse(c) \/ BackoffOver(c)
    PROVE  LeaseWaits'
<1>0. row \in [Row -> Reminder]
      BY DEF IInv, TypeInv, TypeOK
<1>1. ASSUME NEW r \in Row
      PROVE  row'[r].lease = row[r].lease /\ row'[r].status = row[r].status
  <2>1. row'[r] \in {row[r], [row[r] EXCEPT !.due = TRUE], [row[r] EXCEPT !.live = FALSE],
                     [row[r] EXCEPT !.backoff = "over"]}
        BY <1>0 DEF BecomesDue, LeaseLapse, BackoffOver
  <2> QED BY <1>0, <2>1 DEF Reminder
<1> QED BY <1>1, LeasesStay

\* No step of a loop but a send whose answer it got leads to the record of a message.
LEMMA OffMark ==
    ASSUME IInv, NEW w \in Worker, Deliver(w), ~SendOk(w)
    PROVE  \E j : job' = [job EXCEPT ![w] = j] /\ j.pc # "mark"
<1>0. job[w] \in Job
      BY DEF IInv, TypeInv, TypeOK
<1>1. CASE job' = [job EXCEPT ![w] = Proceed(w)]
      BY <1>1, ProceedType DEF IInv, TypeInv
<1>2. CASE job' = [job EXCEPT ![w].pc = "fail"]
  <2>1. [job[w] EXCEPT !.pc = "fail"].pc = "fail"
        BY <1>0 DEF Job
  <2> QED BY <1>2, <2>1
<1>3. ASSUME NEW terminal \in BOOLEAN, SendRefused(w, terminal)
      PROVE  \E j : job' = [job EXCEPT ![w] = j] /\ j.pc # "mark"
  <2>1. job' = [job EXCEPT ![w] = [job[w] EXCEPT !.pc = "fail", !.terminal = terminal]]
        BY <1>0, <1>3 DEF SendRefused, IInv, TypeInv, TypeOK
  <2>2. [job[w] EXCEPT !.pc = "fail", !.terminal = terminal].pc = "fail"
        BY <1>0 DEF Job
  <2> QED BY <2>1, <2>2
<1>4. CASE Claim(w)
  <2> DEFINE j == [IdleJob EXCEPT !.pc = "check", !.left = {r \in Row : Claimable(r)}]
  <2>1. j.pc = "check" /\ job' = [job EXCEPT ![w] = j]
        BY <1>4 DEF Claim, IdleJob
  <2> QED BY <2>1
<1>5. ASSUME NEW r \in Row, Check(w, r)
      PROVE  \E j : job' = [job EXCEPT ![w] = j] /\ j.pc # "mark"
  <2> DEFINE left == job[w].left \ {r}
             j == IF ClaimIsActive(w, r) THEN [IdleJob EXCEPT !.pc = "send", !.row = r, !.left = left]
                  ELSE IF left = {} THEN IdleJob
                  ELSE [IdleJob EXCEPT !.pc = "check", !.left = left]
  <2>1. job' = [job EXCEPT ![w] = j]
        BY <1>5 DEF Check
  <2>2. j.pc # "mark"
        BY DEF IdleJob
  <2> HIDE DEF j
  <2> QED BY <2>1, <2>2
<1>6. CASE Send(w)
      BY <1>2, <1>3, <1>6 DEF Send, SendAmbiguous
<1>7. CASE MarkSent(w) \/ MarkSentDbError(w) \/ RecordFailure(w) \/ RecordFailureLost(w)
  <2>1. \/ job' = [job EXCEPT ![w] = Proceed(w)]
        \/ job' = [job EXCEPT ![w].pc = "fail"]
        BY <1>7 DEF MarkSent, MarkSentStale, MarkSentOnce, MarkSentRepeat, MarkSentConflict,
                    MarkSentDbError, RecordFailure, RecordFailureLost
  <2> QED BY <1>1, <1>2, <2>1
<1> QED BY <1>4, <1>6, <1>7, <1>5 DEF Deliver

\* A loop gets to the record of a message only by sending it.
LEMMA StepShown == ASSUME IInv, MarkShown, [Next]_vars PROVE MarkShown'
<1>0. job \in [Worker -> Job] /\ shown \subseteq shown'
      BY DEF IInv, TypeInv, TypeOK, Next, vars, Create, CreateReminder, CreateTask, Deliver, Claim,
             Check, Send, SendOk, SendAmbiguous, SendRefused, Accepted, MarkSent, MarkSentStale,
             MarkSentOnce, MarkSentRepeat, MarkSentConflict, MarkSentDbError, RecordFailure,
             RecordFailureLost, Clock, BecomesDue, LeaseLapse, BackoffOver, Buttons, SnoozeRead,
             DoneRead, Retry, FinishTap, SnoozeWrite, DoneWrite, DoneTask, TaskOperations,
             CompleteTask, CancelTask, ReopenTask, ClearDeadline, MoveDeadline, Crash
<1> SUFFICES ASSUME NEW w \in Worker, job'[w].pc = "mark" PROVE job'[w].row \in shown'
    BY DEF MarkShown
<1>1. CASE job'[w] = job[w]
      BY <1>0, <1>1 DEF MarkShown
<1>2. CASE job'[w] # job[w]
  <2>1. ~Crash
        BY DEF Crash, IdleJob
  <2>2. Deliver(w)
    <3>1. ASSUME NEW v \in Worker, Deliver(v), v # w PROVE FALSE
      <4>1. \E j : job' = [job EXCEPT ![v] = j]
            BY <3>1 DEF Deliver, Claim, Check, Send, SendOk, SendAmbiguous, SendRefused, MarkSent,
                        MarkSentStale, MarkSentOnce, MarkSentRepeat, MarkSentConflict,
                        MarkSentDbError, RecordFailure, RecordFailureLost
      <4> QED BY <1>0, <1>2, <3>1, <4>1
    <3>2. CASE UNCHANGED vars \/ Create \/ Clock \/ Buttons \/ TaskOperations
          BY <1>2, <3>2
             DEF vars, Create, CreateReminder, CreateTask, Clock, BecomesDue, LeaseLapse,
                 BackoffOver, Buttons, SnoozeRead, DoneRead, Retry, FinishTap, SnoozeWrite,
                 DoneWrite, DoneTask, TaskOperations, CompleteTask, CancelTask, ReopenTask,
                 ClearDeadline, MoveDeadline
    <3> QED BY <2>1, <3>1, <3>2 DEF Next
  <2>3. CASE SendOk(w)
        BY <1>0, <2>3 DEF SendOk, Accepted, Job
  <2>4. CASE ~SendOk(w)
        BY <1>0, <2>2, <2>4, OffMark
  <2> QED BY <2>3, <2>4
<1> QED BY <1>1, <1>2

LEMMA StepKnown == ~EarlyTaps /\ IInv /\ Accounts /\ Acked /\ Known /\ [Next]_vars => Known'
<1> SUFFICES ASSUME ~EarlyTaps, IInv, Accounts, Acked, Known, [Next]_vars PROVE Known'
    OBVIOUS
<1> USE DEF Acked, Known
<1>0. MarkShown'
      BY StepShown
<1>1. ASSUME \A r \in Row : Handled(r) PROVE Known'
      BY <1>0, <1>1, HandledKnown
<1>2. ASSUME NEW w \in Worker, Deliver(w) PROVE Known'
      BY <1>0, <1>2, DeliverCalm, CalmKnown, DeliverLeases
<1>3. ASSUME NEW c \in Row, BecomesDue(c) \/ LeaseLapse(c) \/ BackoffOver(c) PROVE Known'
      BY <1>0, <1>3, ClockCalm, CalmKnown, ClockLeases
<1>4. CASE \/ Crash \/ UNCHANGED vars
           \/ \E r \in Row : DoneRead(r) \/ \E target \in Occurrence : SnoozeRead(r, target)
      BY <1>1, <1>4, NoneHandled DEF Crash, vars, DoneRead, SnoozeRead, history
<1>5. CASE Create \/ FinishTap \/ TaskOperations \/ \E r \in Row : Retry(r)
      BY <1>1, <1>5, CreateHandled, SnoozeHandled, DoneHandled, DoneTaskHandled, TaskHandled,
         RetryHandled DEF FinishTap, TaskOperations
<1> QED BY <1>2, <1>3, <1>4, <1>5 DEF Next, Clock, Buttons

\* When buttons wait for the record of the delivery: only an alarm that waits is leased,
\* a delivered one is marked sent, and a loop records only a message that appeared.
THEOREM WhatIsKnown == ~EarlyTaps => (Spec => [](Acked /\ Known))
<1> SUFFICES ASSUME ~EarlyTaps PROVE Spec => [](Acked /\ Known)
    OBVIOUS
<1>1. IInv /\ IInv' /\ Accounts /\ Acked /\ [Next]_vars => Acked'
      BY StepAcked
<1>2. IInv /\ Accounts /\ Acked /\ Known /\ [Next]_vars => Known'
      BY StepKnown
<1> QED BY <1>1, <1>2, Invariance, AccountsKept, InitAcked, InitKnown, PTL DEF Spec

-----------------------------------------------------------------------------
(* Reminders keeps the promise of Alarms *)

LEMMA StageIs ==
    ASSUME NEW r \in Row
    PROVE  /\ row[r].status = "absent" => Stage(r) = "none"
           /\ row[r].status \in Waiting => Stage(r) = IF Heard(r) THEN "heard" ELSE "waiting"
           /\ row[r].status = "delivered" => Stage(r) = "told"
           /\ row[r].status = "failed" => Stage(r) = "failed"
           /\ row[r].status \in Closed => Stage(r) = "closed"
BY DEF Stage, Waiting, Closed

LEMMA StageWillBe ==
    ASSUME NEW r \in Row
    PROVE  /\ row'[r].status = "absent" => Stage(r)' = "none"
           /\ row'[r].status \in Waiting => Stage(r)' = IF Heard(r)' THEN "heard" ELSE "waiting"
           /\ row'[r].status = "delivered" => Stage(r)' = "told"
           /\ row'[r].status = "failed" => Stage(r)' = "failed"
           /\ row'[r].status \in Closed => Stage(r)' = "closed"
BY DEF Stage, Waiting, Closed

\* A row that exists is at a stage past "none".
LEMMA StageOf ==
    ASSUME IInv, NEW r \in Row
    PROVE  /\ Stage(r) = "none" <=> ~Exists(r)
           /\ Stage(r) \in {"none", "waiting", "heard", "told", "failed", "closed"}
BY StageIs DEF IInv, TypeInv, TypeOK, Reminder, Status, Unclosed, Exists

LEMMA HeardFrame ==
    ASSUME NEW r \in Row, row'[r].lease = row[r].lease, row'[r].sent = row[r].sent,
           \A w \in Worker : job[w].pc = "mark" /\ job[w].row = r
                             <=> job'[w].pc = "mark" /\ job'[w].row = r
    PROVE  Heard(r)' <=> Heard(r)
BY DEF Heard, Markable

\* Columns that the promise does not speak of may change.
LEMMA SameAlarm ==
    ASSUME NEW r \in Row,
           row'[r].status = row[r].status, row'[r].occ = row[r].occ,
           row'[r].rule = row[r].rule, row'[r].series = row[r].series,
           row[r].status \in Waiting => (Heard(r)' <=> Heard(r))
    PROVE  AlarmOf(r)' = AlarmOf(r)
<1>1. Stage(r)' = Stage(r)
      BY DEF Stage
<1> QED BY <1>1 DEF AlarmOf

\* No loop moves and the row stays.
LEMMA Stands ==
    ASSUME NEW r \in Row, job' = job, row'[r] = row[r]
    PROVE  AlarmOf(r)' = AlarmOf(r)
BY HeardFrame, SameAlarm

\* The loop w moves, but neither from nor to the record of r.
LEMMA OthersStay ==
    ASSUME IInv, NEW w \in Worker, NEW j, job' = [job EXCEPT ![w] = j],
           NEW r \in Row, row'[r] = row[r],
           job[w].pc = "mark" => job[w].row # r, j.pc = "mark" => j.row # r
    PROVE  AlarmOf(r)' = AlarmOf(r)
<1>1. \A v \in Worker : job'[v] = IF v = w THEN j ELSE job[v]
      BY DEF IInv, TypeInv, TypeOK
<1>2. Heard(r)' <=> Heard(r)
      BY <1>1, HeardFrame
<1> QED BY <1>2, SameAlarm

\* One alarm changes.
LEMMA OneAlarm ==
    ASSUME NEW r \in Row, NEW a, AlarmOf(r)' = a,
           \A s \in Row : s # r => AlarmOf(s)' = AlarmOf(s)
    PROVE  [s \in Row |-> AlarmOf(s)]' = [[s \in Row |-> AlarmOf(s)] EXCEPT ![r] = a]
<1>1. \A s \in Row : AlarmOf(s)' = IF s = r THEN a ELSE AlarmOf(s)
      OBVIOUS
<1> QED BY <1>1

\* Nothing happens but that some loops forget what they have told.
LEMMA Fades ==
    ASSUME shown' = shown,
           \A r \in Row : /\ row'[r].status = row[r].status /\ row'[r].occ = row[r].occ
                          /\ row'[r].rule = row[r].rule /\ row'[r].series = row[r].series
                          /\ Heard(r)' => Heard(r)
    PROVE  Promise!Next
<1> DEFINE lost == {r \in Row : row[r].status \in Waiting /\ Heard(r) /\ ~Heard(r)'}
<1>1. ASSUME NEW r \in Row
      PROVE  AlarmOf(r)' = IF r \in lost THEN [AlarmOf(r) EXCEPT !.stage = "waiting"] ELSE AlarmOf(r)
  <2>1. CASE r \in lost
    <3>1. Stage(r)' = "waiting"
          BY <2>1, StageWillBe
    <3> QED BY <2>1, <3>1 DEF AlarmOf
  <2>2. CASE r \notin lost
        BY <2>2, SameAlarm
  <2> QED BY <2>1, <2>2
<1>2. \A r \in lost : AlarmOf(r).stage = "heard"
      BY StageIs DEF AlarmOf
<1> HIDE DEF lost
<1>3. [r \in Row |-> AlarmOf(r)]'
        = [r \in Row |-> IF r \in lost THEN [AlarmOf(r) EXCEPT !.stage = "waiting"] ELSE AlarmOf(r)]
      BY <1>1
<1>4. lost \subseteq Row
      BY DEF lost
<1>5. Promise!Forget(lost)
      BY <1>2, <1>3, <1>4 DEF Promise!Forget, Promise!Is
<1> QED BY <1>4, <1>5 DEF Promise!Next

\* A loop that neither sends nor writes an outcome takes over, drops or gives up.
LEMMA QuietLoop ==
    ASSUME IInv, NEW w \in Worker, Deliver(w), ~SendOk(w), ~SendAmbiguous(w),
           row' = row \/ Claim(w)
    PROVE  Promise!Next
<1>0. row \in [Row -> Reminder] /\ job \in [Worker -> Job]
      BY DEF IInv, TypeInv, TypeOK
<1>1. shown' = shown
      BY DEF Deliver, Claim, Check, Send, SendRefused, MarkSent, MarkSentStale, MarkSentOnce,
             MarkSentRepeat, MarkSentConflict, MarkSentDbError, RecordFailure, RecordFailureLost
<1>2. PICK j : job' = [job EXCEPT ![w] = j] /\ j.pc # "mark"
      BY OffMark
<1>3. ASSUME NEW r \in Row
      PROVE  /\ row'[r].status = row[r].status /\ row'[r].occ = row[r].occ
             /\ row'[r].rule = row[r].rule /\ row'[r].series = row[r].series
             /\ row'[r] = row[r] \/ row'[r].lease = w
  <2>1. row'[r] = row[r] \/ row'[r] = [row[r] EXCEPT !.lease = w, !.live = TRUE]
        BY <1>0 DEF Claim
  <2> QED BY <1>0, <2>1 DEF Reminder
<1>4. ASSUME NEW r \in Row, Heard(r)' PROVE Heard(r)
  <2>1. PICK v \in Worker : job'[v].pc = "mark" /\ job'[v].row = r /\ Markable(v)'
        BY <1>4 DEF Heard
  <2>2. v # w /\ job'[v] = job[v]
        BY <1>0, <1>2, <2>1
  <2>3. row'[r].lease = v /\ ~row'[r].sent
        BY <2>1 DEF Markable
  <2>4. row'[r] = row[r]
        BY <1>3, <2>2, <2>3
  <2> QED BY <2>1, <2>2, <2>3, <2>4 DEF Heard, Markable
<1> QED BY <1>1, <1>3, <1>4, Fades

\* A send whose answer came, or was lost.
LEMMA SendPromised ==
    ASSUME IInv, NEW w \in Worker, SendOk(w) \/ SendAmbiguous(w)
    PROVE  Promise!Next
<1>1. job[w].row \in Row /\ Exists(job[w].row)
      BY DEF IInv, TypeInv, JobOK, SendOk, SendAmbiguous
<1>2. PICK r0 \in Row : r0 = job[w].row
      BY <1>1
<1>3. /\ row' = row /\ shown' = shown \cup {r0} /\ job \in [Worker -> Job] /\ job[w] \in Job
      /\ job[w].pc = "send" /\ Exists(r0)
      BY <1>1, <1>2 DEF IInv, TypeInv, TypeOK, SendOk, SendAmbiguous, Accepted
<1>4. PICK pc \in {"mark", "fail"} : job' = [job EXCEPT ![w].pc = pc]
      BY DEF SendOk, SendAmbiguous
<1> DEFINE j == [job[w] EXCEPT !.pc = pc]
<1>5. job' = [job EXCEPT ![w] = j] /\ j.row = r0 /\ j.pc = pc
      BY <1>2, <1>3, <1>4 DEF Job
<1> HIDE DEF j
<1>6. ASSUME NEW s \in Row, s # r0 PROVE AlarmOf(s)' = AlarmOf(s)
      BY <1>3, <1>5, <1>6, OthersStay
<1>7. Stage(r0) # "none"
      BY <1>3, StageOf
<1>8. \/ AlarmOf(r0)' = AlarmOf(r0)
      \/ Stage(r0) = "waiting" /\ AlarmOf(r0)' = [AlarmOf(r0) EXCEPT !.stage = "heard"]
  <2>1. CASE row[r0].status \in Waiting /\ Heard(r0)' /\ ~Heard(r0)
    <3>1. Stage(r0) = "waiting" /\ Stage(r0)' = "heard"
          BY <1>3, <2>1, StageIs, StageWillBe
    <3> QED BY <1>3, <3>1 DEF AlarmOf
  <2>2. CASE row[r0].status \in Waiting /\ Heard(r0) /\ ~Heard(r0)'
    <3>1. PICK v \in Worker : job[v].pc = "mark" /\ job[v].row = r0 /\ Markable(v)
          BY <2>2 DEF Heard
    <3>2. job'[v] = job[v]
          BY <1>3, <1>5, <3>1
    <3> QED BY <1>3, <2>2, <3>1, <3>2 DEF Heard, Markable
  <2>3. CASE row[r0].status \in Waiting => (Heard(r0)' <=> Heard(r0))
        BY <1>3, <2>3, SameAlarm
  <2> QED BY <2>1, <2>2, <2>3
<1>9. \/ [s \in Row |-> AlarmOf(s)]' = [s \in Row |-> AlarmOf(s)]
      \/ /\ Stage(r0) = "waiting"
         /\ [s \in Row |-> AlarmOf(s)]'
              = [[s \in Row |-> AlarmOf(s)] EXCEPT ![r0] = [AlarmOf(r0) EXCEPT !.stage = "heard"]]
  <2>1. CASE AlarmOf(r0)' = AlarmOf(r0)
    <3>1. \A s \in Row : AlarmOf(s)' = AlarmOf(s)
          BY <1>6, <2>1
    <3> QED BY <3>1
  <2>2. CASE Stage(r0) = "waiting" /\ AlarmOf(r0)' = [AlarmOf(r0) EXCEPT !.stage = "heard"]
        BY <1>3, <1>6, <2>2, OneAlarm
  <2> QED BY <1>8, <2>1, <2>2
<1>10. Promise!Ring(r0)
      BY <1>3, <1>7, <1>9 DEF Promise!Ring, Promise!Is, AlarmOf
<1> QED BY <1>3, <1>10 DEF Promise!Next

\* A loop that may record its message holds an alarm whose message was heard.
LEMMA MarkableHeard ==
    ASSUME IInv, Known, NEW w \in Worker, job[w].pc = "mark", Markable(w)
    PROVE  /\ Stage(job[w].row) = "heard" /\ job[w].row \in shown
           /\ \A j : job' = [job EXCEPT ![w] = j] /\ j.pc # "mark"
                => \A s \in Row : s # job[w].row /\ row'[s] = row[s] => AlarmOf(s)' = AlarmOf(s)
<1>1. /\ job[w].row \in Row /\ row[job[w].row].lease # NoWorker
      BY MarkableRow
<1>2. Heard(job[w].row) /\ row[job[w].row].status \in Waiting /\ job[w].row \in shown
      BY <1>1 DEF Heard, Known, LeaseWaits, MarkShown
<1>3. Stage(job[w].row) = "heard"
      BY <1>1, <1>2, StageIs
<1> QED BY <1>2, <1>3, OthersStay

LEMMA MarkSentOncePromised ==
    ASSUME IInv, Known, NEW w \in Worker, MarkSentOnce(w)
    PROVE  Promise!Next
<1>1. PICK r \in Row : r = job[w].row
      BY MarkableRow DEF MarkSentOnce
<1>2. /\ row \in [Row -> Reminder] /\ row' = [row EXCEPT ![r] = DeliveredRow(r)] /\ shown' = shown
      /\ ~row[r].rule /\ job[w].pc = "mark" /\ Markable(w)
      BY <1>1 DEF IInv, TypeInv, TypeOK, MarkSentOnce
<1>3. Stage(r) = "heard" /\ r \in shown
      BY <1>1, <1>2, MarkableHeard
<1>4. AlarmOf(r)' = [AlarmOf(r) EXCEPT !.stage = "told"]
  <2>1. /\ row'[r].status = "delivered" /\ row'[r].occ = row[r].occ
        /\ row'[r].rule = row[r].rule /\ row'[r].series = row[r].series
        BY <1>2 DEF DeliveredRow, Reminder
  <2>2. Stage(r)' = "told"
        BY <2>1, StageWillBe
  <2> QED BY <2>1, <2>2 DEF AlarmOf
<1>5. PICK j : job' = [job EXCEPT ![w] = j] /\ j.pc # "mark"
      BY <1>2, OffMark DEF Deliver, MarkSent, SendOk
<1>6. \A s \in Row : s # r => AlarmOf(s)' = AlarmOf(s)
      BY <1>1, <1>2, <1>5, MarkableHeard
<1>7. [s \in Row |-> AlarmOf(s)]'
        = [[s \in Row |-> AlarmOf(s)] EXCEPT ![r] = [AlarmOf(r) EXCEPT !.stage = "told"]]
      BY <1>4, <1>6, OneAlarm
<1>8. Promise!Record(r)
      BY <1>2, <1>3, <1>7 DEF Promise!Record, Promise!Told, Promise!Is, AlarmOf
<1> QED BY <1>8 DEF Promise!Next

LEMMA MarkSentRepeatPromised ==
    ASSUME IInv, Known, NEW w \in Worker, NEW next \in Occurrence, NEW n \in Row,
           MarkSentRepeat(w, next, n)
    PROVE  Promise!Next
<1>1. PICK r \in Row : r = job[w].row
      BY MarkableRow DEF MarkSentRepeat
<1> DEFINE new == NewReminder(row[r].series, next, TRUE, row[r].task)
           sent == DeliveredRow(r)
<1>2. /\ row \in [Row -> Reminder] /\ row' = [row EXCEPT ![r] = sent, ![n] = new]
      /\ shown' = shown /\ row[r].rule /\ job[w].pc = "mark" /\ Markable(w)
      /\ Exists(r) /\ ~Exists(n) /\ next \in NextOccurrences(row[r].occ)
      BY <1>1, MarkableRow DEF IInv, TypeInv, TypeOK, MarkSentRepeat
<1>3. Stage(r) = "heard" /\ r \in shown /\ Stage(n) = "none" /\ r # n
      BY <1>1, <1>2, MarkableHeard, StageOf
<1>4. next >= row[r].occ
  <2>1. row[r].occ \in Int /\ OffGrid \in Int /\ MaxOcc \in Int
        BY <1>2, RemindersAssumption DEF Reminder, Occurrence, OffGrid
  <2> QED BY <1>2, <2>1 DEF NextOccurrences, OffGrid
<1>5. /\ sent.status = "delivered" /\ sent.occ = row[r].occ
      /\ sent.rule = row[r].rule /\ sent.series = row[r].series
      BY <1>2 DEF DeliveredRow, Reminder
<1>6. /\ new.status = "pending" /\ new.occ = next /\ new.rule /\ new.series = row[r].series
      /\ new.rule = TRUE /\ new.lease = NoWorker
      BY DEF NewReminder
<1> HIDE DEF new, sent
<1>7. \A s \in Row : row'[s] = IF s = n THEN new ELSE IF s = r THEN sent ELSE row[s]
      BY <1>2
<1>8. AlarmOf(r)' = [AlarmOf(r) EXCEPT !.stage = "told"]
  <2>1. row'[r] = sent /\ Stage(r)' = "told"
        BY <1>3, <1>5, <1>7, StageWillBe
  <2> QED BY <1>5, <2>1 DEF AlarmOf
<1>9. AlarmOf(n)' = Promise!New(next, TRUE, row[r].series)
  <2>1. row'[n] = new /\ ~Heard(n)'
        BY <1>6, <1>7, RemindersAssumption DEF Heard, Markable
  <2>2. Stage(n)' = "waiting"
        BY <1>6, <2>1, StageWillBe DEF Waiting
  <2> QED BY <1>6, <2>1, <2>2 DEF AlarmOf, Promise!New
<1>10. PICK j : job' = [job EXCEPT ![w] = j] /\ j.pc # "mark"
      BY <1>2, OffMark DEF Deliver, MarkSent, SendOk
<1>11. ASSUME NEW s \in Row, s # r, s # n PROVE AlarmOf(s)' = AlarmOf(s)
  <2>1. row'[s] = row[s]
        BY <1>7, <1>11
  <2> QED BY <1>1, <1>2, <1>10, <1>11, <2>1, MarkableHeard
<1>12. \A s \in Row : AlarmOf(s)' = IF s = n THEN Promise!New(next, TRUE, row[r].series)
                                    ELSE IF s = r THEN [AlarmOf(r) EXCEPT !.stage = "told"]
                                    ELSE AlarmOf(s)
      BY <1>8, <1>9, <1>11
<1>13. [s \in Row |-> AlarmOf(s)]'
        = [[s \in Row |-> AlarmOf(s)] EXCEPT ![r] = [AlarmOf(r) EXCEPT !.stage = "told"],
                                             ![n] = Promise!New(next, TRUE, row[r].series)]
      BY <1>3, <1>12
<1>14. Promise!Continue(r, n)
  <2> DEFINE now == [s \in Row |-> AlarmOf(s)]
  <2>1. /\ now[r].stage = "heard" /\ now[r].repeats /\ now[n].stage = "none"
        /\ now[r].at = row[r].occ /\ now[r].series = row[r].series /\ now[r] = AlarmOf(r)
        BY <1>2, <1>3 DEF AlarmOf
  <2>2. /\ now' = [now EXCEPT ![r] = [now[r] EXCEPT !.stage = "told"],
                              ![n] = Promise!New(next, TRUE, now[r].series)]
        BY <1>13, <2>1
  <2>3. next \in Occurrence /\ next >= now[r].at
        BY <1>4, <2>1
  <2> HIDE DEF now
  <2> QED BY <1>2, <1>3, <2>1, <2>2, <2>3 DEF now, Promise!Continue, Promise!Told, Promise!Is
<1> QED BY <1>14 DEF Promise!Next

LEMMA RecordFailurePromised ==
    ASSUME IInv, Known, NEW w \in Worker, RecordFailure(w)
    PROVE  Promise!Next
<1>1. CASE ~Markable(w)
  <2>1. row' = row
        BY <1>1 DEF RecordFailure
  <2> QED BY <2>1, QuietLoop DEF Deliver, RecordFailure, SendOk, SendAmbiguous
<1>2. CASE Markable(w)
  <2>1. PICK r \in Row : r = job[w].row
        BY <1>2, MarkableRow DEF RecordFailure
  <2>2. /\ row \in [Row -> Reminder] /\ row' = [row EXCEPT ![r] = FailedRow(r, job[w].terminal)]
        /\ shown' = shown /\ job[w].pc = "fail" /\ row[r].lease = w /\ row[r].lease # NoWorker
        /\ job \in [Worker -> Job]
        BY <1>2, <2>1, MarkableRow DEF IInv, TypeInv, TypeOK, RecordFailure
  <2>3. ~Heard(r) /\ Stage(r) = "waiting"
    <3>1. row[r].status \in Waiting
          BY <2>2 DEF Known, LeaseWaits
    <3>2. ~Heard(r)
          BY <2>2 DEF Heard, Markable
    <3> QED BY <3>1, <3>2, StageIs
  <2>4. /\ row'[r].occ = row[r].occ /\ row'[r].rule = row[r].rule
        /\ row'[r].series = row[r].series /\ row'[r].lease = NoWorker
        /\ row'[r].status \in {"failed", row[r].status}
        BY <2>2 DEF FailedRow, Reminder
  <2>5. PICK j : job' = [job EXCEPT ![w] = j] /\ j.pc # "mark"
        BY <2>2, OffMark DEF Deliver, SendOk
  <2>6. \A s \in Row : s # r => AlarmOf(s)' = AlarmOf(s)
        BY <2>2, <2>5, OthersStay
  <2>7. ~Heard(r)'
        BY <2>4, RemindersAssumption DEF Heard, Markable
  <2>8. CASE row'[r].status = row[r].status
    <3>1. ASSUME NEW s \in Row, Heard(s)' PROVE Heard(s)
      <4>1. PICK v \in Worker : job'[v].pc = "mark" /\ job'[v].row = s /\ Markable(v)'
            BY <3>1 DEF Heard
      <4>2. s # r /\ v # w
            BY <2>2, <2>5, <2>7, <3>1, <4>1
      <4>3. job'[v] = job[v] /\ row'[s] = row[s]
            BY <2>2, <2>5, <4>2
      <4> QED BY <4>1, <4>3 DEF Heard, Markable
    <3>2. \A s \in Row : /\ row'[s].status = row[s].status /\ row'[s].occ = row[s].occ
                         /\ row'[s].rule = row[s].rule /\ row'[s].series = row[s].series
          BY <2>2, <2>4, <2>8
    <3> QED BY <2>2, <3>1, <3>2, Fades
  <2>9. CASE row'[r].status = "failed"
    <3>1. AlarmOf(r)' = [AlarmOf(r) EXCEPT !.stage = "failed"]
          BY <2>4, <2>9, StageWillBe DEF AlarmOf
    <3>2. [s \in Row |-> AlarmOf(s)]'
            = [[s \in Row |-> AlarmOf(s)] EXCEPT ![r] = [AlarmOf(r) EXCEPT !.stage = "failed"]]
          BY <2>6, <3>1, OneAlarm
    <3>3. Promise!Fail(r)
          BY <2>2, <2>3, <3>2 DEF Promise!Fail, Promise!Is, AlarmOf
    <3> QED BY <3>3 DEF Promise!Next
  <2> QED BY <2>4, <2>8, <2>9
<1> QED BY <1>1, <1>2

LEMMA DeliverPromised ==
    ASSUME IInv, Known, NEW w \in Worker, Deliver(w)
    PROVE  Promise!Next
<1>1. CASE SendOk(w) \/ SendAmbiguous(w)
      BY <1>1, SendPromised
<1>2. CASE MarkSentOnce(w) \/ RecordFailure(w)
      BY <1>2, MarkSentOncePromised, RecordFailurePromised
<1>3. CASE \E next \in Occurrence, n \in Row : MarkSentRepeat(w, next, n)
      BY <1>3, MarkSentRepeatPromised
<1>4. CASE ~SendOk(w) /\ ~SendAmbiguous(w) /\ (row' = row \/ Claim(w))
      BY <1>4, QuietLoop
<1> QED BY <1>1, <1>2, <1>3, <1>4
        DEF Deliver, Check, Send, SendRefused, MarkSent, MarkSentStale, MarkSentConflict,
            MarkSentDbError, RecordFailureLost

\* Time passes: a lease that lapses is still the lease of its loop.
LEMMA ClockPromised ==
    ASSUME IInv, NEW c \in Row, BecomesDue(c) \/ LeaseLapse(c) \/ BackoffOver(c)
    PROVE  Promise!Next
<1>1. row \in [Row -> Reminder] /\ job' = job /\ shown' = shown
      BY DEF IInv, TypeInv, TypeOK, BecomesDue, LeaseLapse, BackoffOver
<1>2. ASSUME NEW r \in Row
      PROVE  /\ row'[r].status = row[r].status /\ row'[r].occ = row[r].occ
             /\ row'[r].rule = row[r].rule /\ row'[r].series = row[r].series
             /\ Heard(r)' => Heard(r)
  <2>1. row'[r] \in {row[r], [row[r] EXCEPT !.due = TRUE], [row[r] EXCEPT !.live = FALSE],
                     [row[r] EXCEPT !.backoff = "over"]}
        BY <1>1 DEF BecomesDue, LeaseLapse, BackoffOver
  <2>2. /\ row'[r].status = row[r].status /\ row'[r].occ = row[r].occ
        /\ row'[r].rule = row[r].rule /\ row'[r].series = row[r].series
        /\ row'[r].lease = row[r].lease /\ row'[r].sent = row[r].sent
        BY <1>1, <2>1 DEF Reminder
  <2> QED BY <1>1, <2>2, HeardFrame
<1> QED BY <1>1, <1>2, Fades

\* The loops stop where they are, or nothing happens to an alarm at all.
LEMMA RestPromised ==
    ASSUME row' = row, shown' = shown, job' = job \/ Crash
    PROVE  Promise!Next
<1>1. ASSUME NEW r \in Row, Heard(r)' PROVE Heard(r)
      BY <1>1 DEF Heard, Markable, Crash, IdleJob
<1> QED BY <1>1, Fades

\* A row that waits under no lease.
LEMMA Unheard ==
    ASSUME NEW r \in Row, row'[r].status \in Waiting, row'[r].lease = NoWorker
    PROVE  Stage(r)' = "waiting"
<1>1. ~Heard(r)'
      BY RemindersAssumption DEF Heard, Markable
<1> QED BY <1>1, StageWillBe

LEMMA NewAlarm ==
    ASSUME NEW r \in Row, NEW series, NEW occ, NEW rule \in BOOLEAN, NEW t,
           row'[r] = NewReminder(series, occ, rule, t)
    PROVE  AlarmOf(r)' = Promise!New(occ, rule, series)
<1>1. /\ row'[r].status = "pending" /\ row'[r].lease = NoWorker /\ row'[r].occ = occ
      /\ row'[r].rule = rule /\ row'[r].series = series
      BY DEF NewReminder
<1>2. Stage(r)' = "waiting"
      BY <1>1, Unheard DEF Waiting
<1> QED BY <1>1, <1>2 DEF AlarmOf, Promise!New

\* An alarm of the user's own is set.
LEMMA SetPromised ==
    ASSUME IInv, NEW r \in Row, ~Exists(r), NEW occ \in Occurrence, NEW rule \in BOOLEAN, NEW t,
           row' = [row EXCEPT ![r] = NewReminder(r, occ, rule, t)],
           job' = job, shown' = shown
    PROVE  Promise!Next
<1> DEFINE new == NewReminder(r, occ, rule, t)
<1>1. row \in [Row -> Reminder]
      BY DEF IInv, TypeInv, TypeOK
<1> HIDE DEF new
<1>2. row'[r] = new /\ \A s \in Row : s # r => row'[s] = row[s]
      BY <1>1 DEF new
<1>3. AlarmOf(r)' = Promise!New(occ, rule, r)
      BY <1>2, NewAlarm DEF new
<1>4. \A s \in Row : s # r => AlarmOf(s)' = AlarmOf(s)
      BY <1>2, Stands
<1>5. [s \in Row |-> AlarmOf(s)]'
        = [[s \in Row |-> AlarmOf(s)] EXCEPT ![r] = Promise!New(occ, rule, r)]
      BY <1>3, <1>4, OneAlarm
<1>6. Stage(r) = "none"
      BY StageOf
<1>7. Promise!Set(r)
      BY <1>5, <1>6 DEF Promise!Set, Promise!Is, AlarmOf
<1> QED BY <1>7 DEF Promise!Next

LEMMA CreatePromised == ASSUME IInv, Create PROVE Promise!Next
<1>1. 0 \in Occurrence /\ Rules \subseteq BOOLEAN
      BY RemindersAssumption DEF Occurrence, OffGrid
<1>2. ASSUME NEW r \in Row, NEW rule \in Rules, CreateReminder(r, rule) PROVE Promise!Next
      BY <1>1, <1>2, SetPromised DEF CreateReminder
<1>3. ASSUME NEW t \in Task, NEW r \in Row, NEW repeats \in Rules, CreateTask(t, r, repeats)
      PROVE  Promise!Next
      BY <1>1, <1>3, SetPromised DEF CreateTask
<1> QED BY <1>2, <1>3 DEF Create

LEMMA RetryPromised == ASSUME IInv, NEW r \in Row, Retry(r) PROVE Promise!Next
<1> DEFINE new == [row[r] EXCEPT !.status = "pending", !.sent = FALSE, !.attempts = 0,
                                 !.backoff = "over", !.lease = NoWorker, !.live = FALSE]
<1>1. /\ row \in [Row -> Reminder] /\ row[r] \in Reminder /\ row' = [row EXCEPT ![r] = new]
      /\ job' = job /\ shown' = shown /\ row[r].status = "failed"
      BY DEF IInv, TypeInv, TypeOK, Retry
<1>2. /\ new.status = "pending" /\ new.lease = NoWorker /\ new.occ = row[r].occ
      /\ new.rule = row[r].rule /\ new.series = row[r].series
      BY <1>1 DEF Reminder
<1> HIDE DEF new
<1>3. row'[r] = new /\ \A s \in Row : s # r => AlarmOf(s)' = AlarmOf(s)
      BY <1>1, Stands
<1>4. Stage(r) = "failed" /\ Stage(r)' = "waiting"
      BY <1>1, <1>2, <1>3, StageIs, Unheard DEF Waiting
<1>5. AlarmOf(r)' = [AlarmOf(r) EXCEPT !.stage = "waiting"]
      BY <1>2, <1>3, <1>4 DEF AlarmOf
<1>6. [s \in Row |-> AlarmOf(s)]'
        = [[s \in Row |-> AlarmOf(s)] EXCEPT ![r] = [AlarmOf(r) EXCEPT !.stage = "waiting"]]
      BY <1>3, <1>5, OneAlarm
<1>7. Promise!Retry(r)
      BY <1>1, <1>4, <1>6 DEF Promise!Retry, Promise!Is, AlarmOf
<1> QED BY <1>7 DEF Promise!Next

\* An alarm that no series depends on gets another time.
LEMMA PostponePromised ==
    ASSUME IInv, NEW r \in Row, NEW new, row' = [row EXCEPT ![r] = new],
           job' = job, shown' = shown,
           new.status \in Waiting, new.lease = NoWorker, new.occ \in Occurrence,
           new.rule = FALSE, new.series = row[r].series,
           row[r].status \in {"delivered"} \cup Closed \/ (Exists(r) /\ ~row[r].rule)
    PROVE  Promise!Next
<1>1. row \in [Row -> Reminder]
      BY DEF IInv, TypeInv, TypeOK
<1>2. row'[r] = new /\ \A s \in Row : s # r => AlarmOf(s)' = AlarmOf(s)
      BY <1>1, Stands
<1>3. Stage(r)' = "waiting"
      BY <1>2, Unheard
<1>4. AlarmOf(r)' = Promise!New(new.occ, FALSE, row[r].series)
      BY <1>2, <1>3 DEF AlarmOf, Promise!New
<1>5. [s \in Row |-> AlarmOf(s)]'
        = [[s \in Row |-> AlarmOf(s)] EXCEPT ![r] = Promise!New(new.occ, FALSE, row[r].series)]
      BY <1>2, <1>4, OneAlarm
<1>6. Stage(r) \in {"told", "closed"} \/ (Stage(r) # "none" /\ ~row[r].rule)
      BY StageIs, StageOf
<1> DEFINE now == [s \in Row |-> AlarmOf(s)]
<1>7. now[r].stage = Stage(r) /\ now[r].repeats = row[r].rule /\ now[r].series = row[r].series
      BY DEF AlarmOf
<1>8. now' = [now EXCEPT ![r] = Promise!New(new.occ, FALSE, now[r].series)]
      BY <1>5, <1>7
<1> HIDE DEF now
<1>9. Promise!Postpone(r)
      BY <1>6, <1>7, <1>8 DEF now, Promise!Postpone, Promise!Is
<1> QED BY <1>9 DEF Promise!Next

\* What closing does to one row: an alarm that carries no series on ends, ...
Ends(r) == /\ row[r].status = "delivered" \/ (Exists(r) /\ ~row[r].rule)
           /\ row'[r].status \in Closed /\ row'[r].occ = row[r].occ
           /\ row'[r].rule = row[r].rule /\ row'[r].series = row[r].series

\* ... the alarm of the next task begins, and any other stays.
Begins(r) == ~Exists(r) /\ \E t : row'[r] = NewReminder(r, 0, FALSE, t)

Remains(r) == AlarmOf(r)' = AlarmOf(r)

\* Alarms are closed, and perhaps one is set.
LEMMA ClosePromised ==
    ASSUME IInv, job' = job, shown' = shown, \A r \in Row : Ends(r) \/ Begins(r) \/ Remains(r)
    PROVE  Promise!Next
<1> DEFINE over == {r \in Row : Ends(r)}
           set == {r \in Row : ~Ends(r) /\ Begins(r)}
<1>1. ASSUME NEW r \in over
      PROVE  /\ AlarmOf(r)' = [AlarmOf(r) EXCEPT !.stage = "closed"]
             /\ Stage(r) = "told" \/ (Stage(r) # "none" /\ ~AlarmOf(r).repeats)
  <2>1. r \in Row /\ Stage(r)' = "closed"
        BY StageWillBe DEF Ends
  <2>2. Stage(r) = "told" \/ (Stage(r) # "none" /\ ~row[r].rule)
        BY StageIs, StageOf DEF Ends
  <2> QED BY <2>1, <2>2 DEF AlarmOf, Ends
<1>2. ASSUME NEW r \in set
      PROVE  AlarmOf(r)' = Promise!New(0, FALSE, r) /\ Stage(r) = "none"
      BY NewAlarm, StageOf DEF Begins
<1>3. ASSUME NEW r \in Row
      PROVE  AlarmOf(r)' = IF r \in over THEN [AlarmOf(r) EXCEPT !.stage = "closed"]
                           ELSE IF r \in set THEN Promise!New(0, FALSE, r)
                           ELSE AlarmOf(r)
  <2>1. r \in over \/ (r \notin over /\ r \in set) \/ (r \notin over /\ r \notin set /\ Remains(r))
        OBVIOUS
  <2> HIDE DEF over, set
  <2> QED BY <1>1, <1>2, <2>1 DEF Remains
<1>4. over \in SUBSET Row /\ set \in SUBSET Row
      OBVIOUS
<1> DEFINE now == [s \in Row |-> AlarmOf(s)]
<1> HIDE DEF over, set
<1>5. \A r \in Row : now[r] = AlarmOf(r) /\ now[r].stage = Stage(r)
      BY DEF AlarmOf
<1>6. now' = [r \in Row |-> IF r \in over THEN [now[r] EXCEPT !.stage = "closed"]
                            ELSE IF r \in set THEN Promise!New(0, FALSE, r)
                            ELSE now[r]]
      BY <1>3
<1> HIDE DEF now
<1>7. Promise!Close(over, set)
      BY <1>1, <1>2, <1>4, <1>5, <1>6 DEF now, Promise!Close, Promise!Is
<1> QED BY <1>4, <1>7 DEF Promise!Next

\* A delivered alarm is postponed: its rule has gone on with the next of its series.
LEMMA SnoozePromised ==
    ASSUME IInv, Accounts, SentSettled, SnapAcked, SnoozeWrite
    PROVE  Promise!Next
<1> DEFINE r == tap.row
           old == tap.snap
           assigned == SnoozedRow(old, tap.target)
           flushed == Flush(row[r], old, assigned)
           new == [flushed EXCEPT !.due = FALSE]
<1>0. tap.pc # "idle"
      BY DEF SnoozeWrite
<1>1. /\ row' = [row EXCEPT ![r] = new] \/ row' = row
      /\ job' = job /\ shown' = shown
      BY DEF SnoozeWrite
<1>2. /\ assigned.status = "snoozed" /\ assigned.lease = NoWorker /\ ~assigned.rule
      /\ assigned.occ \in Occurrence /\ assigned.rule \in BOOLEAN
      BY <1>0, ReadStands DEF SnoozedRow, Reminder, IInv, TypeInv, TypeOK, Callback
<1>3. row[r].rule = old.rule /\ row[r].rule \in BOOLEAN /\ row[r].occ \in Occurrence
      BY <1>0, ReadStands DEF Accounts, SnapOK, Reminder
<1> HIDE DEF assigned
<1>4. /\ flushed.status = "snoozed" /\ flushed.lease = NoWorker /\ flushed.rule = FALSE
      /\ flushed.occ \in Occurrence /\ flushed.series = row[r].series
      BY <1>0, <1>2, <1>3, ReadStands DEF Flush, Closed
<1>5. /\ new.status = "snoozed" /\ new.lease = NoWorker /\ new.rule = FALSE
      /\ new.occ \in Occurrence /\ new.series = row[r].series
      BY <1>4 DEF Flush
<1>6. r \in Row /\ row[r].status \in {"delivered"} \cup Closed
      BY <1>0, ReadStands
<1> HIDE DEF flushed, new, r
<1>7. CASE row' = [row EXCEPT ![r] = new]
      BY <1>1, <1>5, <1>6, <1>7, PostponePromised DEF Waiting
<1>8. CASE row' = row
      BY <1>1, <1>8, RestPromised
<1> QED BY <1>1, <1>7, <1>8

LEMMA DonePromised ==
    ASSUME IInv, Accounts, SentSettled, SnapAcked, DoneWrite
    PROVE  Promise!Next
<1>0. tap.pc # "idle"
      BY DEF DoneWrite
<1>1. PICK r \in Row : r = tap.row /\ row[r].status \in {"delivered"} \cup Closed
      BY <1>0, ReadStands
<1> DEFINE old == tap.snap
           new == Flush(row[r], old, ResolvedRow(old))
<1>2. /\ row' = row \/ (old.status # "resolved" /\ row' = [row EXCEPT ![r] = new])
      /\ job' = job /\ shown' = shown /\ row \in [Row -> Reminder]
      BY <1>1 DEF DoneWrite, IInv, TypeInv, TypeOK
<1>3. /\ ResolvedRow(old).status = "resolved" /\ ResolvedRow(old).occ = old.occ
      /\ ResolvedRow(old).rule = old.rule
      BY <1>0, ReadStands DEF ResolvedRow, Reminder
<1>4. /\ old.status # "resolved" => new.status = "resolved"
      /\ new.occ = row[r].occ /\ new.rule = row[r].rule /\ new.series = row[r].series
      BY <1>3 DEF Flush
<1> HIDE DEF new
<1>5. CASE old.status # "resolved" /\ row' = [row EXCEPT ![r] = new]
  <2>1. /\ row'[r] = new /\ new.status \in Closed
        /\ \A s \in Row : s # r => AlarmOf(s)' = AlarmOf(s)
        BY <1>1, <1>2, <1>4, <1>5, Stands DEF Closed
  <2>2. CASE row[r].status = "delivered"
    <3>1. Ends(r)
          BY <1>4, <2>1, <2>2 DEF Ends
    <3> QED BY <1>2, <2>1, <3>1, ClosePromised DEF Remains
  <2>3. CASE row[r].status \in Closed
    <3>1. Stage(r)' = Stage(r)
          BY <1>1, <2>1, <2>3, StageIs, StageWillBe
    <3>2. Remains(r)
          BY <1>4, <2>1, <3>1 DEF AlarmOf, Remains
    <3> QED BY <1>2, <2>1, <3>2, ClosePromised DEF Remains
  <2> QED BY <1>1, <2>2, <2>3
<1>6. CASE row' = row
      BY <1>2, <1>6, RestPromised
<1> QED BY <1>2, <1>5, <1>6

\* A closed alarm of a task keeps its time, and it has no rule.
LEMMA ClosedEnds ==
    ASSUME IInv, NEW t \in Task, NEW status \in Closed, NEW read, Current(t, read),
           NEW r \in AlarmsOf(t), row'[r] = CloseAlarms(t, status, read)[r]
    PROVE  Ends(r)
<1> DEFINE assigned == [read[r] EXCEPT !.status = status, !.sent = TRUE, !.lease = NoWorker]
<1>1. r \in Row /\ Exists(r) /\ ~row[r].rule
      BY RemindersAssumption DEF AlarmsOf, Unclosed, Waiting, Exists, IInv, TaskAlarmOK
<1>2. \A s \in AlarmsOf(t) : read[s] \in Reminder
      BY DEF Current
<1>3. CloseAlarms(t, status, read)[r] = Flush(row[r], read[r], assigned)
      BY <1>1 DEF CloseAlarms
<1>4. assigned.occ = read[r].occ
      BY <1>2 DEF Reminder
<1> HIDE DEF assigned
<1>5. row'[r].occ = row[r].occ
      BY <1>3, <1>4 DEF Flush
<1>6. row'[r].status \in Closed
      BY <1>1, ClosedColumns
<1>7. row'[r].rule = row[r].rule /\ row'[r].series = row[r].series
      BY <1>1, <1>2, CloseType
<1> QED BY <1>1, <1>5, <1>6, <1>7 DEF Ends

LEMMA ClosesOne ==
    ASSUME IInv, NEW t \in Task, NEW status \in Closed, NEW read, Current(t, read), job' = job,
           NEW r \in Row, row'[r] = CloseAlarms(t, status, read)[r]
    PROVE  Ends(r) \/ Remains(r)
<1>1. CASE r \in AlarmsOf(t)
      BY <1>1, ClosedEnds
<1>2. CASE r \notin AlarmsOf(t)
  <2>1. row'[r] = row[r]
        BY <1>2, ClosedColumns
  <2> QED BY <2>1, Stands DEF Remains
<1> QED BY <1>1, <1>2

LEMMA ClosesPromised ==
    ASSUME IInv, NEW t \in Task, NEW status \in Closed, NEW read, Current(t, read),
           row' = CloseAlarms(t, status, read), job' = job, shown' = shown
    PROVE  Promise!Next
<1>1. \A r \in Row : Ends(r) \/ Remains(r)
      BY ClosesOne
<1> QED BY <1>1, ClosePromised

LEMMA CompletePromised ==
    ASSUME IInv, NEW t \in Task, NEW read, Current(t, read), Complete(t, read),
           job' = job, shown' = shown
    PROVE  Promise!Next
<1>0. "resolved" \in Closed
      BY DEF Closed
<1>1. CASE row' = CloseAlarms(t, "resolved", read)
      BY <1>0, <1>1, ClosesPromised
<1>2. ASSUME NEW next \in Task, NEW n \in Row, ~Exists(n),
             row' = [CloseAlarms(t, "resolved", read) EXCEPT ![n] = NewReminder(n, 0, FALSE, next)]
      PROVE  Promise!Next
  <2> DEFINE closed == CloseAlarms(t, "resolved", read)
             new == NewReminder(n, 0, FALSE, next)
  <2>1. closed = [r \in Row |-> closed[r]]
        BY DEF CloseAlarms
  <2> HIDE DEF closed, new
  <2>2. row' = [closed EXCEPT ![n] = new]
        BY <1>2 DEF closed, new
  <2>3. \A r \in Row : row'[r] = IF r = n THEN new ELSE closed[r]
        BY <2>1, <2>2
  <2>4. Begins(n)
        BY <1>2, <2>3 DEF new, Begins
  <2>5. ASSUME NEW r \in Row, r # n PROVE Ends(r) \/ Remains(r)
    <3>1. row'[r] = CloseAlarms(t, "resolved", read)[r]
          BY <2>3, <2>5 DEF closed
    <3> QED BY <1>0, <3>1, ClosesOne
  <2> QED BY <2>4, <2>5, ClosePromised
<1> QED BY <1>1, <1>2 DEF Complete, CompleteOnce, CompleteRepeat

LEMMA DoneTaskPromised == ASSUME IInv, Accounts, DoneTask PROVE Promise!Next
<1> DEFINE t == tap.snap.task
           read == [row EXCEPT ![tap.row] = tap.snap]
<1>1. /\ t \in Task /\ tap.pc = "done" /\ job' = job /\ shown' = shown
      /\ Complete(t, read) \/ row' = row
      BY DEF IInv, TypeInv, TapOK, DoneTask, Reminder
<1>2. Current(t, read)
      BY <1>1, SnapCurrent
<1>3. CASE Complete(t, read)
  <2> HIDE DEF t, read
  <2> QED BY <1>1, <1>2, <1>3, CompletePromised
<1>4. CASE row' = row
      BY <1>1, <1>4, RestPromised
<1> QED BY <1>1, <1>3, <1>4

LEMMA MovePromised ==
    ASSUME IInv, NEW t \in Task, NEW r \in Row, NEW occ \in Occurrence, MoveDeadline(t, r, occ)
    PROVE  Promise!Next
<1>1. /\ row[r] \in Reminder /\ job' = job /\ shown' = shown
      /\ row' = [row EXCEPT ![r] = IF Exists(r) THEN MovedRow(row[r], occ)
                                   ELSE NewReminder(r, occ, FALSE, t)]
      /\ Exists(r) => r \in AlarmsOf(t)
      BY DEF IInv, TypeInv, TypeOK, MoveDeadline, Movable
<1>2. CASE Exists(r)
  <2> DEFINE new == MovedRow(row[r], occ)
  <2>1. /\ new.status \in Waiting /\ new.lease = NoWorker /\ new.occ = occ
        /\ new.rule = FALSE /\ new.series = row[r].series
        BY <1>1 DEF MovedRow, Reminder, Waiting
  <2>2. ~row[r].rule
        BY <1>1, <1>2, RemindersAssumption DEF AlarmsOf, IInv, TaskAlarmOK
  <2> HIDE DEF new
  <2>3. row' = [row EXCEPT ![r] = new]
        BY <1>1, <1>2 DEF new
  <2> QED BY <1>1, <1>2, <2>1, <2>2, <2>3, PostponePromised
<1>3. CASE ~Exists(r)
      BY <1>1, <1>3, SetPromised
<1> QED BY <1>2, <1>3

LEMMA TaskPromised ==
    ASSUME IInv, NEW t \in Task,
           \/ CompleteTask(t) \/ CancelTask(t) \/ ReopenTask(t) \/ ClearDeadline(t)
           \/ \E r \in Row, occ \in Occurrence : MoveDeadline(t, r, occ)
    PROVE  Promise!Next
<1>1. CASE CompleteTask(t)
      BY <1>1, RowsCurrent, CompletePromised DEF CompleteTask
<1>2. CASE CancelTask(t) \/ ClearDeadline(t)
  <2>1. /\ "cancelled" \in Closed /\ job' = job /\ shown' = shown
        /\ row' = CloseAlarms(t, "cancelled", row)
        BY <1>2 DEF Closed, CancelTask, ClearDeadline
  <2> QED BY <2>1, RowsCurrent, ClosesPromised
<1>3. CASE ReopenTask(t)
      BY <1>3, RestPromised DEF ReopenTask
<1>4. CASE \E r \in Row, occ \in Occurrence : MoveDeadline(t, r, occ)
      BY <1>4, MovePromised
<1> QED BY <1>1, <1>2, <1>3, <1>4

LEMMA PromiseInit == Init => Promise!Init
<1> SUFFICES ASSUME Init PROVE Promise!Init
    OBVIOUS
<1>1. ASSUME NEW r \in Row
      PROVE  AlarmOf(r) = [stage |-> "none", at |-> 0, repeats |-> FALSE, series |-> r]
  <2>1. /\ row[r].status = "absent" /\ row[r].occ = 0 /\ row[r].rule = FALSE /\ row[r].series = r
        BY DEF Init, AbsentReminder, NewReminder
  <2>2. Stage(r) = "none"
        BY <2>1, StageIs
  <2> QED BY <2>1, <2>2 DEF AlarmOf
<1> QED BY <1>1 DEF Init, Promise!Init

\* Every step of Reminders is a step of the promise.
LEMMA AlarmsStep ==
    ~EarlyTaps /\ IInv /\ Accounts /\ Acked /\ Known /\ [Next]_vars
        => [Promise!Next]_(Promise!alarms)
<1> SUFFICES ASSUME IInv, Accounts, Acked, Known, [Next]_vars PROVE Promise!Next
    OBVIOUS
<1>1. CASE Create \/ \E w \in Worker : Deliver(w)
      BY <1>1, CreatePromised, DeliverPromised
<1>2. CASE Clock
      BY <1>2, ClockPromised DEF Clock
<1>3. CASE Crash \/ UNCHANGED vars
      BY <1>3, RestPromised DEF Crash, vars
<1>4. CASE TaskOperations
      BY <1>4, TaskPromised DEF TaskOperations
<1>5. CASE FinishTap
      BY <1>5, SnoozePromised, DonePromised, DoneTaskPromised DEF FinishTap, Acked
<1>6. CASE \E r \in Row : \/ DoneRead(r) \/ Retry(r)
                          \/ \E target \in Occurrence : SnoozeRead(r, target)
      BY <1>6, RetryPromised, RestPromised DEF DoneRead, SnoozeRead
<1> QED BY <1>1, <1>2, <1>3, <1>4, <1>5, <1>6 DEF Next, Buttons

\* When buttons wait for the record of the delivery, the rows, the loops, the buttons
\* and the operations on tasks together keep what Alarms promises: mark_sent counts an
\* alarm as told only after its message appeared, and hands a series over in one step.
THEOREM KeepsAlarms == ~EarlyTaps => (Spec => ImplementsAlarms)
<1> SUFFICES ASSUME ~EarlyTaps PROVE Spec => ImplementsAlarms
    OBVIOUS
<1>1. IInv /\ Accounts /\ Acked /\ Known /\ [Next]_vars => [Promise!Next]_(Promise!alarms)
      BY AlarmsStep
<1>2. Spec => [](Acked /\ Known)
      BY WhatIsKnown
<1> QED BY <1>1, <1>2, Invariance, AccountsKept, PromiseInit, PTL
        DEF Spec, ImplementsAlarms, Promise!Spec

=============================================================================
