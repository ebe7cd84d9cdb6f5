# A formal model of the DailyPlanner bot

DailyPlanner is a Telegram assistant for planning: a Python process on asyncio, PostgreSQL as the
only durable store, and a language model behind a queue.  This directory holds TLA+ modules of the
parts of it where order, failure and time matter, the configurations that let TLC explore them on
small instances, and proofs, checked by TLAPS, of what must hold on every instance.

    tlc -config MCReminders.cfg MCReminders.tla      # any .cfg with the MC module of its name
    tlapm RemindersProofs.tla                        # any module named *Proofs

`PROJECT.json` says, for each definition, which lines of the code it stands for; for each run, what
it asks; for each property, a plausible mistake in the code (a *mutant*) that it catches; and it
lists the hazards of the code with the properties that would catch them.  Paths below are relative
to the root of the repository.

## 1. The system

### How it runs

One process (an advisory lock in PostgreSQL keeps a second one out, and a maintenance operator
replaces it) runs one event loop.  In it:

- aiogram delivers Telegram updates to **handlers**, each update in a coroutine of its own.  The
  dispatcher is built with `SimpleEventIsolation` (`src/bot/main.py:193`), so that the updates of one
  user, messages and buttons alike, are handled one at a time; the pipeline of a text message takes an
  in-process lock per user besides (`src/bot/handlers/messages.py:225`).  What interleaves with a
  handler is the loops, the worker, the clock and a crash, never another handler of the same user.
- **background loops** (`src/bot/runtime/background.py:77`) wake up every 30 s (reminders, outbox),
  60 s (digest, memoir, chronometry, task reminders, weekly review), 5 min (sweep, health) or
  hour (backup, reindexing, retention); `_run_periodic` restarts an iteration after any exception.
- one **worker** runs the calls to the language model by priority.

Handlers and loops share the database, at READ COMMITTED, and a few dictionaries in memory.
Messages out (`send_message`) may be refused, may be accepted with the answer lost, and may take
longer than any lease.

### Inventory

| component | state it keeps | operations | what is hard about it | what makes it correct |
|---|---|---|---|---|
| reminder rows and their senders (`db/crud/reminders.py`, `scheduler/reminders.py`, `scheduler/sweep.py`) | rows of `reminders`: status, lease, back-off, attempts, series | claim, check, send, mark sent + next occurrence, record failure, retry | two loops on the same rows; send between two transactions; lease lapses; crash after the send | a due alarm is settled; repeats have a cause; one live occurrence per series; a late sender overwrites nobody |
| buttons under an alarm (`handlers/callbacks.py`) | none; the row they read earlier | done, snooze, tomorrow, retry | unlocked read-modify-write races with the sender, only changed columns are flushed | a postponed alarm comes; a series goes on |
| task closing (`services/tasks.py`) | task status, next task, bound alarm | complete, cancel, reopen, move or clear the deadline | closes alarms a sender is working on | only sends already past their check arrive late |
| delivery outbox (`services/delivery.py`) | batch with lease, back-off, expiry; parts | ensure, claim, read, send, record, fail, complete, resume, expire | a message of several parts shared by several workers over several runs | in order, whole, one text, settled in the end |
| delivery producers (`scheduler/digest.py`, `memoir.py`, `task_reminders.py`, `weekly_review.py`) | "sent today" markers | build a text, deliver, mark | the text changes from minute to minute | marked only when delivered |
| request journal (`handlers/messages.py`, `services/command_execution.py`, `handlers/request_retry.py`) | row of `processed_requests`: status, plan, results | claim, plan, execute or replay each action, finish, list, retry, abandon | redelivery, retry buttons, lost commits and statuses, a crash in the middle | no effect twice, none without consent, nothing unfinished forgotten |
| LLM queue (`llm/queue.py`) | priority queue, futures, worker | submit with a timeout, run, skip, start, stop | two cancellations meet in one await | one request at a time; nobody waits for ever |
| interaction states (`db/crud/interaction_states.py`, `services/interactions.py`, `handlers/voice.py`, `handlers/chronometry.py`, `scheduler/chronometry.py`, `scheduler/memoir.py`) | one dialogue slot per user, with token and time to live; flags in memory | claim, transition, clear, recover | the memory flag and the row disagree; expiry during a dialogue; restart | an answer goes to the question that is open; nobody closes another's dialogue; a restart leaves no dialogue stuck |
| task, project and frog rules (`db/crud/tasks.py`, `projects.py`, `trips.py`, `application/task_creation.py`) | tasks, projects, trips; a project's tasks in a saved plan | create or enrich, promote a frog, complete, cancel, reopen, delete, close a project, start and end a trip | buttons as old as the chat; partial unique indexes; a plan carried out later | one frog, one trip, one occurrence of a series; a closed project stays quiet; an old button harms no closed task |
| singleton lease (`runtime/singleton.py`, `main.py`) | advisory lock of a connection | acquire, watch, shut down, release last | a lost session while the loops go on | two writers only after a loss, and then not for long |
| deployment and installation (`operations/maintenance*.py`, `src/platform/macos/install.sh`, launchd) | journal on disk, `deploy.lock`, the LaunchAgent and its persistent switch, two databases | stop, freeze, snapshot, verify, migrate, validate, admit, go back; install, roll back; recover | each step may fail before or after its effect, be interrupted, or die with the host | the downtime holds; nothing accepted is lost by going back; no way back after traffic |
| onboarding, privacy, consent (`handlers/onboarding.py`, `handlers/privacy.py`, `privacy.py`, `llm/client.py`) | dialogue step and its data; the user's row with the choice; a health flag in memory | the steps, the choice under them and under `/privacy`, `/settings`, `/cancel`, begin again; a call with retries and fallback | a handler saves in several transactions; old buttons and old answers; other providers after a restart | nothing goes to a provider that was not accepted; a dialogue stands on what is saved; a no stays a no |
| backup and its alarm (`scheduler/backup.py`, `observability.py`) | archives on disk, the success marker, the alert's throttle | dump, checksum, mark, rotate, drop; alert | kill and cancellation between two steps; a rotation that fails half way; other jobs that take for ever | a recovery point stays, but for a rotation that fails; its loss is told; a backup is not delayed |
| indexing of memoirs (`scheduler/reindex.py`, `db/crud/memoir.py`) | embeddings beside the texts | read a batch, ask for consent, send, save, commit; edit a text | edits and withdrawal during a batch; an unlocked read beside an uncommitted write | a vector belongs to the text it stands by, but for one order; a withdrawal stops the batch |
| routing, lists and searches, administration, the dispatcher's translation of tool calls, prompts, formatters, speech to text, export, configuration | (nothing durable of their own) | | text recognition and presentation | not a matter for TLA+ |

All but the last are modelled, wholly or in part; `PROJECT.json` lists every component with its
files, its status and what is left out of it, and section 7 sums that up.

## 2. The modules

    Outbox      ◁─ Delivery  ── DeliveryProofs      Profile      ── ProfileProofs
    Alarms      ◁─ Reminders ── RemindersProofs     Planner      ── PlannerProofs
    Undertaking ◁─ Requests ┐                       Interactions ── InteractionsProofs
                            ├── RequestsProofs      Deploy       ── DeployProofs
    Service     ◁─ LLMQueue ┘                       Backup, Indexer ── BackupProofs
    MC<module>.tla + .cfg : instances for TLC;  MCMessage: Requests and LLMQueue,
    MCHost: Deploy, Backup and Indexer, each in full while the others rest

The module on the left of `◁─` is the promise, the one on the right keeps it: it instantiates the
promise with its own state, read through a mapping, and states the promise's specification as a
property.  TLC checks the four refinements on the instances of section 3, and the modules *Proofs*
prove them for all.

Common rules of translation:

- A transaction that locks its rows first is **one step**.  What is read in one transaction and
  used in a later one is kept in the variable of the reader (`job`, `tap`), and everybody else may
  act in between.  A network call is a step of its own between two transactions.
- **Time is abstract**: that a lease lapses, a back-off ends, an alarm comes due or five minutes pass
  are steps that may happen at any moment they are possible.  No property depends on how long
  anything takes.
- Where a module models handlers of one user, `Isolated` is the dispatcher's promise: an update is
  taken up only when no other update of the user is being handled.
- **Faults** (crash, lost answer, database error, a lease lost at work) and, in Reminders, the user's
  taps are `Event`s; `MaxEvents` bounds their number in a run.  Nothing else limits their order.
- **History variables** record what no column records (how often the chat showed something, how often
  an effect was committed).  No guard reads them.
- Operators marked *Mutant* are mistakes used only to test the properties.

### Reminders

`row[r]` is a row of `reminders`.  `remind_at` and `occurrence_at` are always assigned together, so
`occ` stands for both: a point of the series' grid, or `OffGrid` for a time no recurrence reaches.
`lease`/`live` are `lease_token`/`lease_until`, `backoff` is `next_attempt_at`.  `job[w]` is a sender
loop with its batch of claims, `tap` the user's callback between its read and its write.

| action | code |
|---|---|
| `Claim`, `Check`, `SendOk/Refused/Ambiguous` | `claim_due_reminders`, `claim_is_active`, `_deliver_claim` |
| `MarkSentOnce/Repeat/Conflict/Stale/DbError` | `mark_sent`: the early return, a single alarm, the next occurrence in the same transaction, the unique index, an error |
| `RecordFailure`, `RecordFailureLost` | `record_delivery_failure` |
| `SnoozeRead`/`SnoozeWrite`, `DoneRead`/`DoneWrite`/`DoneTask` | `snooze_reminder`, `cb_snooze_done`, `resolve_reminder` |
| `Retry`, `CompleteTask`, `CancelTask`, `ReopenTask`, `ClearDeadline`, `MoveDeadline` | `retry_failed_reminder`, `services/tasks.py` |

`Alarms` is the promise: an alarm is none, waits, is heard (its message appeared and the loop that knows
may still record it), told, failed or closed.  It counts as told only out of "heard"; a recurring one is
told and followed by the next of its series in one step, and no other step takes it out of the series.  A
message may appear more than once, and what was heard may be forgotten (a crash, a lost lease, an error of
the database), which puts the alarm back to waiting, never to told.  The mapping reads the stage from the
status (`Stage`), "heard" from the loops and their leases (`Heard`), and passes time, rule and series on
(`AlarmOf`).

The interesting detail is `Flush`: the ORM writes only the columns whose value differs from the one
its session *read*, so a callback that read an old row overwrites some columns and not others.  Two
of the findings come from that and from the order of `mark_sent`.

### Outbox and Delivery

`Outbox` is the promise: parts are told in order, each only after the earlier ones are known to have
been shown; the message is delivered when all are, or is dropped.  `Delivery` is `services/delivery.py`
for one batch (batches with different keys share no row): `batch`, `part[p]` are the two tables,
`job[w]` a worker inside `_deliver_existing_batch`.  Producers call it with the text they have just
built (`Call`), the outbox loop with what is left over (`Resume`); `marked` is the producer's marker.
`ImplementsOutbox` is the refinement, with the stage, the parts told and the parts recorded as the
abstract state.

### Requests

One message, or one confirmed voice transcript, of one user, whose plan has `N` actions.  `row` is
its row in `processed_requests`; `results` are the keys of `action_results`.  `job` walks through
`process_text_message`: claim the row, look at consent, interpret or resume the plan, run the actions,
finish.  An action of `Project` has two effects, the project and its tasks, with the LLM's cut
(`prepared_project`) saved between them.

`Arrive` is the message, or the voice command; after a crash the text is redelivered (the update's
offset was not confirmed) and the voice command can be confirmed again, as it can after a failure.
`RetryRequest` and `AbandonRequest` are the buttons of `/retry`.  `CommitAmbiguous` is a commit that
succeeds while its answer is lost.  What happens before a plan exists (routing to dialogues, rules,
the model) is `InterpretWithoutPlan`, with whichever of the four outcomes it ends in, or `PersistPlan`.
`LateHandIn` says whether a message may be handed in again without consent while actions of its plan are
left: the code lets it, and loses the plan then (the run `request_refusal`); the run `message` and the
theorems about open plans exclude it.  `execute_action` holds the row from its checks
to its commit, so it is one step; the reads of consent and of the saved plan are one step because
nothing between them depends on their order.

`Undertaking` is the promise: a message is new, answered, or open with a plan; an open plan is carried out
part by part, with consent only and no part twice, a project's tasks by one cut of a project that exists;
it stays open for want of consent, ends whole ("carried out") or given up by the user, and never begins
again.
The mapping: `Stage` reads the status, the plan and the journal; `Carried` and `Tasked` are the history of
effects, `CutUp` the saved cuts.  A plan that is open in a row put down as completed is "discarded", which
the promise does not know: with `LateHandIn` the code leaves the promise there.

### LLMQueue

A step is what the event loop does between two awaits.  `caller[r]` is `submit`, `future[r]` and
`coro[r]` its future and coroutine, `unfinished` the counter behind `join()`.  A timeout cancels the
future and with it the running coroutine, which *takes a while to unwind* (`cancelling`); that is
where the second cancellation, of `stop()`, can arrive.  `Timeout` merges the two callbacks of the
event loop that pass it on (a caller that is itself
cancelled while it waits is not modelled), `CancelWorker` stands for "drained" as well as for "thirty seconds are
over".  Requests submitted after `stop()` returned are closed by nobody; `NothingLeftBehind` says so.
The definitions `QueueInit`, `QueueNext`, `QueueSpec` carry the component's name because one module of
proofs extends both this module and Requests.

`Service` is the promise to the callers: who finds room stands in line, the most urgent in line is served
next and nobody beside it, nobody is served who has left, an answer comes from a service that is over,
only a service that closes turns anybody away, and once it is closed nobody is served.  The mapping: `Call`
joins the caller, its future and its place, `AtWork` is the set of coroutines that still run, `Door` is how
far `stop()` has come.

### Interactions

The dialogue slot of one user is `slot`, the row of `interaction_states`: type, session token,
whether its payload names a message, and whether it is still `live`.  Beside it stands `flag`, the
dictionary `_awaiting_response`.  Three actors use them, each a small program counter of its own:

| actor | code | steps |
|---|---|---|
| `prompter` | `_send_prompt` of `scheduler/chronometry.py`, under its lock, so that the loop and `/chrono_ping` are one | `Ask` (flag and row are looked at), `AskClaim`, `AskSend`, `AskRecord`, or `AskClear` |
| `memoirist` | `send_memoir_prompts` | `MemoirClaim`, `MemoirDeliver`, `MemoirRecord`, `MemoirMark`, or `MemoirClear` |
| `job` | the handler of the user's update | a voice message (`VoiceMessage` … `VoiceRecord`), its buttons (`Confirm`, `Edit`, `Dismiss`), `/cancel`, and a text through the pipeline (`Text`, `Route…`, the answer, `EndEdit`, `EndVoice`) |

`Claim`, `Transition` and `Clear` are the three operations of the table.  A token stands for one run
of a dialogue; the token of the memoir question is a hash of the day, so the same question claims the
slot again with the same token.  The order in which the pipeline tries its routes is not modelled: a
text may take any route whose condition holds, which covers what its wording and its reply decide.
`buttons` are the voice transcripts with a keyboard under them: editing a message removes it, and the
edit may fail or be lost (`MayHide`).  `Expire` may strike between any two steps.

The answer to a chronometry question is the delicate part: `process_chronometry_response` writes the
entry and closes the question in one transaction, and its `except` branch, which runs after any error,
also one of the commit, writes a fallback entry under the same condition.  Without a token (the flag
alone said that a question is open) neither transaction checks anything.

### Planner

One step is one handler: the updates of a user are isolated and a change is one transaction, so
nothing comes between the read and the write of a task.  The difficulty is age.  `chat` holds the
buttons that are still in the chat; `Press` takes one that may have been shown any time ago, and
leaves it there when the edit of the message fails.  A phrase may name any task the code would
accept, so the recognition of titles is a choice.

| action | code |
|---|---|
| `ShowFrog`, `SetFrog`, `FrogDone`, `TaskDone` | `cmd_frog`, `cb_set_frog`, `cb_frog_done`, `cmd_done`, `cb_task_done` |
| `ReviewCancel`, `ReviewTomorrow`, `DeleteYes` | the evening review's buttons with `expected_status`, the confirmed deletion |
| `CreateTask`, `EnrichTask` | `execute_create_task` for a new title and for one an open task has |
| `Complete`, `Occurrence`, `Reopen`, `Cancel` | `complete_task_workflow`, `update_task_workflow`, `cancel_task_workflow` |
| `UpdateTask` | `_handle_update_task`: fields first, then the status; the unique index refuses a second frog |
| `CreateProject`, `SaveTasks`, `CompleteProject`, `ProjectYes` | the project, the cut saved in the plan and carried out then or by a later `/retry`, its closing |
| `TripOn`, `TripOff`, `ShowTrip`, `Day` | `handlers/trip.py`, `crud/trips.py`; the day also moves backwards, with the user's time zone |

`series` and `revived` are history: the first occurrence a row descends from, and that it was opened
again in a closed project, which the code allows.

### Deploy

Four actors work on a host: the maintenance operator (`op`), the installer (`install`), launchd
(`enabled`, `loaded`, `plist`) and the processes of the bot (`proc`), the one launchd keeps alive and
one a person starts by hand.  `journal` is `maintenance.json`, `lock` the directory `deploy.lock`.
A database is the number of updates it has accepted and its schema.  `op.pc` walks through
`_deploy`, `_restore` and `_activate` in the order of the code; `Fail` strikes before or after the
effect of any step, `Interrupt` is a cancellation (which the code does not treat as an exception),
`Reboot` ends every process and keeps the files and launchd's switch, and `Killed`, `LoseSession`
and `LoseLease` are a process and a database session that die.  The bot's own part is the lease:
`Run` takes it or gives up, `Watch` finds it gone, `Exit` ends polling and jobs before it is released.
What a migration, a dump or `launchctl` does inside is reduced to its effect.  Two details are left out:
`Activate` releases the operator's lease together with the replacement of the plist (the code does it just
before, `maintenance_deploy.py:184`), and `Switch` contains neither the installer's own migration
(`install.sh:281`) nor the roll-back to a release with a compatible schema.

### Profile

`db` is what is saved about one person, the user's row and the dialogue's state and data, each with a
transaction of its own: a handler lists the saved states it goes through, and `Saves` lets the
process die after any but the last.  `offers` are the fingerprints on accept buttons of any age,
`recipients` the fingerprint of the running configuration, which `Restart` may change.

| action | code |
|---|---|
| `Start`, `Resume` | `cmd_start`, `_resend_current_step` |
| `OnbPrivacyAccept`, `OnbPrivacyDecline`, `PrivacyEnable`, `PrivacyDisable`, `CmdPrivacy` | `handlers/onboarding.py:114`, `handlers/privacy.py` |
| `Name`, `Zone`, `Digest`, `Work`, `WorkSkip`, `TypeInstead`, `Concepts`, `FirstTask` | the steps of the registration; `FirstTask` with `complete_onboarding` |
| `SettingsZone`, `SettingsZoneText`, `Set` | `/settings` |
| `Cancel`, `LocalCommand` | `handlers/local_commands.py`; a local command may be delivered twice |
| `Text`, `Retry`, `Fallback`, `CallEnds`, `HealthCheck` | `LLMClient.chat` with the consent asked before each attempt |

A text that is no local command and that no dialogue step waits for is a call, whatever the pipeline
makes of it.  `Reached` is the order of the routers: the open question of `/settings` takes every
command but `/privacy` as its answer.

### Backup

The backup of a day is `StartBackup`, `Publish`, `Checksum`, `Mark` or `MarkFails`, and `Rotate`.  Archives
are numbered in the order of their names, and carry the day they were written.  A backup may last over one
slot, not over two (the dump has a time limit).

| action | code |
|---|---|
| `BackupFails` | the dump, its compression or the checksum fails; the archive is `Dropped` with its checksum |
| `Rotate`, `RotateFails` | `_rotate_backups`, inside the `try` of `run_backup`: it stats and unlinks file by file, the newest expired archive first and its checksum before it, and may raise at any of them.  `CutShort` is what it may leave; then the archive just made is `Dropped` like that of any failed backup |
| `StopJobs` | cancellation: the archive of the running backup is dropped, also when only the read-back of the marker was awaited |
| `KillJobs` | no cleanup at all; in the middle of a rotation, what `CutShort` leaves |
| `Alert`, `HourPasses` | the health job with its throttle; it looks at the age of the marker *and* at the file the marker names |
| `Begin`, `End` | indexing and retention at work, perhaps for ever, beside the backup |

`torn` is history: since the last backup that succeeded, a rotation raised after it had begun to delete.

### Indexer

One record with its text and the text its vector was made of; `batch` is the indexer at work, `editor` the
handler that writes the answer to the memoir question over an earlier one.  The indexer reads a batch under
the person's consent (`ReadBatch`), asks for it again before each record (`CheckConsent`), sends the text
(`SendText`; the answer to the check may be older than a withdrawal) and writes the vector where the text
is still the same (`Embedded`).  Written is not committed: `GoOn` goes to the next record with the row
locked and the vector invisible, `CommitTenth` and `EndBatch` commit, `EmbeddingFails`, `BatchFails` and
`ProcessEnds` lose what was written.

The editor reads the row without a lock (`ReadEntry`) and has the ORM write what differs from that copy
(`WriteEntry`, the same rule as `Flush` in Reminders): `embedding = None` on a copy that has no vector is
no change and is not written.  It waits for a row the indexer has written and not committed.  `overtaken`
is history: a vector was committed between the read and the write of an edit.

## 3. The runs

| run | instance | what it shows |
|---|---|---|
| `reminders` | 2 rows, 2 tasks, 2 loops, 2 events; 343 302 states up to symmetry | `SingleBranch`: a series never forks; `RepeatsAreExplained`: a message is repeated only after a fault or a new activation; `OnlyInFlightArrivesLate`; `SenderRespectsOwner` |
| `reminders_acked` | 2 rows, no tasks, 2 loops, 4 events, buttons only after the record; 101 123 states, fair | `SeriesContinues`, `SnoozeKept`, `DueIsSettled`, and that Reminders implements Alarms |
| `reminders_early_done` | 2 rows, one loop, one event, buttons as soon as the chat shows the alarm | **violated** (`SeriesContinues`): "done" before `mark_sent` ends the series |
| `delivery` | 2 parts, 2 texts, a producer and the outbox loop, 3 faults; 213 340 states, fair | `WholeAndOneText` (types, in order and whole, never two texts mixed), `RepeatsAreExplained`, `SettledOnce` (a settled batch stays so, and every batch is settled), and that Delivery implements Outbox |
| `message` | the journal: two plain actions with a project between them, 3 faults, nothing handed in again without consent while a plan is open; the queue: 3 requests, 2 priorities, 2 places; 36 366 states together, fair | `EffectsOnce`, `UnfinishedIsListed`, `UnfinishedComesBack`, and that Requests implements Undertaking (consent before every effect, tasks after their project, an open plan stays open); `QueueIsExact` (types, the counter behind `join()`, one request at a time), `NothingIsStuck` (every caller leaves, a stop leaves nothing behind), and that LLMQueue implements Service |
| `request_refusal` | the journal, with a voice command confirmed again without consent | **violated** (`UnfinishedIsListed`): the refusal for want of consent discards the saved plan |
| `interactions` | 2 chronometry questions, a memoir question, a voice command, a project dialogue, 2 faults, expiry; 1 734 046 states up to symmetry | `FlagAndRowAgree` (types and `FlagMatchesRow`), `NothingOrphaned`, `OnlyItsOwner`, `AnsweredOnce` |
| `planner` | 3 tasks, 1 project, 2 trips, 1 old button, a task or a trip at a time; 152 360 states up to symmetry | `OneFrogOneTrip`, `SeriesNeverForks`, `ClosedProjectIsQuiet`, `LateButtonsAreHarmless` |
| `host` | one deployment, its recoveries, the installer, a process of launchd and one by hand, 2 updates per database; 3 daily slots, 2 faults, stops or kills, archives kept one day; batches of 2 records, 2 texts; 156 888 states together, fair | `DowntimeIsKept`, `TwoWritersOnlyByLoss`, `NothingAcceptedIsLost`, `NoWayBackAfterTraffic`, `LostLeaseStops`; `RecoveryPointKept` (with the types), `LossIsNoticed`, `BackupIsNotDelayed`; `VectorsAreExplained` (types and `LateVectorIsDropped`), `WithdrawalStopsTheBatch` |
| `profile` | a newcomer or an old user, 2 sets of providers, a retry at each of two providers, one crash between two transactions; 1 248 936 states | `DialogueIsBacked` (types, created once, every step stands on what is saved), `EgressOnlyToAccepted`, `RegistrationIsHonest` (registered means asked, answers apply once) |
| `profile_refusal` | same, no crash, fair | **violated** (`RefusalHolds`): a refusal under `/privacy` is turned back by the name step |
| `backup_rotation` | 3 daily slots, one fault | **violated** (`RecoveryPointAlways`): a rotation that fails half way leaves no archive that can be restored |

`message` and `host` join modules that share no variable: an initial choice (`part`) says which of them
moves, and the others rest where none of their fair actions is enabled.  So the states and behaviours are the
sum of those of the modules, not a product, and each module is explored in full.

A property that joins several (`WholeAndOneText`, `SettledOnce`, `QueueIsExact`, `NothingIsStuck`,
`FlagAndRowAgree`, `OneFrogOneTrip`, `DowntimeIsKept`, `DialogueIsBacked`, `RegistrationIsHonest`,
`RecoveryPointKept`, `VectorsAreExplained`) is the conjunction of named ones in its module, each with a
comment of its own.

Six more configurations belong to disagreements that are not in the table, and are run by hand:
`MCRemindersSnooze.cfg`, `MCInteractionsFlag.cfg`, `MCInteractionsRecovery.cfg`, `MCLLMQueueStop.cfg`,
`MCPlannerFrog.cfg` and `MCIndexerEdit.cfg`.  TLC finds the one property each names violated; the list
below explains them.

Deadlock is not checked where the system really may stop: an alarm that was resolved, a batch that
is settled, a queue that was stopped, a planner whose rows are used up, a backup after its last slot
leave nothing to do.

### Why the bounds are enough

- *Two loops and one handler*: two loops are all the code has (reminders and sweep; a producer and the
  outbox), and isolation leaves one handler.  The proofs of section 5 hold for every number of
  loops, rows, parts, plans and dialogues.
- *Two rows* hold an occurrence and its successor (`MaxOcc` 1 or 2 gives the grid room for both and
  for a snooze onto the next one, which is the unique-index conflict).
- *Attempts* 2 instead of 5 or 8, *snoozes* 1 or 2 instead of 5: enough to reach the limit, and to
  be one before it.
- *Two parts*: the batch can be cut in the middle, which is where order and wholeness may break.
- *Events* 2 to 4: a fault, and one more fault while the code recovers from the first; in Reminders
  the user's taps count too, so 4 leaves two faults around a tap and its reaction.
- *Three actions*, the middle one a project: something is before it, and something is after it when
  the cut of the project fails or its commit loses its answer.
- *Two chronometry questions*: an old one and the newer one it must not be taken for; of the other
  kinds of dialogue one each, since any of them can take the slot from any other.
- *Three requests on two places*: two stand in line, so that the order by priority and age decides, and
  the third waits for a place or overtakes.
- *No tasks* in `reminders_acked`: the tasks' alarms are in the run `reminders`.  That closing and moving
  them keeps the promise of Alarms is proved, for any number of them.
- *Three tasks, one button*: an occurrence, its successor, and a task that takes the frog from either;
  two old buttons at once add no new state of the rows, since a press reads nothing but its own row.
  The constraint `Apart` leaves out states with both a task and a trip, since no step reads or writes
  both and either half sees every state it can be in.
- *Two trips*: an old one and the one that must not be opened beside it.
- *Two updates per database*: one before the snapshot and one after it, which is what going back
  would lose.
- *Two sets of providers, one crash*: the accepted one and another; a second crash only starts from
  a state the first one or a finished handler left.  (A crash-free handler may follow at any time.)
- *Three slots, retention of one day*: an archive may become older than the retention while the
  backup that would replace it fails, or is killed, twice.  Two archives may be there when a rotation
  begins, the expired one and the new one; the proof has any number of them.
- *Batches of two, two texts*: the edited record alone, before or after another one, written and not
  committed while the other is sent; and a text that is edited back.

### What the counterexamples say

1. `reminders_early_done`: `mark_sent` returns at its "already sent" test before it inserts the next
   occurrence.  If the user presses *Done* after the chat shows the alarm and before `mark_sent`
   commits, the recurring series ends (`src/bot/db/crud/reminders.py:91`).
2. `profile_refusal`: the choice a person makes in the registration is kept in the dialogue's data as
   well as in the row.  Who accepts, then refuses under `/privacy`, then gives a name, is turned back
   to yes: the name step writes the old choice over the row (`src/bot/handlers/onboarding.py:255`), and
   free text goes to the providers again.  A refusal is only saved when the row
   exists, so this takes a registration that was interrupted and begun again.
3. `MCRemindersSnooze.cfg`: `snooze_reminder` reads without a lock.  If `mark_sent` commits between its
   read and its write, the ORM leaves `is_sent` at the value `mark_sent` wrote: the alarm is snoozed and
   sent, and no loop picks it up, while the user was told the new time
   (`src/bot/db/crud/reminders.py:126`).
4. `MCInteractionsFlag.cfg`: a text is taken for the answer to a chronometry question when the flag in
   memory says that one is open, whatever the table says: after `/cancel` of the question the flag
   stays, and the next text, a confirmed voice command included, is recorded as a time entry
   (`src/bot/handlers/messages.py:569`, `src/bot/handlers/local_commands.py:43`).
5. `MCInteractionsRecovery.cfg`: a voice command cut short by a restart is put back to "to be
   confirmed", but confirming it had removed its buttons and nothing shows them again: it can only be
   cancelled, or expire (`src/bot/handlers/voice.py:322`, `src/bot/main.py:172`).
6. `MCLLMQueueStop.cfg`: the worker of the LLM queue swallows a cancellation when the caller's future
   is cancelled.  If `stop()` cancels it in that window, `stop()` waits for ever
   (`src/bot/llm/queue.py:103`).  The window is short: the coroutine of a timed-out caller must still be
   unwinding when `stop()` gives up on join.
7. `request_refusal`: a voice command whose plan failed half way can be confirmed again.  If the consent was
   withdrawn in between, the pipeline returns `REJECTED` and `_finish_request` puts the row, which has a plan
   and open actions, down as completed, because the run did not come from `/retry`
   (`src/bot/handlers/messages.py:254`): `/retry` does not show it any more, although
   `src/docs/PRIVACY.md:34-35` says that a privacy rejection does not discard a saved unfinished plan.
8. `backup_rotation`: the rotation runs inside the `try` of `run_backup`.  With one verified archive, older
   than the retention because none was made since, the next backup makes its own, the rotation
   removes the old one's checksum and raises, and the cleanup deletes the new archive: no verified archive is
   left (`src/bot/scheduler/backup.py:256`), against `src/docs/OPERATIONS.md:28-29`.  The marker names the
   deleted file, so the alarm follows, and the next backup repairs it.
9. `MCIndexerEdit.cfg`: `create_memoir_entry` reads the row before the indexer commits its vector and writes
   after it.  Its copy has no vector, so the ORM writes the text alone, and the new text keeps the vector of
   the old one; no later batch selects the row, because it has a vector (`src/bot/db/crud/memoir.py:33`,
   `src/bot/scheduler/reindex.py:56-66`).  The window is wide: commits come once per ten records.
10. `MCPlannerFrog.cfg`: an old "make it the frog" button of a task closed since says that the task is
   the frog now (`src/bot/handlers/commands.py:223`); the flag is set on the closed row, where it means
   nothing.

Some remarks are left without a run.  A text whose update was not confirmed to Telegram before a crash
is delivered again; within five minutes its row still says "processing" and the reply is "already
processed", although it may not have been (`src/bot/handlers/messages.py:307`, `:233`): the row cannot
tell a dead handler from a slow one.  And the comments at `src/bot/scheduler/digest.py:71` and `:85` call
the marker write-ahead ("до отправки"); the code writes it after the delivery is complete, which is the
order Delivery models and the one `DeliveredIsWhole` needs.

In the registration, every command but `/privacy` is taken as the answer to the open time-zone question of
`/settings`, `/cancel` included (`src/bot/handlers/commands.py:899`; the help at `:115` says that
`/cancel` leaves a dialogue); `/start` in the middle of typing a time zone sends nothing; after a crash
between completing the registration and clearing the dialogue the next text is taken as a first task
and dropped; and settings changed under `/settings` during a registration are written over by its end.
In the backup, a stop that arrives when the marker is committed and only its read-back is awaited
deletes the archive the marker names: the day counts as done without an archive, which is why
`LossIsNoticed` looks at the file as well as at the age.

Another remark: a database error when a failed voice command is put back leaves the row at
`voice_processing`, where `/cancel` refuses and no new voice message is accepted until it expires;
`NothingOrphaned` allows it as the work of a fault (`orphaned`), and the same of a flag or a row that the
prompter could not take back.

## 4. Fairness

- `WF(Deliver(w))`, `WF(Work(w))`, `WF(Resume(w))`: `_run_periodic` catches every exception of an
  iteration and sleeps, so a loop that can do something does it.  No fairness is assumed of producers
  (their hour may be over), of users or of faults.
- `WF(LeaseLapse)`, `WF(BackoffOver)`: time passes.
- `SF(PassCheck)` in Reminders: claims are served oldest first right after they are made; it cannot be
  that for ever the lease has lapsed by the time of the check.
- `WF(FinishTap)` in Reminders and `WF(Work)` in Requests: a coroutine that can run is run, and every
  await in it has a time limit.  `WF(Age)`: five minutes pass.
- Deploy: `WF(Watch(p))`, the lease is asked about on a timer, and `WF(Exit(p))`, a shutdown is joined.
  Nothing is assumed of the operator, the installer or the person who removes a lock.
- Profile: none for the safety properties; `FairSpec` adds that a call ends (each attempt has a time
  limit), so that the counterexample of `profile_refusal` is not one of a system that stands still.
- Backup: `WF(BackupJob)`, `WF(Alert)`, `WF(HourPasses)`: each job is a task that sleeps and wakes, whatever
  the last iteration raised.  `WF(Alert)` assumes that an alert is delivered at last.  Nothing is assumed of
  indexing and retention, which may be at work for ever.
- Indexer: none, its properties are safety.
- The joined runs add up the fairness of their modules.
- LLMQueue: the event loop runs what is ready, `asyncio.timeout` fires, and the client's own total
  timeout (`src/bot/llm/client.py`) ends every coroutine.

## 5. What is proved

Every safety property that a run checks, invariant or action property, is a theorem, and so are the
refinements of Outbox, Alarms, Undertaking and Service.  The proofs assume only the named assumptions on
the constants: sets are disjoint from their null values, bounds are natural numbers, `Worker` and
`Request` are finite, a project is an action of the plan.  Some theorems have a hypothesis of their own,
which a violated run shows to be needed: four of Reminders `~EarlyTaps`, two of Requests `~LateHandIn`.  A
listed theorem states a property of a run, with these exceptions: the type invariants of Reminders and
Requests; the inductive invariants (`Invariance`, `AccountsKept`, `WhatIsKnown`, `Agreement`,
`QueueInvariance`); `SettledStays`, the safety half of `SettledOnce`; and
`TasksFollowProject`, `ConsentIsAsked` and `StopIsQuiet`, which say of the detailed modules what the
promises imply, in the words of the code.

A refinement is proved step by step.  The mapping is a function of the state, so each action is shown to
be a step of the promise or to leave the promise's state alone; that its guard holds is what the
invariants are for, and three of the four needed one invariant more than the safety properties did.

Each proof has the same shape.  The property is strengthened to an inductive invariant, which TLC checks
first on the instance of the run; a lemma per group of actions shows that a step keeps it; and where many
actions do the same thing to a row, they are first reduced to that.

**RemindersProofs**, for any number of alarms, tasks and loops, rests on four invariants.

- `IInv` gives `TypeCorrect` and `SeriesNeverForks` (`SingleBranch`).  `SingleBranch` is not inductive:
  that a snooze does not revive a second branch depends on what the callback *read*.  The invariant adds:
  rows in flight exist; the copy a callback holds still has the rule if the row has it (`TapOK`); a series
  is named after an existing row; a task's alarm never repeats by itself; a failed recurring alarm is not
  marked sent.  Each action is first reduced to what it does to rows (`Rows`: an existing row is `Kept`,
  a new one `Inserted`), and the invariant is proved once from `Rows`.
- `Accounts` gives `NoIdleRepeat` (`RepeatsAreExplained`), `OnlyTheWindow` (`OnlyInFlightArrivesLate`) and
  `OldSenderYields` (`SenderRespectsOwner`).  That the books of messages never go below zero is not
  inductive, since a send that is under way will be entered whatever happens.  So a row is charged in
  advance for every loop past its check (`Senders`) and for the one that may still get there
  (`Sendable`): `Cost` never exceeds the allowance (`Covered`), and a closed alarm has its senders in the
  window (`Counted`).  What a callback may overwrite depends again on the copy it read (`SnapOK`), and a
  closed alarm is always marked sent, so that none is claimed.
- `Acked` gives `SeriesGoesOn` (`SeriesContinues`) and `PromiseKept` (`SnoozeKept`) when buttons are used
  only after the delivery was recorded, `~EarlyTaps`.  The hypothesis is that of the run `reminders_acked`
  and is needed: `reminders_early_done` and `MCRemindersSnooze.cfg` show either property violated without
  it.  Under it a callback works on a row it read as sent (`SnapAcked`), nobody leases a sent row
  (`SentSettled`), and an alarm whose new time was promised waits unclaimed (`PromiseOK`).
- `Known` (`WhatIsKnown`) gives, with the other three, `KeepsAlarms` (`ImplementsAlarms`): only an alarm
  that waits is leased, a delivered one is marked sent, and the message a loop is about to record has
  appeared.  So the row `mark_sent` writes is at the stage "heard", and the record is the promise's.  Steps
  of the loops that write no outcome only forget (`Fades`): a lapsed lease is still the lease of its loop,
  a claim by the other loop, a crash or an error takes rows from "heard" back to "waiting" and none the
  other way.  Without `~EarlyTaps` TLC refutes the refinement: a snooze whose row was claimed again between
  its read and its write gets its new time with the old message still about to be recorded for it, which
  `mark_sent` then counts as told; and an early snooze or *Done* changes a recurring alarm that has not
  handed its series over.

**DeliveryProofs**: `DeliversWhole` (`WholeAndOneText`), `RepeatsHaveFaults` (`RepeatsAreExplained`),
`SettledStays` and `KeepsItsPromise` (`ImplementsOutbox`), for every number of parts, workers, texts and
faults.  What a batch says is true only because of what its workers know: the one with the live lease has
exactly the pending parts before it, and one that lost it at least those (`JobInv`); and the chat has seen
a part only when the earlier ones are recorded (`InOrder`).  Repeats are counted as in Reminders, in
advance: a worker that may send once more after its lease was lost (`Stale`), and a part that is shown,
not recorded and in nobody's hands (`Exposed`), have their faults already (`Paid`).  For the refinement
each action is mapped to a step of Outbox: a send tells the next part or repeats one, a record keeps it,
`Complete` delivers, and the rest stutter; the guards of Outbox are what `InOrder` and `JobInv` say.

**RequestsProofs**, the journal: `TypeCorrect`, `EffectsHappenOnce`, `TasksFollowProject`,
`ConsentIsAsked` and `UnfinishedStaysListed`, for every plan and any number of faults.  The invariant: the
phases of a project before the one the handler is at are in the journal (`InPhase`); a handler to which
nothing has happened has every action behind it done, and at its finish all of the plan (`InProgress`);
both survive any growth of the journal (`GoodJobGrows`).  `UnfinishedStaysListed` rests on the second and,
since a refusal for want of consent counts as completed, on `Invited`: a handler at work while the plan is
open was started from `/retry` or has the consent, which is where `~LateHandIn` is used.  `Agreement` is
what a handler and its row agree on: past the claim the row says "processing" and is not abandoned, a plan
is pursued only with consent, which cannot change while the handler works, and who was turned away had
none or no plan.  From it follow `ConsentIsAsked` and, with the journal's invariant, `KeepsUndertaking`
(`ImplementsUndertaking`, under `~LateHandIn`): an effect is a part of a plan that is under way, a commit
whose answer is lost has carried it out all the same, and the finish settles the message as what the
journal says it is.

**RequestsProofs**, the queue a request passes on its way to the model: `QueueStaysExact` (`QueueIsExact`)
and `StopIsQuiet` (once stopped, no coroutine runs), for any number of callers, priorities and places. One
request at a time is not inductive: a coroutine that is unwinding must be known to be the one the worker
still waits for (`AtWorker`), and one in the queue not to have begun (`Untouched`), or the worker could
start it beside another. The same two facts make `task_done` and the places of the queue add up.
`KeepsService` (`ImplementsService`) needs besides what the futures say (`FutureInv`): a future is settled
when its caller has left, one that still waits with its future cancelled means that the queue was stopped, a
request in the queue has no answer, and nothing is interrupted or cancelled under a waiting caller before
`stop()` began. That is why only a stop turns anybody away, whichever of the two cancellations comes first.

**InteractionsProofs**: `FlagAgrees` (`FlagAndRowAgree`), `NothingIsOrphaned` (`NothingOrphaned`),
`OnlyOwnersClose` (`OnlyItsOwner`) and `OneAnswer` (`AnsweredOnce`), for any number of dialogues of each
kind and any number of faults.  The flag and the row agree because at most one of them is on its way to
be set: while the prompter is about to claim, the flag is down, and past that any open question is its
own (`OneQuestion`).  `NothingOrphaned` needs to know *who* is at work on a dialogue
in transit, by its token and the place it is at (`Held`: the prompter, the memoirist or the handler, which
for a voice command is the whole pipeline of its text).  That a question is answered once rests on tokens
being used once: one that was answered is neither in the row nor about to be claimed (`Fresh`).

**DeployProofs**: `DowntimeKept`, `OneWriter` (`TwoWritersOnlyByLoss`), `NothingLost`
(`NothingAcceptedIsLost`) and `NoWayBack` (`NoWayBackAfterTraffic`), for any number of updates, wherever
the operator fails, is interrupted or dies with the host.  The invariant: operator and installer exclude
each other (`Exclusive`); while the snapshot may be restored launchd's switch is off and stays off, across
a reboot too (`Down`); a lease has one holder (`Leases`); from the moment a release is admitted nothing
permits the snapshot and no operation is at a step that leads there (`Boundary`); and the restored database
is the snapshot until it is put to use (`Restored`).  `Boundary` carries the most: that no way leads back
once the release has `served` must be known from the journal's `admission_started` on, for launchd may start
a process at any moment after it.

**ProfileProofs**: `DialogueStaysBacked`, `EgressIsAccepted` and `RegistrationStaysHonest`, for every set
of recipients and number of retries and crashes.  A handler saves a sequence of states, so each is first
shown to lead only to states that keep the invariant, whichever of them the process dies in (`After` and
`Quietly` collect what a saved state may be).  The invariant `Good` joins three parts: the dialogue
stands on what is saved (`Backed`), what was created is counted (`Once`), and a choice for some
recipients, in the row or in the dialogue, was made by a button that named them (`Given`).  The last is
what `EgressOnlyToAccepted` needs: the name step writes the dialogue's choice to the row.

**BackupProofs**, the backup: `RecoveryPointStays` (`RecoveryPointKept`), for every number of days and faults
and every retention.  The rotation keeps the newest archive whatever it is, and its failure deletes the
newest after it began on the others.  So the invariant says that a backup past its dump has the newest
archive (`Newest`), whole before the rotation begins, and that *beside* it a whole one stays once a backup has
succeeded and no rotation was torn since (`KeptBeside`): a rotation that fails before it deletes anything,
a cancelled backup and one killed at any file leave either that one or their own.  `Counted` shows that
the numbers of archives never run out: each is paid for by a day of the marker or a fault.

**BackupProofs**, the indexer: `LateVectorsAreDropped` (`VectorsAreExplained`) and `WithdrawalStops`, for every
size of a batch and any texts.  That an older text's vector stays only where it was committed between the
read and the write of one edit is not inductive.  It needs that a vector written and not committed is that
of the text in the row (`Locked`: the row is locked meanwhile), and that an editor's copy without a vector is
the truth unless a vector was committed since (`Copied`).  `OneLate`: after a withdrawal the record that was
past its check may go out, and no other passes one.

**PlannerProofs**: `FrogAndTripAreSingle`, `SeriesStaySingle`, `ClosedProjectsStayQuiet` and
`ButtonsAreHarmless`, for every number of tasks, projects, trips and old buttons.  `SeriesNeverForks` is
not inductive: a closed task may be opened again.  It is safe because only a task without a rule can be,
and such a task is the only one of its series (`Alone`), which needs that a series is named after a row
that is or was there (`Named`).  Each action is first reduced to what it does to the rows (`RowStep`: rows
are kept, one begins a series, one takes the place of another, one is deleted), and the series is
preserved once, from that.

## 6. What is only model-checked

- Liveness: `DueIsSettled`, the second half of `SettledOnce` (every batch is settled),
  `UnfinishedComesBack`, `NothingIsStuck`, `LostLeaseStops`, `LossIsNoticed`, `BackupIsNotDelayed`.  Fairness
  and ENABLED are beyond the prover.
- The findings: a property that is violated has no proof.  The theorems that stand next to them say under
  which hypothesis it holds, `~EarlyTaps` and `~LateHandIn`, or which exception is the only one: `torn` in
  `RecoveryPointKept`, `overtaken` in `LateVectorIsDropped`.  The refusal of `profile_refusal` has none.
- The mutants: that each property can be broken by a plausible mistake is shown by TLC.

## 7. Not modelled, and the plan

Not modelled inside the modelled parts: which users and hours are due, calendar arithmetic (there is
or is not a next occurrence), texts and formatting, retention of old rows (but of expired dialogues),
limits on batch sizes that a small pool does not reach, dependencies between tasks and a project's
progress, a change of the embedding model, records the embedding provider always refuses (enough of them
fill every batch), the SLO of the reminders.

Not modelled at all, and why:

- the routing of a message before a plan exists, the recognisers and the dispatcher's translation of
  tool calls: they decide *which* action a text is, by its wording; the modules take any of them;
- lists, searches, `/export`, deletion of a user, notes, diary, birthdays, the administrator's commands:
  single transactions on independent rows;
- schema migrations, the readiness endpoint's tables of checks, metrics, logging, configuration;
- Linux containers (the entry point has no journal, its supervisor is external), and what `pg_dump`,
  `pg_restore`, `launchctl` and a release build do inside;
- the middleware's rate limiter: a count in memory per user and minute that nothing else reads.

Hazards that no property covers (each for the reason given, and left out of the list of
`PROJECT.json`): the reply to the fifth snooze is wrong though the row is right
(`src/bot/handlers/callbacks.py:216`, replies are not modelled); a redelivery within five minutes of a
crash (`src/bot/handlers/messages.py:307`, see above); the retention job against a `/retry` of a row thirty
days old (`src/bot/handlers/request_retry.py:97`, a window of a few statements); an ordinary install after
a restored copy, which returns to the old database (`src/platform/macos/install.sh:211`, the code leaves
the final database to the operator).

What could come next: abstract promises for Interactions (a dialogue is answered once, by its owner) and
Deploy, and `_calc_next_occurrence` as a pure function on bounded dates.  The last was left out because its
reference definition would be nearly its own text.

Out of scope: the language model and its prompts, speech recognition, formatting, export and the
single-transaction CRUD of independent rows.
