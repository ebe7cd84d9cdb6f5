------------------------------- MODULE Delivery -------------------------------
(***************************************************************************)
(* The delivery outbox: one logical message of N parts (a digest, a memoir *)
(* question, a task list) under one delivery key.  A producer loop creates *)
(* the batch and delivers it, the outbox loop resumes what is left over,   *)
(* and each of them works under a lease that it renews with every part.    *)
(*                                                                         *)
(* A worker talks to the database in short transactions with sends between *)
(* them; each transaction is one step.  Time is abstract, as in Reminders. *)
(* Batches with different keys share nothing, so one batch is modelled.    *)
(***************************************************************************)
EXTENDS Naturals, FiniteSets

CONSTANTS
    N,                  \* the number of parts of the message
    Producer, Resumer,  \* producer loops of this key; outbox loops
    NoWorker,
    Payload,            \* the texts a producer may build: they change from tick to tick
    NoPayload,
    MaxAttempts,        \* _deliver_existing_batch: 8
    MaxEvents           \* bound: crashes, lost answers, database errors, leases lost at work

ASSUME DeliveryAssumption ==
    /\ N \in Nat \ {0} /\ MaxAttempts \in Nat \ {0} /\ MaxEvents \in Nat
    /\ NoWorker \notin Producer \cup Resumer /\ NoPayload \notin Payload

Part == 1 .. N
Worker == Producer \cup Resumer

VARIABLES
    batch,      \* the row of delivery_batches
    part,       \* part[p]: the status of the row of delivery_parts
    job,        \* job[w]: where worker w stands in _deliver_existing_batch
    marked,     \* has the producer written its "sent today" marker?
    events,     \* how many events have happened
    shown,      \* history: shown[p] is the set of texts the chat has shown for part p
    repeats,    \* history: messages that repeated a part the chat had already shown
    faults      \* history: faults that can explain a repeated message

history == <<shown, repeats, faults>>
vars == <<batch, part, job, marked, events, shown, repeats, faults>>

Open == {"pending", "delivering"}
Final == {"delivered", "failed", "expired"}
Batch == [status: Open \cup Final \cup {"absent"}, payload: Payload \cup {NoPayload},
          token: Worker \cup {NoWorker}, live: BOOLEAN,
          backoff: {"none", "waiting", "over"}, attempts: Nat, expired: BOOLEAN]

\* A worker: its program counter, the pending parts it has read and not yet
\* recorded, whether its exception is terminal, and a producer's own text.
IdleJob == [pc |-> "idle", todo |-> {}, terminal |-> FALSE]
Job == [pc: {"idle", "claim", "read", "send", "record", "fail", "complete", "report", "mark"},
        todo: SUBSET Part, terminal: BOOLEAN]

Init ==
    /\ batch = [status |-> "absent", payload |-> NoPayload, token |-> NoWorker,
                live |-> FALSE, backoff |-> "none", attempts |-> 0, expired |-> FALSE]
    /\ part = [p \in Part |-> "pending"]
    /\ job = [w \in Worker |-> IdleJob]
    /\ marked = FALSE
    /\ events = 0
    /\ shown = [p \in Part |-> {}] /\ repeats = 0 /\ faults = 0

Event == events < MaxEvents /\ events' = events + 1

Goto(w, pc) == job' = [job EXCEPT ![w].pc = pc]
Return(w) == job' = [job EXCEPT ![w] = IdleJob]

-----------------------------------------------------------------------------
(* Starting *)

\* deliver_batch: a producer that has not marked the day builds its text and
\* calls; _ensure_batch inserts the batch, or keeps the one that is there.
Call(w, text) ==
    /\ job[w].pc = "idle" /\ ~marked
    /\ batch' = IF batch.status = "absent"
                THEN [batch EXCEPT !.status = "pending", !.payload = text]
                ELSE batch
    /\ Goto(w, "claim")
    /\ UNCHANGED <<part, marked, events, history>>

Dormant == batch.token = NoWorker \/ ~batch.live

\* resume_pending_deliveries selects the batches it can go on with.
Resume(w) ==
    /\ job[w].pc = "idle"
    /\ batch.status \in Open /\ batch.backoff # "waiting" /\ Dormant
    /\ Goto(w, "claim")
    /\ UNCHANGED <<batch, part, marked, events, history>>

\* Mutant: a lease does not keep the other worker away.
ClaimableThoughLeased == batch.status \in Open /\ batch.backoff # "waiting" /\ ~batch.expired

Claimable == batch.status \in Open /\ batch.backoff # "waiting" /\ ~batch.expired /\ Dormant

\* The first transaction: a batch past its time is closed, else it is claimed.
Claim(w) ==
    /\ job[w].pc = "claim" /\ Claimable
    /\ batch' = [batch EXCEPT !.status = "delivering", !.token = w, !.live = TRUE,
                              !.attempts = @ + 1]
    /\ Goto(w, "read")
    /\ UNCHANGED <<part, marked, events, history>>

ClaimRefused(w) ==
    /\ job[w].pc = "claim" /\ ~Claimable
    /\ batch' = IF batch.status \in Open /\ batch.expired /\ Dormant
                THEN [batch EXCEPT !.status = "expired", !.token = NoWorker, !.live = FALSE]
                ELSE batch
    /\ Goto(w, "report")
    /\ UNCHANGED <<part, marked, events, history>>

-----------------------------------------------------------------------------
(* Sending *)

Pending == {p \in Part : part[p] = "pending"}

\* Where a worker with these parts still to send goes on.
NextPoint(todo) == IF todo = {} THEN "complete" ELSE "send"

ReadPending(w) ==
    /\ job[w].pc = "read"
    /\ job' = [job EXCEPT ![w].pc = NextPoint(Pending), ![w].todo = Pending]
    /\ UNCHANGED <<batch, part, marked, events, history>>

\* Mutant: the pending parts come in any order.
AnyOf(p, todo) == p \in todo

First(p, todo) == p \in todo /\ \A q \in todo : p <= q

\* Telegram accepts part p; `lost` is 1 when its answer is lost.
Accepted(p, lost) ==
    /\ shown' = [shown EXCEPT ![p] = @ \cup {batch.payload}]
    /\ repeats' = IF shown[p] = {} THEN repeats ELSE repeats + 1
    /\ faults' = faults + lost

SendOk(w, p) ==
    /\ job[w].pc = "send" /\ First(p, job[w].todo)
    /\ Accepted(p, 0)
    /\ Goto(w, "record")
    /\ UNCHANGED <<batch, part, marked, events>>

SendAmbiguous(w, p) ==
    /\ job[w].pc = "send" /\ First(p, job[w].todo)
    /\ Event
    /\ Accepted(p, 1)
    /\ Goto(w, "fail")
    /\ UNCHANGED <<batch, part, marked>>

\* send_message raises; TelegramBadRequest and TelegramForbiddenError are terminal.
SendRefused(w, terminal) ==
    /\ job[w].pc = "send"
    /\ job' = [job EXCEPT ![w].pc = "fail", ![w].terminal = terminal]
    /\ UNCHANGED <<batch, part, marked, events, history>>

\* Mutant: the token is not compared.
HoldsAnything(w) == batch.status # "absent"

Holds(w) == batch.token = w

\* One transaction renews the lease and records the part.
Recordable(w, p) == Holds(w) /\ batch.live /\ part[p] = "pending"

Record(w, p) ==
    /\ job[w].pc = "record" /\ First(p, job[w].todo)
    /\ Recordable(w, p)
    /\ part' = [part EXCEPT ![p] = "delivered"]
    /\ job' = [job EXCEPT ![w].pc = NextPoint(job[w].todo \ {p}), ![w].todo = @ \ {p}]
    /\ UNCHANGED <<batch, marked, events, history>>

\* _DeliveryLeaseLost
RecordLeaseLost(w, p) ==
    /\ job[w].pc = "record" /\ First(p, job[w].todo)
    /\ ~Recordable(w, p)
    /\ Goto(w, "report")
    /\ UNCHANGED <<batch, part, marked, events, history>>

RecordDbError(w) ==
    /\ job[w].pc = "record"
    /\ Event
    /\ faults' = faults + 1
    /\ Goto(w, "fail")
    /\ UNCHANGED <<batch, part, marked, shown, repeats>>

\* The except branch; it re-raises, so the caller marks nothing.
FailedBatch(terminal) ==
    [batch EXCEPT !.status = IF terminal \/ batch.attempts >= MaxAttempts
                             THEN "failed" ELSE "pending",
                  !.backoff = "waiting", !.token = NoWorker, !.live = FALSE]

Fail(w) ==
    /\ job[w].pc = "fail"
    /\ batch' = IF Holds(w) THEN FailedBatch(job[w].terminal) ELSE batch
    /\ Return(w)
    /\ UNCHANGED <<part, marked, events, history>>

FailLost(w) ==
    /\ job[w].pc = "fail"
    /\ Event
    /\ Return(w)
    /\ UNCHANGED <<batch, part, marked, history>>

-----------------------------------------------------------------------------
(* Finishing *)

\* Mutant: a busy batch counts as a delivered one.
ReportedAnyhow(w, completed) ==
    IF w \in Producer THEN job' = [job EXCEPT ![w] = [IdleJob EXCEPT !.pc = "mark"]]
    ELSE Return(w)

\* A completed delivery lets a producer mark the day; others just return.
Reported(w, completed) ==
    IF completed /\ w \in Producer THEN job' = [job EXCEPT ![w] = [IdleJob EXCEPT !.pc = "mark"]]
    ELSE Return(w)

Complete(w) ==
    /\ job[w].pc = "complete"
    /\ batch' = IF Holds(w) THEN [batch EXCEPT !.status = "delivered", !.token = NoWorker,
                                               !.live = FALSE]
                ELSE batch
    /\ Reported(w, Holds(w))
    /\ UNCHANGED <<part, marked, events, history>>

CompleteDbError(w) ==
    /\ job[w].pc = "complete"
    /\ Event
    /\ Return(w)
    /\ UNCHANGED <<batch, part, marked, history>>

\* A worker without the lease reads the status of the batch for its result.
Report(w) ==
    /\ job[w].pc = "report"
    /\ Reported(w, batch.status = "delivered")
    /\ UNCHANGED <<batch, part, marked, events, history>>

\* claim_date_marker
Mark(w) ==
    /\ job[w].pc = "mark"
    /\ marked' = TRUE
    /\ Return(w)
    /\ UNCHANGED <<batch, part, events, history>>

-----------------------------------------------------------------------------
(* The clock and the process *)

HolderAt(pcs) == \E w \in Worker : Holds(w) /\ job[w].pc \in pcs

\* lease_seconds pass.  A lease lost between the claim and a record is a fault
\* that can explain one repeated part.
LeaseLapse ==
    /\ batch.token # NoWorker /\ batch.live
    /\ batch' = [batch EXCEPT !.live = FALSE]
    /\ IF HolderAt({"read", "send", "record", "fail", "complete"}) THEN Event
       ELSE UNCHANGED events
    /\ faults' = IF HolderAt({"read", "send", "record"}) THEN faults + 1 ELSE faults
    /\ UNCHANGED <<part, job, marked, shown, repeats>>

BackoffOver ==
    /\ batch.backoff = "waiting"
    /\ batch' = [batch EXCEPT !.backoff = "over"]
    /\ UNCHANGED <<part, job, marked, events, history>>

\* expires_at passes.
Expire ==
    /\ batch.status # "absent" /\ ~batch.expired
    /\ batch' = [batch EXCEPT !.expired = TRUE]
    /\ UNCHANGED <<part, job, marked, events, history>>

Crash ==
    /\ Event
    /\ job' = [w \in Worker |-> IdleJob]
    /\ faults' = IF HolderAt({"record"}) THEN faults + 1 ELSE faults
    /\ UNCHANGED <<batch, part, marked, shown, repeats>>

-----------------------------------------------------------------------------
Send(w) == \/ \E p \in Part : SendOk(w, p) \/ SendAmbiguous(w, p)
           \/ \E terminal \in BOOLEAN : SendRefused(w, terminal)

RecordStep(w) == \/ \E p \in Part : Record(w, p) \/ RecordLeaseLost(w, p)
                 \/ RecordDbError(w)

Work(w) == \/ Claim(w) \/ ClaimRefused(w) \/ ReadPending(w) \/ Send(w) \/ RecordStep(w)
           \/ Fail(w) \/ FailLost(w) \/ Complete(w) \/ CompleteDbError(w) \/ Report(w) \/ Mark(w)

Clock == LeaseLapse \/ BackoffOver \/ Expire

Next == \/ \E w \in Producer, text \in Payload : Call(w, text)
        \/ \E w \in Resumer : Resume(w)
        \/ \E w \in Worker : Work(w)
        \/ Clock
        \/ Crash

Spec == Init /\ [][Next]_vars

\* The loops run for ever and time passes; the producer's window may be over,
\* so only the outbox loop is relied on to start again.
Fairness ==
    /\ \A w \in Worker : WF_vars(Work(w))
    /\ \A w \in Resumer : WF_vars(Resume(w))
    /\ WF_vars(LeaseLapse) /\ WF_vars(BackoffOver)

FairSpec == Spec /\ Fairness

-----------------------------------------------------------------------------
(* Properties *)

TypeOK ==
    /\ batch \in Batch
    /\ part \in [Part -> {"pending", "delivered"}]
    /\ job \in [Worker -> Job]
    /\ marked \in BOOLEAN
    /\ events \in Nat
    /\ shown \in [Part -> SUBSET Payload]
    /\ repeats \in Nat /\ faults \in Nat

\* A batch that says it is delivered, and a day that is marked as served, had
\* every part accepted and recorded, whoever recorded them.
DeliveredIsWhole ==
    /\ batch.status = "delivered" => Pending = {}
    /\ marked => batch.status = "delivered"

\* However often the producer rebuilds its text and however the parts are spread
\* over workers and crashes, the chat sees the parts of one text only.
OneText == \A p, q \in Part : \A a \in shown[p], b \in shown[q] : a = b

\* What a row, a part and the chat say agrees: nothing is called delivered that is not whole.
WholeAndOneText == TypeOK /\ DeliveredIsWhole /\ OneText

\* At-least-once has a price list: a part is repeated only if its answer was lost,
\* its record failed, its worker died before the record or lost its lease.
RepeatsAreExplained == repeats <= faults

\* A settled batch stays as it is, whatever stragglers still do.
FinalIsFinal ==
    [][batch.status \in Final
       => batch'.status = batch.status /\ batch'.token = NoWorker /\ part' = part]_vars

\* A batch never stays open for ever: it is delivered, fails or expires.
EveryBatchIsSettled == (batch.status \in Open) ~> (batch.status \in Final)

\* Every batch is settled, and only once.
SettledOnce == FinalIsFinal /\ EveryBatchIsSettled

\* The code implements the promise.
Promise == INSTANCE Outbox WITH
    stage <- CASE batch.status = "absent" -> "none"
               [] batch.status \in Open -> "open"
               [] batch.status = "delivered" -> "delivered"
               [] OTHER -> "dropped",
    told <- {p \in Part : shown[p] # {}},
    kept <- {p \in Part : part[p] = "delivered"}

ImplementsOutbox == Promise!Spec

===============================================================================
