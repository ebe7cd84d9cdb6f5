------------------------------- MODULE Requests -------------------------------
(***************************************************************************)
(* The journal that makes a message safe to retry.  One message (or one    *)
(* confirmed voice transcript) of one user has one request key; its row    *)
(* holds the plan the LLM proposed and the results of the actions done.    *)
(* The updates of one user are handled one at a time (the dispatcher is    *)
(* built with SimpleEventIsolation): the message, the /retry list and its  *)
(* buttons and a change of consent wait for the handler under way; only    *)
(* the clock and a crash interleave with it.                               *)
(*                                                                         *)
(* A plan is a sequence of N actions.  An action of Project creates a      *)
(* project, then has the LLM cut it into tasks, then saves the tasks: two  *)
(* effects with a prepared result between them.                            *)
(***************************************************************************)
EXTENDS Naturals, FiniteSets

CONSTANTS
    N, Project,         \* the actions of a plan; those that create a project
    LateHandIn,         \* can a message be handed in again without consent while its plan is open?
    MaxEvents           \* bound: crashes, lost commits, failed sends, database errors

ASSUME RequestsAssumption ==
    /\ N \in Nat \ {0} /\ Project \subseteq 1 .. N
    /\ MaxEvents \in Nat /\ LateHandIn \in BOOLEAN

Position == 1 .. N

\* The keys of action_results that stand for an effect, and for a prepared plan.
Effect == (Position \X {"effect"}) \cup (Project \X {"project_tasks"})
Result == Effect \cup (Project \X {"prepared_project"})

VARIABLES
    row,        \* the row of processed_requests
    job,        \* where the handler of the user's update stands
    consent,    \* has the user consented to processing?
    offered,    \* may the sender's side hand in the message (again)?
    listed,     \* have the buttons of /retry been shown?
    events,     \* how many events have happened
    applied     \* history: applied[e] counts the commits of effect e

vars == <<row, job, consent, offered, listed, events, applied>>

Row == [status: {"absent", "processing", "failed", "completed"}, stale: BOOLEAN,
        plan: BOOLEAN, results: SUBSET Result, abandoned: BOOLEAN]

\* MessageOutcome
Outcomes == {"completed", "retryable", "rejected", "duplicate"}

\* A handler: its program counter, whether it came from a /retry button, the
\* action it is at, and the outcome so far.
IdleJob == [pc |-> "idle", resume |-> FALSE, pos |-> 1, outcome |-> "completed"]
Job == [pc: {"idle", "claim", "enter", "interpret", "effect", "prepared_project",
             "project_tasks", "finish"},
        resume: BOOLEAN, pos: 1 .. N + 1, outcome: Outcomes]

Init ==
    /\ row = [status |-> "absent", stale |-> FALSE, plan |-> FALSE, results |-> {},
              abandoned |-> FALSE]
    /\ job = IdleJob
    /\ consent = TRUE /\ offered = TRUE /\ listed = FALSE
    /\ events = 0
    /\ applied = [e \in Effect |-> 0]

Event == events < MaxEvents /\ events' = events + 1

\* SimpleEventIsolation: no update of the user is being handled.
Isolated == job.pc = "idle"

Goto(pc) == job' = [job EXCEPT !.pc = pc]
Finish(outcome) == job' = [job EXCEPT !.pc = "finish", !.outcome = outcome]

\* The outcome goes to the caller.  After any outcome but COMPLETED a voice
\* command can be confirmed again.
Leave(outcome) ==
    /\ job' = IdleJob
    /\ offered' = (offered \/ (outcome # "completed" /\ ~job.resume))

Unfinished == row.plan /\ ~row.abandoned /\ ~(Effect \subseteq row.results)

-----------------------------------------------------------------------------
(* Entering *)

\* A message arrives, or a voice command is confirmed; one not carried out can be
\* confirmed again under the same key.  LateHandIn: also without consent, while actions of
\* the plan that was saved for it are left.
Arrive ==
    /\ Isolated /\ offered
    /\ LateHandIn \/ consent \/ ~Unfinished
    /\ offered' = FALSE
    /\ Goto("claim")
    /\ UNCHANGED <<row, consent, listed, events, applied>>

\* Mutant: a request whose process died is not offered.
ListableIfFailed == row.status = "failed"

Listable == \/ row.status = "failed"
            \/ row.status = "processing" /\ row.stale

ListRetries ==
    /\ Isolated
    /\ row.plan /\ ~row.abandoned /\ Listable /\ ~listed
    /\ listed' = TRUE
    /\ UNCHANGED <<row, job, consent, offered, events, applied>>

\* retry_request: the button may be pressed at any later time, and twice.
RetryRequest ==
    /\ Isolated /\ listed
    /\ job' = [IdleJob EXCEPT !.pc = "claim", !.resume = TRUE]
    /\ UNCHANGED <<row, consent, offered, listed, events, applied>>

\* Mutant: any request nobody works on is claimed, a settled one too.
ClaimableAgain == \/ row.status = "absent"
                  \/ ~row.abandoned /\ (row.status # "processing" \/ row.stale)

\* _claim_request
Claimable == \/ row.status = "absent"
             \/ ~row.abandoned /\ Listable

ClaimRequest ==
    /\ job.pc = "claim" /\ Claimable
    /\ row' = [row EXCEPT !.status = "processing", !.stale = FALSE]
    /\ Goto("enter")
    /\ UNCHANGED <<consent, offered, listed, events, applied>>

\* The reply is "already processed".
Duplicate ==
    /\ job.pc = "claim" /\ ~Claimable
    /\ Leave("duplicate")
    /\ UNCHANGED <<row, consent, listed, events, applied>>

\* The database is unavailable; the user is asked to repeat.
ClaimDbError ==
    /\ job.pc = "claim" /\ Event
    /\ Leave("retryable")
    /\ UNCHANGED <<row, consent, listed, applied>>

\* A saved plan is executed, never interpreted again.
Enter ==
    /\ job.pc = "enter"
    /\ IF consent THEN Goto(IF row.plan THEN "effect" ELSE "interpret")
       ELSE Finish("rejected")
    /\ UNCHANGED <<row, consent, offered, listed, events, applied>>

\* The LLM or a rule gives an answer without actions, fails, asks back, finds a dialogue
\* that is taken, or proposes a plan.
InterpretWithoutPlan(outcome) ==
    /\ job.pc = "interpret"
    /\ Finish(outcome)
    /\ UNCHANGED <<row, consent, offered, listed, events, applied>>

PersistPlan ==
    /\ job.pc = "interpret"
    /\ row' = [row EXCEPT !.plan = TRUE]
    /\ Goto("effect")
    /\ UNCHANGED <<consent, offered, listed, events, applied>>

-----------------------------------------------------------------------------
(* The actions of the plan *)

Outcome(wrong) == IF wrong THEN "retryable" ELSE job.outcome

\* Mutants: the outcome of cutting a project is ignored; a result is not looked up.
NextActionForgetful(wrong) ==
    LET next == job.pos + 1
    IN job' = [job EXCEPT !.pos = next, !.outcome = Outcome(wrong /\ job.pc = "effect"),
                          !.pc = IF next > N THEN "finish" ELSE "effect"]

NeverSaved(e) == FALSE

\* The loop of _present_tool_calls goes on after an action that went wrong.
NextAction(wrong) ==
    LET next == job.pos + 1
    IN job' = [job EXCEPT !.pos = next, !.outcome = Outcome(wrong),
                          !.pc = IF next > N THEN "finish" ELSE "effect"]

\* Where a handler goes when phase pc of its action has succeeded.
Continue(pc) ==
    CASE pc = "effect" /\ job.pos \in Project -> Goto("prepared_project")
      [] pc = "prepared_project"                 -> Goto("project_tasks")
      [] OTHER                                   -> NextAction(FALSE)

Saved(e) == e \in row.results
Closed == row.abandoned
Here == <<job.pos, job.pc>>
InEffect == job.pc \in {"effect", "project_tasks"}

Apply(e) ==
    /\ row' = [row EXCEPT !.results = @ \cup {e}]
    /\ applied' = [applied EXCEPT ![e] = @ + 1]

\* execute_action holds the row from its checks to the commit of the effect and
\* its result.
ExecuteAction ==
    /\ InEffect /\ ~Closed /\ ~Saved(Here)
    /\ Apply(Here)
    /\ Continue(job.pc)
    /\ UNCHANGED <<consent, offered, listed, events>>

ReplayAction ==
    /\ InEffect /\ ~Closed /\ Saved(Here)
    /\ Continue(job.pc)
    /\ UNCHANGED <<row, consent, offered, listed, events, applied>>

\* The request is closed, or the action ends in an error and is rolled back.
ActionFails ==
    /\ InEffect /\ (Closed \/ ~Saved(Here))
    /\ NextAction(TRUE)
    /\ UNCHANGED <<row, consent, offered, listed, events, applied>>

\* The commit succeeds and its answer is lost.  At "effect" the loop catches the
\* exception; at "project_tasks" it ends the handler.
CommitAmbiguous ==
    /\ InEffect /\ ~Closed /\ ~Saved(Here) /\ Event
    /\ Apply(Here)
    /\ IF job.pc = "effect" THEN NextAction(TRUE) ELSE Finish("retryable")
    /\ UNCHANGED <<consent, offered, listed>>

\* prepare_project_action: once the tasks or their preparation are saved, the
\* LLM is not asked again.
PrepareProject ==
    /\ job.pc = "prepared_project"
    /\ row' = IF Saved(<<job.pos, "project_tasks">>) THEN row
              ELSE [row EXCEPT !.results = @ \cup {Here}]
    /\ IF Saved(<<job.pos, "project_tasks">>) THEN NextAction(FALSE)
       ELSE Continue("prepared_project")
    /\ UNCHANGED <<consent, offered, listed, events, applied>>

PrepareFails ==
    /\ job.pc = "prepared_project"
    /\ ~Saved(Here) /\ ~Saved(<<job.pos, "project_tasks">>)
    /\ NextAction(TRUE)
    /\ UNCHANGED <<row, consent, offered, listed, events, applied>>

\* A reply cannot be sent or a statement fails: the exception leaves the pipeline.
Raise ==
    /\ job.pc \in {"enter", "interpret", "effect", "prepared_project", "project_tasks"} /\ Event
    /\ Finish("retryable")
    /\ UNCHANGED <<row, consent, offered, listed, applied>>

\* _finish_request: REJECTED counts as a failure only for a resumed request.
FinishStatus ==
    IF job.outcome = "retryable" \/ (job.outcome = "rejected" /\ job.resume)
    THEN "failed" ELSE "completed"

FinishRequest ==
    /\ job.pc = "finish"
    /\ row' = [row EXCEPT !.status = FinishStatus]
    /\ Leave(job.outcome)
    /\ UNCHANGED <<consent, listed, events, applied>>

\* The database error is swallowed: the row stays "processing".
FinishLost ==
    /\ job.pc = "finish" /\ Event
    /\ Leave(job.outcome)
    /\ UNCHANGED <<row, consent, listed, applied>>

-----------------------------------------------------------------------------
(* The user, the clock and the process *)

\* abandon_request, one transaction.
AbandonRequest ==
    /\ Isolated
    /\ listed /\ ~(row.status = "processing" /\ ~row.stale)
    /\ row' = [row EXCEPT !.abandoned = TRUE, !.status = "completed"]
    /\ UNCHANGED <<job, consent, offered, listed, events, applied>>

SetConsent ==
    /\ Isolated
    /\ consent' = ~consent
    /\ UNCHANGED <<row, job, offered, listed, events, applied>>

\* Five minutes pass since the claim.
Age ==
    /\ row.status = "processing" /\ ~row.stale
    /\ row' = [row EXCEPT !.stale = TRUE]
    /\ UNCHANGED <<job, consent, offered, listed, events, applied>>

\* An update whose offset was not confirmed yet is delivered again, and a voice
\* command cut short before its buttons are gone can be confirmed again.
Crash ==
    /\ Event
    /\ job' = IdleJob
    /\ offered' = TRUE
    /\ UNCHANGED <<row, consent, listed, applied>>

-----------------------------------------------------------------------------
Plan == \/ ExecuteAction \/ ReplayAction \/ ActionFails \/ CommitAmbiguous
           \/ PrepareProject \/ PrepareFails

Work == \/ ClaimRequest \/ Duplicate \/ ClaimDbError \/ Enter
           \/ \E outcome \in Outcomes : InterpretWithoutPlan(outcome)
           \/ PersistPlan \/ Plan \/ Raise \/ FinishRequest \/ FinishLost

Next == \/ Arrive \/ RetryRequest \/ Work
        \/ ListRetries \/ AbandonRequest \/ SetConsent \/ Age \/ Crash

Spec == Init /\ [][Next]_vars

\* asyncio runs every coroutine that is ready, and time passes.
Fairness == WF_vars(Work) /\ WF_vars(Age)

FairSpec == Spec /\ Fairness

-----------------------------------------------------------------------------
(* Properties *)

TypeOK ==
    /\ row \in Row
    /\ job \in Job
    /\ consent \in BOOLEAN /\ offered \in BOOLEAN /\ listed \in BOOLEAN
    /\ events \in Nat
    /\ applied \in [Effect -> Nat]

\* Whatever is retried, redelivered, cut short or committed without an answer,
\* the effect of an action happens at most once, and its result is in the
\* journal exactly when it has happened.
EffectsOnce == \A e \in Effect : applied[e] = IF e \in row.results THEN 1 ELSE 0

\* The tasks of a project are saved only after the project, from a saved cut.
TasksAfterProject ==
    \A p \in Project : applied[<<p, "project_tasks">>] > 0
        => {<<p, "effect">>, <<p, "prepared_project">>} \subseteq row.results

\* A request with actions of its plan left is never put down as completed, and so withheld
\* from /retry, but by the user who gives it up: not after a failure, and not when the
\* consent is missing (docs/PRIVACY.md:34-35; _finish_request, messages.py:252-258).
UnfinishedIsListed == Unfinished => row.status # "completed"

\* A plan saved while the user consented is not carried on after the consent was
\* withdrawn, whichever way the request is started again.
NothingWithoutConsent == [][applied' # applied => consent]_vars

\* A request cut short (a crash, a commit or a status that was lost) never stays
\* out of reach: while actions of its plan are left it comes back to /retry.
UnfinishedComesBack == Unfinished ~> (Listable \/ ~Unfinished)

\* What the row says, in the words of Undertaking, has become of the message; a plan that
\* is discarded is not among them.
Stage ==
    CASE row.status # "completed" -> IF row.plan THEN "open" ELSE "new"
      [] row.status = "completed" /\ ~row.plan -> "answered"
      [] row.status = "completed" /\ row.plan ->
            IF Effect \subseteq row.results THEN "carried out"
            ELSE IF row.abandoned THEN "given up" ELSE "discarded"

Carried == [q \in Position |-> applied[<<q, "effect">>]]
CutUp == {p \in Project : <<p, "prepared_project">> \in row.results}
Tasked == [p \in Project |-> applied[<<p, "project_tasks">>]]

Promise == INSTANCE Undertaking WITH
    Action <- Position, stage <- Stage, done <- Carried, cut <- CutUp, tasks <- Tasked

\* _claim_request, execute_action and _finish_request keep the promise of
\* Undertaking, through retries, redeliveries, crashes and changes of mind, unless a message
\* is handed in late.
ImplementsUndertaking == Promise!Spec

===============================================================================
