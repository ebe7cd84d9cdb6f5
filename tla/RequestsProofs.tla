---------------------------- MODULE RequestsProofs ----------------------------
(***************************************************************************)
(* What the journal guarantees for every plan and every number of faults,  *)
(* and what the queue guarantees that a request passes on its way to the   *)
(* language model, for any number of callers.                              *)
(***************************************************************************)
EXTENDS Requests, LLMQueue, TLAPS, FiniteSetTheorems

InPlan == {"effect", "prepared_project", "project_tasks"}

\* Action q of the plan is carried out, according to the journal r.
Done(q, r) == /\ <<q, "effect">> \in r.results
              /\ q \in Project => <<q, "project_tasks">> \in r.results

\* A handler j in its plan is at an action of it, and the phases of a project
\* before the one it is at are in the journal r.
InPhase(j, r) ==
    /\ j.pc \in InPlan => j.pos \in Position
    /\ j.pc \in {"prepared_project", "project_tasks"}
       => j.pos \in Project /\ <<j.pos, "effect">> \in r.results
    /\ j.pc = "project_tasks" => <<j.pos, "prepared_project">> \in r.results

\* A handler to which nothing has happened has all its actions behind it done.
InProgress(j, r) ==
    /\ j.pc \in {"idle", "claim", "enter", "interpret"} => j.pos = 1
    /\ j.pc = "interpret" => ~r.plan
    /\ j.outcome = "completed" =>
          /\ j.pc \in InPlan => \A q \in Position : q < j.pos => Done(q, r)
          /\ j.pc = "finish" => (r.plan => \A q \in Position : Done(q, r))

GoodJob(j, r) == InPhase(j, r) /\ InProgress(j, r)

IInv == TypeOK /\ GoodJob(job, row) /\ EffectsOnce /\ TasksAfterProject

-----------------------------------------------------------------------------
\* The journal starts empty and nobody works.
LEMMA InitIInv == Init => IInv
  <1> SUFFICES ASSUME Init PROVE IInv
    OBVIOUS
  <1> USE RequestsAssumption DEF Init, IdleJob, Position
  <1>1. TypeOK
    <2>1. row \in Row
      BY DEF Row
    <2>2. 1 \in 1 .. N + 1
      OBVIOUS
    <2>3. IdleJob \in Job
      BY <2>2 DEF Job, Outcomes
    <2>4. job \in Job
      BY <2>3
    <2> QED
      BY <2>1, <2>4 DEF TypeOK
  <1>2. GoodJob(job, row)
    BY DEF GoodJob, InPhase, InProgress, InPlan
  <1>3. EffectsOnce /\ TasksAfterProject
    BY DEF EffectsOnce, TasksAfterProject, Effect
  <1> QED
    BY <1>1, <1>2, <1>3 DEF IInv

\* An effect and its result are committed together, and only once.
LEMMA ApplyOnce ==
    ASSUME TypeOK, EffectsOnce, TasksAfterProject, NEW e \in Effect, ~Saved(e), Apply(e),
           e[2] = "project_tasks" => {<<e[1], "effect">>, <<e[1], "prepared_project">>} \subseteq row.results
    PROVE  /\ row' \in Row /\ applied' \in [Effect -> Nat]
           /\ row'.results = row.results \cup {e} /\ row'.plan = row.plan
           /\ row'.status = row.status /\ row'.abandoned = row.abandoned
           /\ EffectsOnce' /\ TasksAfterProject'
  <1>1. row' = [row EXCEPT !.results = row.results \cup {e}] /\ e \in Result /\ row \in Row
    BY DEF Apply, Effect, Result, TypeOK
  <1>2. /\ row' \in Row /\ row'.results = row.results \cup {e} /\ row'.plan = row.plan
        /\ row'.status = row.status /\ row'.abandoned = row.abandoned
    BY <1>1 DEF Row
  <1>3. applied[e] = 0
    BY DEF EffectsOnce, Saved
  <1>4. /\ applied' \in [Effect -> Nat]
        /\ \A f \in Effect : applied'[f] = IF f = e THEN 1 ELSE applied[f]
    BY <1>3 DEF Apply, TypeOK
  <1>5. EffectsOnce'
    BY <1>2, <1>4 DEF EffectsOnce
  <1>6. TasksAfterProject'
    <2> SUFFICES ASSUME NEW p \in Project, applied'[<<p, "project_tasks">>] > 0
                 PROVE  {<<p, "effect">>, <<p, "prepared_project">>} \subseteq row'.results
      BY DEF TasksAfterProject
    <2>1. <<p, "project_tasks">> \in Effect
      BY DEF Effect
    <2>2. CASE e = <<p, "project_tasks">>
      BY <2>2, <1>2
    <2>3. CASE e # <<p, "project_tasks">>
      BY <2>1, <2>3, <1>2, <1>4 DEF TasksAfterProject
    <2> QED
      BY <2>2, <2>3
  <1> QED
    BY <1>2, <1>4, <1>5, <1>6

\* The journal only grows: a job stays good while others write to it.
LEMMA GoodJobGrows ==
    ASSUME NEW j \in Job, NEW r \in Row, NEW s \in Row, GoodJob(j, r),
           r.results \subseteq s.results,
           s.plan = r.plan
    PROVE  GoodJob(j, s)
  <1>1. InPhase(j, s)
    BY DEF GoodJob, InPhase
  <1>2. \A q \in Position : Done(q, r) => Done(q, s)
    BY DEF Done
  <1>3. InProgress(j, s)
    BY <1>2 DEF GoodJob, InProgress, InPlan
  <1> QED
    BY <1>1, <1>3 DEF GoodJob

Flags == /\ consent \in BOOLEAN /\ offered \in BOOLEAN /\ listed \in BOOLEAN
         /\ events \in Nat

\* A step of the handler that leaves the journal alone.
LEMMA QuietMove ==
    ASSUME IInv, job' \in Job, UNCHANGED <<row, applied>>, GoodJob(job', row), Flags'
    PROVE  IInv'
  <1>1. TypeOK'
    BY DEF IInv, TypeOK, Flags
  <1>2. EffectsOnce' /\ TasksAfterProject'
    BY DEF IInv, EffectsOnce, TasksAfterProject
  <1> QED
    BY <1>1, <1>2 DEF IInv

\* A step of the handler that commits an effect.
LEMMA ApplyMove ==
    ASSUME IInv, InEffect, ~Saved(Here), Apply(Here), job' \in Job, GoodJob(job', row'), Flags'
    PROVE  IInv'
  <1>1. TypeOK /\ EffectsOnce /\ TasksAfterProject /\ GoodJob(job, row)
    BY DEF IInv
  <1>2. job.pos \in Position
    BY <1>1 DEF GoodJob, InPhase, InEffect, InPlan
  <1>3. /\ Here \in Effect
        /\ Here[2] = "project_tasks"
           => {<<Here[1], "effect">>, <<Here[1], "prepared_project">>} \subseteq row.results
    BY <1>1, <1>2 DEF GoodJob, InPhase, InEffect, Here, Effect
  <1>4. /\ row' \in Row /\ applied' \in [Effect -> Nat]
        /\ EffectsOnce' /\ TasksAfterProject'
    BY <1>1, <1>3, ApplyOnce
  <1>5. TypeOK'
    BY <1>4 DEF TypeOK, Flags
  <1> QED
    BY <1>4, <1>5 DEF IInv

\* Where the loop goes on after an action that went well or wrong.
LEMMA NextActionGood ==
    ASSUME IInv, NEW wrong \in BOOLEAN, NextAction(wrong), job.pc \in InPlan,
           NEW r \in Row, row.results \subseteq r.results, ~wrong => Done(job.pos, r)
    PROVE  job' \in Job /\ GoodJob(job', r)
  <1> USE RequestsAssumption
  <1> DEFINE next == job.pos + 1
             outcome == IF wrong THEN "retryable" ELSE job.outcome
             j == [job EXCEPT !.pos = next, !.outcome = outcome,
                              !.pc = IF next > N THEN "finish" ELSE "effect"]
  <1>1. job \in Job /\ GoodJob(job, row)
    BY DEF IInv, TypeOK
  <1>2. job.pos \in 1 .. N
    BY <1>1 DEF GoodJob, InPhase, Position
  <1>3. job' = j
    BY <1>1 DEF NextAction, Outcome
  <1>4. /\ j.pos = next /\ j.outcome = outcome /\ j.resume = job.resume
        /\ j.pc = IF next > N THEN "finish" ELSE "effect"
        /\ j \in Job
    <2>1. next \in 1 .. N + 1
      BY <1>2
    <2>2. outcome \in Outcomes
      BY <1>1 DEF Job, Outcomes
    <2> QED
      BY <1>1, <2>1, <2>2 DEF Job
  <1> HIDE DEF j
  <1>5. InPhase(j, r)
    BY <1>2, <1>4 DEF InPhase, InPlan, Position
  <1>6. ASSUME j.outcome = "completed", NEW q \in Position, q <= job.pos
        PROVE  Done(q, r)
    <2>1. ~wrong /\ job.outcome = "completed"
      BY <1>4, <1>6
    <2>2. CASE q = job.pos
      BY <2>1, <2>2
    <2>3. CASE q < job.pos
      <3>1. Done(q, row)
        BY <1>1, <2>1, <2>3 DEF GoodJob, InProgress
      <3> QED
        BY <3>1 DEF Done
    <2> QED
      BY <1>2, <1>6, <2>2, <2>3 DEF Position
  <1>7. InProgress(j, r)
    BY <1>2, <1>4, <1>6 DEF InProgress, InPlan, Position
  <1> QED
    BY <1>3, <1>4, <1>5, <1>7 DEF GoodJob

\* Where the handler goes when the phase it is at is in the journal.
LEMMA ContinueGood ==
    ASSUME IInv, job.pc \in InPlan, Continue(job.pc),
           NEW r \in Row, row.results \subseteq r.results, Here \in r.results
    PROVE  job' \in Job /\ GoodJob(job', r)
  <1> USE RequestsAssumption
  <1>1. job \in Job /\ GoodJob(job, row)
    BY DEF IInv, TypeOK
  <1>2. ASSUME NEW pc \in {"prepared_project", "project_tasks"}, Goto(pc), job.pos \in Project,
               <<job.pos, "effect">> \in r.results,
               pc = "project_tasks" => <<job.pos, "prepared_project">> \in r.results
        PROVE  job' \in Job /\ GoodJob(job', r)
    <2> DEFINE j == [job EXCEPT !.pc = pc]
    <2>1. job' = j
      BY <1>2 DEF Goto
    <2>2. /\ j \in Job /\ j.pc = pc /\ j.pos = job.pos /\ j.outcome = job.outcome
      BY <1>1, <1>2 DEF Job
    <2> HIDE DEF j
    <2>3. InPhase(j, r)
      BY <1>1, <1>2, <2>2 DEF InPhase, GoodJob
    <2>4. \A q \in Position : Done(q, row) => Done(q, r)
      BY DEF Done
    <2>5. InProgress(j, r)
      BY <1>1, <1>2, <2>2, <2>4 DEF InProgress, GoodJob, InPlan
    <2> QED
      BY <2>1, <2>2, <2>3, <2>5 DEF GoodJob
  <1>3. CASE job.pc = "effect" /\ job.pos \in Project
    <2>1. Goto("prepared_project") /\ <<job.pos, "effect">> \in r.results
      BY <1>3 DEF Continue, Here
    <2> QED
      BY <1>2, <1>3, <2>1
  <1>4. CASE job.pc = "prepared_project"
    <2>1. /\ Goto("project_tasks") /\ job.pos \in Project
          /\ {<<job.pos, "effect">>, <<job.pos, "prepared_project">>} \subseteq r.results
      BY <1>1, <1>4 DEF Continue, Here, GoodJob, InPhase
    <2> QED
      BY <1>2, <2>1
  <1>5. CASE job.pc = "project_tasks" \/ (job.pc = "effect" /\ job.pos \notin Project)
    <2>1. NextAction(FALSE)
      BY <1>5 DEF Continue
    <2>2. Done(job.pos, r)
      BY <1>1, <1>5 DEF Done, Here, GoodJob, InPhase
    <2> QED
      BY <2>1, <2>2, NextActionGood
  <1> QED
    BY <1>3, <1>4, <1>5 DEF InPlan

\* A handler that ends with an error has nothing to show.
LEMMA FinishGood ==
    ASSUME IInv, NEW outcome \in {"retryable", "rejected"}, Finish(outcome), NEW r
    PROVE  job' \in Job /\ GoodJob(job', r)
  <1> DEFINE j == [job EXCEPT !.pc = "finish", !.outcome = outcome]
  <1>1. job' = j
    BY DEF Finish
  <1>2. j \in Job /\ j.pc = "finish" /\ j.outcome = outcome
    BY DEF IInv, TypeOK, Job, Outcomes
  <1> HIDE DEF j
  <1>3. GoodJob(j, r)
    BY <1>2 DEF GoodJob, InPhase, InProgress, InPlan
  <1> QED
    BY <1>1, <1>2, <1>3

\* Committing an effect adds its result to the journal.
LEMMA ApplyGrows ==
    ASSUME IInv, InEffect, Apply(Here)
    PROVE  row' \in Row /\ row.results \subseteq row'.results /\ Here \in row'.results
  <1>1. row \in Row /\ GoodJob(job, row)
    BY DEF IInv, TypeOK
  <1>2. Here \in Result
    BY <1>1 DEF GoodJob, InPhase, InEffect, InPlan, Here, Result, Effect
  <1> QED
    BY <1>1, <1>2 DEF Apply, Row

\* Where the ways of leaving a point of the program lead.
LEMMA Moves ==
    ASSUME job \in Job
    PROVE  /\ \A pc : Goto(pc) => job'.pc = pc /\ job'.outcome = job.outcome
           /\ \A outcome : Finish(outcome) => job'.pc = "finish" /\ job'.outcome = outcome
           /\ \A outcome : Leave(outcome) => job'.pc = "idle" /\ job'.outcome = "completed"
  <1>1. ASSUME NEW pc, Goto(pc) PROVE job'.pc = pc /\ job'.outcome = job.outcome
    <2> DEFINE j == [job EXCEPT !.pc = pc]
    <2>1. job' = j
      BY <1>1 DEF Goto
    <2>2. j.pc = pc /\ j.outcome = job.outcome
      BY DEF Job
    <2> HIDE DEF j
    <2> QED
      BY <2>1, <2>2
  <1>2. ASSUME NEW outcome, Finish(outcome) PROVE job'.pc = "finish" /\ job'.outcome = outcome
    <2> DEFINE j == [job EXCEPT !.pc = "finish", !.outcome = outcome]
    <2>1. job' = j
      BY <1>2 DEF Finish
    <2>2. j.pc = "finish" /\ j.outcome = outcome
      BY DEF Job
    <2> HIDE DEF j
    <2> QED
      BY <2>1, <2>2
  <1>3. ASSUME NEW outcome, Leave(outcome) PROVE job'.pc = "idle" /\ job'.outcome = "completed"
    BY <1>3 DEF Leave, IdleJob
  <1> QED
    BY <1>1, <1>2, <1>3

\* The loop over the actions stays in the plan or finishes, with the outcome it
\* had or a retryable one.
LEMMA LoopMoves ==
    ASSUME job \in Job, job.pc \in InPlan
    PROVE  /\ \A wrong : NextAction(wrong) =>
                  job'.pc \in {"effect", "finish"} /\ job'.outcome \in {"retryable", job.outcome}
           /\ Continue(job.pc) =>
                  job'.pc \in InPlan \cup {"finish"} /\ job'.outcome \in {"retryable", job.outcome}
  <1>1. ASSUME NEW wrong, NextAction(wrong)
        PROVE  job'.pc \in {"effect", "finish"} /\ job'.outcome \in {"retryable", job.outcome}
    <2> DEFINE next == job.pos + 1
               j == [job EXCEPT !.pos = next, !.outcome = Outcome(wrong),
                                !.pc = IF next > N THEN "finish" ELSE "effect"]
    <2>1. job' = j
      BY <1>1 DEF NextAction
    <2>2. j.pc \in {"effect", "finish"} /\ j.outcome = Outcome(wrong)
      BY DEF Job
    <2> HIDE DEF j
    <2> QED
      BY <2>1, <2>2 DEF Outcome
  <1>2. ASSUME Continue(job.pc)
        PROVE  Goto("prepared_project") \/ Goto("project_tasks") \/ NextAction(FALSE)
    BY <1>2 DEF Continue, InPlan
  <1> QED
    BY <1>1, <1>2, Moves DEF InPlan

\* A retry starts a handler at the beginning of its plan.
LEMMA Resumes ==
    ASSUME RetryRequest
    PROVE  job' \in Job /\ job'.pc = "claim" /\ job'.pos = 1 /\ job'.outcome = "completed"
  <1> DEFINE j == [pc |-> "claim", resume |-> TRUE, pos |-> 1, outcome |-> "completed"]
  <1>1. job' = j
    BY DEF RetryRequest, IdleJob
  <1>2. j \in Job /\ j.pc = "claim" /\ j.pos = 1 /\ j.outcome = "completed"
    BY RequestsAssumption DEF Job, Outcomes
  <1> HIDE DEF j
  <1> QED
    BY <1>1, <1>2

\* The idle handler is good whatever the journal holds.
LEMMA IdleGood == ASSUME NEW r PROVE IdleJob \in Job /\ GoodJob(IdleJob, r)
BY RequestsAssumption DEF IdleJob, Job, Outcomes, GoodJob, InPhase, InProgress, InPlan

\* A step that changes the status of the row, but neither its plan nor its results.
LEMMA StatusMove ==
    ASSUME IInv, row' \in Row, row'.results = row.results, row'.plan = row.plan,
           UNCHANGED applied, job' \in Job, GoodJob(job', row) \/ job' = IdleJob, Flags'
    PROVE  IInv'
  <1>1. TypeOK'
    BY DEF IInv, TypeOK, Flags
  <1>2. GoodJob(job', row')
    BY IdleGood, GoodJobGrows DEF IInv, TypeOK
  <1>3. EffectsOnce' /\ TasksAfterProject'
    BY DEF IInv, EffectsOnce, TasksAfterProject
  <1> QED
    BY <1>1, <1>2, <1>3 DEF IInv

-----------------------------------------------------------------------------
\* A handler starts and comes to the first action of its plan: one case per action.
LEMMA EntrySteps ==
    ASSUME IInv, \/ Arrive \/ RetryRequest \/ ClaimRequest \/ Duplicate \/ ClaimDbError \/ Enter
                 \/ \E outcome \in Outcomes : InterpretWithoutPlan(outcome)
                 \/ PersistPlan
    PROVE  IInv'
  <1> USE RequestsAssumption
  <1>0. job \in Job /\ row \in Row /\ Flags /\ GoodJob(job, row)
    BY DEF IInv, TypeOK, Flags
  <1>1. CASE Arrive \/ RetryRequest
    <2>1. job' \in Job /\ job'.pc = "claim" /\ job'.pos = 1
      <3>1. CASE Arrive
        <4> DEFINE j == [job EXCEPT !.pc = "claim"]
        <4>1. job' = j
          BY <3>1 DEF Arrive, Goto
        <4>2. job.pos = 1
          BY <1>0, <3>1 DEF Arrive, Isolated, GoodJob, InProgress
        <4>3. j \in Job /\ j.pc = "claim" /\ j.pos = 1
          BY <1>0, <4>2 DEF Job
        <4> HIDE DEF j
        <4> QED
          BY <4>1, <4>3
      <3>2. CASE RetryRequest
        BY <3>2, Resumes
      <3> QED
        BY <1>1, <3>1, <3>2
    <2>2. GoodJob(job', row)
      BY <2>1 DEF GoodJob, InPhase, InProgress, InPlan
    <2>3. UNCHANGED <<row, applied>> /\ Flags'
      BY <1>0, <1>1 DEF Arrive, RetryRequest, Flags
    <2> QED
      BY <2>1, <2>2, <2>3, QuietMove
  <1>2. CASE ClaimRequest
    <2> DEFINE j == [job EXCEPT !.pc = "enter"]
    <2>1. job' = j /\ UNCHANGED applied /\ Flags'
      BY <1>0, <1>2 DEF ClaimRequest, Goto, Flags
    <2>2. j \in Job /\ j.pc = "enter" /\ j.pos = job.pos /\ j.outcome = job.outcome
      BY <1>0 DEF Job
    <2>3. row' \in Row /\ row'.results = row.results /\ row'.plan = row.plan
      BY <1>0, <1>2 DEF ClaimRequest, Row
    <2> HIDE DEF j
    <2>4. GoodJob(j, row)
      BY <1>0, <1>2, <2>2 DEF ClaimRequest, GoodJob, InPhase, InProgress, InPlan
    <2> QED
      BY <2>1, <2>2, <2>3, <2>4, StatusMove
  <1>3. CASE Duplicate \/ ClaimDbError
    <2>1. job' = IdleJob /\ UNCHANGED <<row, applied>>
      BY <1>3 DEF Duplicate, ClaimDbError, Leave
    <2>2. offered' \in BOOLEAN
      BY <1>3 DEF Duplicate, ClaimDbError, Leave
    <2>3. events' \in Nat
      BY <1>0, <1>3 DEF Duplicate, ClaimDbError, Event, Flags
    <2>4. Flags'
      BY <1>0, <1>3, <2>2, <2>3 DEF Duplicate, ClaimDbError, Flags
    <2> QED
      BY <2>1, <2>4, IdleGood, QuietMove
  <1>4. CASE Enter
    <2>1. UNCHANGED <<row, applied>> /\ Flags'
      BY <1>0, <1>4 DEF Enter, Flags
    <2>2. CASE Finish("rejected")
      BY <2>1, <2>2, FinishGood, QuietMove
    <2>3. ASSUME NEW pc \in {"effect", "interpret"}, Goto(pc), pc = "interpret" => ~row.plan
          PROVE  IInv'
      <3> DEFINE j == [job EXCEPT !.pc = pc]
      <3>1. job' = j /\ j \in Job /\ j.pc = pc /\ j.pos = job.pos /\ j.outcome = job.outcome
        BY <1>0, <2>3 DEF Goto, Job
      <3> HIDE DEF j
      <3>2. job.pos = 1
        BY <1>0, <1>4 DEF Enter, GoodJob, InProgress
      <3>3. GoodJob(j, row)
        BY <2>3, <3>1, <3>2 DEF GoodJob, InPhase, InProgress, InPlan, Position
      <3> QED
        BY <2>1, <3>1, <3>3, QuietMove
    <2> QED
      BY <1>4, <2>2, <2>3 DEF Enter
  <1>5. ASSUME NEW outcome \in Outcomes, InterpretWithoutPlan(outcome)
        PROVE  IInv'
    <2> DEFINE j == [job EXCEPT !.pc = "finish", !.outcome = outcome]
    <2>1. job' = j /\ UNCHANGED <<row, applied>> /\ Flags'
      BY <1>0, <1>5 DEF InterpretWithoutPlan, Finish, Flags
    <2>2. j \in Job /\ j.pc = "finish"
      BY <1>0 DEF Job
    <2> HIDE DEF j
    <2>3. GoodJob(j, row)
      BY <1>0, <1>5, <2>2 DEF InterpretWithoutPlan, GoodJob, InPhase, InProgress, InPlan
    <2> QED
      BY <2>1, <2>2, <2>3, QuietMove
  <1>6. CASE PersistPlan
    <2> DEFINE j == [job EXCEPT !.pc = "effect"]
    <2>1. job' = j /\ UNCHANGED applied /\ Flags'
      BY <1>0, <1>6 DEF PersistPlan, Goto, Flags
    <2>2. j \in Job /\ j.pc = "effect" /\ j.pos = 1
      BY <1>0, <1>6 DEF PersistPlan, GoodJob, InProgress, Job
    <2>3. row' \in Row /\ row'.results = row.results
      BY <1>0, <1>6 DEF PersistPlan, Row
    <2> HIDE DEF j
    <2>4. GoodJob(j, row')
      BY <2>2 DEF GoodJob, InPhase, InProgress, InPlan, Position
    <2>5. TypeOK'
      BY <2>1, <2>2, <2>3 DEF IInv, TypeOK, Flags
    <2>6. EffectsOnce' /\ TasksAfterProject'
      BY <2>1, <2>3 DEF IInv, EffectsOnce, TasksAfterProject
    <2> QED
      BY <2>1, <2>4, <2>5, <2>6 DEF IInv
  <1> QED
    BY <1>1, <1>2, <1>3, <1>4, <1>5, <1>6

\* The handler carries out its plan and finishes: one case per action.
LEMMA PlanSteps ==
    ASSUME IInv, Plan \/ Raise \/ FinishRequest \/ FinishLost
    PROVE  IInv'
  <1> USE RequestsAssumption
  <1>0. job \in Job /\ row \in Row /\ Flags /\ GoodJob(job, row)
    BY DEF IInv, TypeOK, Flags
  <1>1. CASE ExecuteAction
    <2>1. InEffect /\ ~Saved(Here) /\ Apply(Here) /\ Continue(job.pc) /\ job.pc \in InPlan /\ Flags'
      BY <1>0, <1>1 DEF ExecuteAction, Flags, InEffect, InPlan
    <2> QED
      BY <2>1, ApplyGrows, ContinueGood, ApplyMove
  <1>2. CASE ReplayAction
    <2>1. /\ job.pc \in InPlan /\ UNCHANGED <<row, applied>> /\ Here \in row.results
          /\ Flags' /\ Continue(job.pc)
      BY <1>0, <1>2 DEF ReplayAction, Flags, InEffect, InPlan, Saved
    <2> QED
      BY <1>0, <2>1, ContinueGood, QuietMove
  <1>3. CASE ActionFails \/ PrepareFails
    <2>1. job.pc \in InPlan /\ UNCHANGED <<row, applied>> /\ Flags' /\ NextAction(TRUE)
      BY <1>0, <1>3 DEF ActionFails, PrepareFails, Flags, InEffect, InPlan
    <2> QED
      BY <1>0, <2>1, NextActionGood, QuietMove
  <1>4. CASE CommitAmbiguous
    <2>1. InEffect /\ ~Saved(Here) /\ Apply(Here) /\ job.pc \in InPlan /\ Flags'
      BY <1>0, <1>4 DEF CommitAmbiguous, Event, Flags, InEffect, InPlan
    <2>2. row' \in Row /\ row.results \subseteq row'.results
      BY <2>1, ApplyGrows
    <2>3. job' \in Job /\ GoodJob(job', row')
      BY <1>4, <2>1, <2>2, NextActionGood, FinishGood DEF CommitAmbiguous
    <2> QED
      BY <2>1, <2>3, ApplyMove
  <1>5. CASE PrepareProject
    <2>1. /\ job.pc = "prepared_project" /\ UNCHANGED applied /\ Flags'
          /\ EffectsOnce /\ TasksAfterProject
      BY <1>0, <1>5 DEF PrepareProject, Flags, IInv
    <2>2. /\ row' \in Row /\ row.results \subseteq row'.results
          /\ \A e \in Effect : e \in row'.results <=> e \in row.results
      <3>1. Here \in Result /\ Here \notin Effect
        BY <1>0, <2>1 DEF GoodJob, InPhase, Here, Result, Effect
      <3>2. CASE row' = row
        BY <1>0, <3>2
      <3>3. CASE row' = [row EXCEPT !.results = row.results \cup {Here}]
        BY <1>0, <3>1, <3>3 DEF Row
      <3> QED
        BY <1>5, <3>2, <3>3 DEF PrepareProject
    <2>3. job' \in Job /\ GoodJob(job', row')
      <3>1. CASE Saved(<<job.pos, "project_tasks">>)
        <4>1. NextAction(FALSE) /\ row' = row
          BY <1>5, <3>1 DEF PrepareProject
        <4>2. Done(job.pos, row')
          BY <1>0, <2>1, <3>1, <4>1 DEF GoodJob, InPhase, Done, Saved
        <4> QED
          BY <2>1, <2>2, <4>1, <4>2, NextActionGood DEF InPlan
      <3>2. CASE ~Saved(<<job.pos, "project_tasks">>)
        <4>1. Continue(job.pc) /\ row' = [row EXCEPT !.results = row.results \cup {Here}]
          BY <1>5, <2>1, <3>2 DEF PrepareProject
        <4>2. Here \in row'.results
          BY <1>0, <4>1 DEF Row
        <4> QED
          BY <2>1, <2>2, <4>1, <4>2, ContinueGood DEF InPlan
      <3> QED
        BY <3>1, <3>2
    <2>4. TypeOK'
      BY <2>1, <2>2, <2>3 DEF IInv, TypeOK, Flags
    <2>5. EffectsOnce'
      BY <2>1, <2>2 DEF EffectsOnce
    <2>6. TasksAfterProject'
      BY <2>1, <2>2 DEF TasksAfterProject
    <2> QED
      BY <2>3, <2>4, <2>5, <2>6 DEF IInv
  <1>6. CASE Raise
    <2>1. UNCHANGED <<row, applied>> /\ Flags' /\ Finish("retryable")
      BY <1>0, <1>6 DEF Raise, Event, Flags
    <2> QED
      BY <2>1, FinishGood, QuietMove
  <1>7. CASE FinishRequest \/ FinishLost
    <2>1. job' = IdleJob /\ UNCHANGED applied
      BY <1>7 DEF FinishRequest, FinishLost, Leave
    <2>2. row' \in Row /\ row'.results = row.results /\ row'.plan = row.plan
      BY <1>0, <1>7 DEF FinishRequest, FinishLost, FinishStatus, Row
    <2>3. offered' \in BOOLEAN
      BY <1>7 DEF FinishRequest, FinishLost, Leave
    <2>4. events' \in Nat
      BY <1>0, <1>7 DEF FinishRequest, FinishLost, Event, Flags
    <2>5. Flags'
      BY <1>0, <1>7, <2>3, <2>4 DEF FinishRequest, FinishLost, Flags
    <2> QED
      BY <2>1, <2>2, <2>5, IdleGood, StatusMove
  <1> QED
    BY <1>1, <1>2, <1>3, <1>4, <1>5, <1>6, <1>7 DEF Plan

\* The user, the clock and the process touch neither the plan nor the results.
LEMMA OtherSteps ==
    ASSUME IInv, \/ ListRetries \/ AbandonRequest \/ SetConsent \/ Age \/ Crash \/ UNCHANGED vars
    PROVE  IInv'
  <1>0. job \in Job /\ row \in Row /\ Flags /\ GoodJob(job, row)
    BY DEF IInv, TypeOK, Flags
  <1>1. /\ row' \in Row /\ row'.results = row.results /\ row'.plan = row.plan /\ UNCHANGED applied
    <2>1. CASE row' = row /\ applied' = applied
      BY <1>0, <2>1
    <2>2. CASE AbandonRequest
      BY <1>0, <2>2 DEF AbandonRequest, Row
    <2>3. CASE Age
      BY <1>0, <2>3 DEF Age, Row
    <2> QED
      BY <2>1, <2>2, <2>3 DEF ListRetries, SetConsent, Crash, vars
  <1>2. Flags'
    <2>1. offered' \in BOOLEAN /\ listed' \in BOOLEAN /\ consent' \in BOOLEAN
      BY <1>0 DEF ListRetries, AbandonRequest, SetConsent, Age, Crash, Event, vars, Flags
    <2>2. events' \in Nat
      BY <1>0 DEF ListRetries, AbandonRequest, SetConsent, Age, Crash, Event, vars, Flags
    <2> QED
      BY <2>1, <2>2 DEF Flags
  <1>3. job' = job \/ job' = IdleJob
    BY DEF ListRetries, AbandonRequest, SetConsent, Age, Crash, vars
  <1> QED
    BY <1>0, <1>1, <1>2, <1>3, IdleGood, StatusMove

-----------------------------------------------------------------------------
\* Every reachable state satisfies the inductive invariant.
THEOREM Invariance == Spec => []IInv
  <1>1. IInv /\ [Next]_vars => IInv'
    <2> SUFFICES ASSUME IInv, [Next]_vars PROVE IInv'
      OBVIOUS
    <2>1. CASE Arrive \/ RetryRequest
      BY <2>1, EntrySteps
    <2>2. CASE Work
      BY <2>2, EntrySteps, PlanSteps DEF Work
    <2>3. CASE \/ ListRetries \/ AbandonRequest \/ SetConsent \/ Age \/ Crash \/ UNCHANGED vars
      BY <2>3, OtherSteps
    <2> QED
      BY <2>1, <2>2, <2>3 DEF Next
  <1> QED
    BY <1>1, InitIInv, PTL DEF Spec

\* The journal, the handlers and the counters keep their types (models.py
\* 233-255): in particular a handler never runs past the end of its plan.
THEOREM TypeCorrect == Spec => []TypeOK
  <1>1. IInv => TypeOK
    BY DEF IInv
  <1> QED
    BY <1>1, Invariance, PTL

\* execute_action: through any retries, redeliveries, crashes and commits without
\* an answer, an effect happens at most once and the journal knows of it.
THEOREM EffectsHappenOnce == Spec => []EffectsOnce
  <1>1. IInv => EffectsOnce
    BY DEF IInv
  <1> QED
    BY <1>1, Invariance, PTL

\* prepare_project_action: the tasks of a project are saved only when the project
\* exists and its cut is in the journal.
THEOREM TasksFollowProject == Spec => []TasksAfterProject
  <1>1. IInv => TasksAfterProject
    BY DEF IInv
  <1> QED
    BY <1>1, Invariance, PTL

-----------------------------------------------------------------------------
(* The row, the consent and the handler agree. *)

Agreed ==
    /\ job.pc \notin {"idle", "claim"} => row.status = "processing"
    /\ job.pc \in {"interpret"} \cup InPlan => consent
    /\ job.pc \in InPlan => row.plan
    /\ job.outcome = "rejected" => job.pc = "finish" /\ (~consent \/ ~row.plan)
    /\ job.outcome = "duplicate" => job.pc = "finish" /\ ~row.plan
    /\ row.abandoned => row.status = "completed"
    /\ listed => row.plan
    /\ row.plan => row.status # "absent"

\* A handler comes to its plan by way of the claim and of the question for consent.
LEMMA EntryAgrees ==
    ASSUME IInv, Agreed,
           \/ Arrive \/ RetryRequest \/ ClaimRequest \/ Duplicate \/ ClaimDbError \/ Enter
           \/ \E outcome \in Outcomes : InterpretWithoutPlan(outcome)
           \/ PersistPlan
    PROVE  Agreed'
  <1>0. job \in Job /\ row \in Row /\ (job.pc = "interpret" => ~row.plan)
    BY DEF IInv, TypeOK, GoodJob, InProgress
  <1>1. CASE Arrive \/ RetryRequest
    <2>1. job'.pc = "claim" /\ job'.outcome \in {"completed", job.outcome} /\ job.pc = "idle"
      BY <1>0, <1>1, Moves, Resumes DEF Arrive, RetryRequest, Isolated
    <2> QED
      BY <1>1, <2>1 DEF Arrive, RetryRequest, Agreed, InPlan
  <1>2. CASE ClaimRequest
    <2>1. /\ row'.status = "processing" /\ row'.plan = row.plan /\ row'.abandoned = row.abandoned
          /\ ~row.abandoned
      BY <1>0, <1>2 DEF ClaimRequest, Claimable, Row, Agreed
    <2>2. job.pc = "claim" /\ job'.pc = "enter" /\ job'.outcome = job.outcome
      BY <1>0, <1>2, Moves DEF ClaimRequest
    <2> QED
      BY <1>2, <2>1, <2>2 DEF ClaimRequest, Agreed, InPlan
  <1>3. CASE Duplicate \/ ClaimDbError
    <2>1. job'.pc = "idle" /\ job'.outcome = "completed"
      BY <1>0, <1>3, Moves DEF Duplicate, ClaimDbError
    <2> QED
      BY <1>3, <2>1 DEF Duplicate, ClaimDbError, Agreed, InPlan
  <1>4. CASE Enter
    <2>1. \/ consent /\ row.plan /\ Goto("effect")
          \/ consent /\ Goto("interpret")
          \/ ~consent /\ Finish("rejected")
      BY <1>4 DEF Enter
    <2>2. \/ consent /\ row.plan /\ job'.pc = "effect" /\ job'.outcome = job.outcome
          \/ consent /\ job'.pc = "interpret" /\ job'.outcome = job.outcome
          \/ ~consent /\ job'.pc = "finish" /\ job'.outcome = "rejected"
      BY <1>0, <2>1, Moves
    <2> QED
      BY <1>4, <2>2 DEF Enter, Agreed, InPlan
  <1>5. ASSUME NEW outcome \in Outcomes, InterpretWithoutPlan(outcome)
        PROVE  Agreed'
    <2>1. job.pc = "interpret" /\ job'.pc = "finish" /\ job'.outcome = outcome
      BY <1>0, <1>5, Moves DEF InterpretWithoutPlan
    <2> QED
      BY <1>0, <1>5, <2>1 DEF InterpretWithoutPlan, Agreed, InPlan
  <1>6. CASE PersistPlan
    <2>1. job.pc = "interpret" /\ job'.pc = "effect" /\ job'.outcome = job.outcome
      BY <1>0, <1>6, Moves DEF PersistPlan
    <2>2. row'.plan /\ row'.status = row.status /\ row'.abandoned = row.abandoned
      BY <1>0, <1>6 DEF PersistPlan, Row
    <2> QED
      BY <1>6, <2>1, <2>2 DEF PersistPlan, Agreed, InPlan
  <1> QED
    BY <1>1, <1>2, <1>3, <1>4, <1>5, <1>6

\* The actions of the plan write results only.
LEMMA PlanWrites ==
    ASSUME TypeOK, Plan
    PROVE  /\ row'.status = row.status /\ row'.plan = row.plan /\ row'.abandoned = row.abandoned
           /\ UNCHANGED <<consent, listed>>
  <1>1. \E S : row' = [row EXCEPT !.results = S]
    <2>1. row = [row EXCEPT !.results = row.results]
      BY DEF TypeOK, Row
    <2> QED
      BY <2>1 DEF Plan, ExecuteAction, ReplayAction, ActionFails, CommitAmbiguous, PrepareProject,
         PrepareFails, Apply
  <1>2. UNCHANGED <<consent, listed>>
    BY DEF Plan, ExecuteAction, ReplayAction, ActionFails, CommitAmbiguous, PrepareProject,
       PrepareFails
  <1> QED
    BY <1>1, <1>2 DEF TypeOK, Row

\* A handler in its plan stays there, or finishes and was not turned away.
LEMMA PlanAgrees ==
    ASSUME TypeOK, Agreed, Plan \/ Raise
    PROVE  Agreed'
  <1>0. job \in Job /\ row \in Row
    BY DEF TypeOK
  <1>1. CASE Plan
    <2>1. job.pc \in InPlan
      BY <1>1 DEF Plan, ExecuteAction, ReplayAction, ActionFails, CommitAmbiguous, PrepareProject,
         PrepareFails, InEffect, InPlan
    <2>2. Continue(job.pc) \/ Finish("retryable") \/ \E wrong : NextAction(wrong)
      BY <1>1 DEF Plan, ExecuteAction, ReplayAction, ActionFails, CommitAmbiguous, PrepareProject,
         PrepareFails
    <2>3. job'.pc \in InPlan \cup {"finish"} /\ job'.outcome \in {"retryable", job.outcome}
      BY <1>0, <2>1, <2>2, LoopMoves, Moves DEF InPlan
    <2> QED
      BY <1>1, <2>1, <2>3, PlanWrites DEF Agreed, InPlan
  <1>2. CASE Raise
    <2>1. /\ job'.pc = "finish" /\ job'.outcome = "retryable"
          /\ job.pc \notin {"idle", "claim"} /\ UNCHANGED <<row, consent, listed>>
      BY <1>0, <1>2, Moves DEF Raise
    <2> QED
      BY <2>1 DEF Agreed, InPlan
  <1> QED
    BY <1>1, <1>2

\* A handler that leaves, the user, the clock and the process.
LEMMA OthersAgree ==
    ASSUME TypeOK, Agreed,
           \/ FinishRequest \/ FinishLost
           \/ ListRetries \/ AbandonRequest \/ SetConsent \/ Age \/ Crash \/ UNCHANGED vars
    PROVE  Agreed'
  <1>0. job \in Job /\ row \in Row
    BY DEF TypeOK
  <1>1. CASE FinishRequest \/ FinishLost
    <2>1. /\ job'.pc = "idle" /\ job'.outcome = "completed" /\ job.pc = "finish"
          /\ UNCHANGED <<consent, listed>>
      BY <1>0, <1>1, Moves DEF FinishRequest, FinishLost
    <2>2. /\ row'.status \in {row.status, "failed", "completed"} /\ row'.plan = row.plan
          /\ row'.abandoned = row.abandoned
      BY <1>0, <1>1 DEF FinishRequest, FinishLost, FinishStatus, Row
    <2>3. row.status = "processing" /\ ~row.abandoned
      BY <2>1 DEF Agreed
    <2> QED
      BY <2>1, <2>2, <2>3 DEF Agreed, InPlan
  <1>2. CASE AbandonRequest
    <2>1. row'.status = "completed" /\ row'.plan = row.plan
      BY <1>0, <1>2 DEF AbandonRequest, Row
    <2> QED
      BY <1>2, <2>1 DEF AbandonRequest, Isolated, Agreed, InPlan
  <1>3. CASE Age
    <2>1. /\ row'.status = row.status /\ row'.plan = row.plan /\ row'.abandoned = row.abandoned
      BY <1>0, <1>3 DEF Age, Row
    <2> QED
      BY <1>3, <2>1 DEF Age, Agreed
  <1>4. CASE SetConsent
    BY <1>4 DEF SetConsent, Isolated, Agreed, InPlan
  <1>5. CASE Crash
    BY <1>5 DEF Crash, IdleJob, Agreed, InPlan
  <1>6. CASE ListRetries \/ UNCHANGED vars
    BY <1>6 DEF ListRetries, vars, Agreed
  <1> QED
    BY <1>1, <1>2, <1>3, <1>4, <1>5, <1>6

\* _claim_request, _finish_request, abandon_request: while a handler is past its
\* claim its row says "processing" and is not abandoned, a plan is pursued with
\* consent, and whoever leaves a plan alone was turned away without it.
THEOREM Agreement == Spec => []Agreed
  <1>1. Init => Agreed
    BY DEF Init, IdleJob, Agreed, InPlan
  <1>2. IInv /\ Agreed /\ [Next]_vars => Agreed'
    BY EntryAgrees, PlanAgrees, OthersAgree DEF Next, Work, IInv
  <1> QED
    BY <1>1, <1>2, Invariance, PTL DEF Spec

\* Effects are committed by two actions only.
LEMMA Commits ==
    ASSUME Next, applied' # applied
    PROVE  ExecuteAction \/ CommitAmbiguous
BY DEF Next, Work, Plan, Arrive, RetryRequest, ListRetries, AbandonRequest, SetConsent, Age, Crash,
   ClaimRequest, Duplicate, ClaimDbError, Enter, InterpretWithoutPlan, PersistPlan, ReplayAction,
   ActionFails, PrepareProject, PrepareFails, Raise, FinishRequest, FinishLost

\* _process_text_message_unlocked: no action of a plan is carried out without the
\* user's consent, however the request came to be started again.
THEOREM ConsentIsAsked == Spec => NothingWithoutConsent
  <1>1. Agreed /\ [Next]_vars => [applied' # applied => consent]_vars
    BY Commits DEF Agreed, ExecuteAction, CommitAmbiguous, InEffect, InPlan
  <1> QED
    BY <1>1, Agreement, PTL DEF Spec, NothingWithoutConsent

\* A handler that ends a plan without an error has carried it out.
LEMMA CompletedIsWhole ==
    ASSUME IInv, job.pc = "finish", job.outcome = "completed", row.plan
    PROVE  Effect \subseteq row.results
  <1>1. \A q \in Position : Done(q, row)
    BY DEF IInv, GoodJob, InProgress
  <1>2. ASSUME NEW q \in Position PROVE <<q, "effect">> \in row.results
    BY <1>1 DEF Done
  <1>3. ASSUME NEW q \in Project PROVE <<q, "project_tasks">> \in row.results
    BY <1>1, RequestsAssumption DEF Done, Position
  <1> QED
    BY <1>2, <1>3 DEF Effect

\* A handler that is at work on a plan with actions left came from /retry or has consent.
Invited == job.pc # "idle" => job.resume \/ consent \/ ~Unfinished

\* Nobody but the user starts a handler, and a handler stays what it was started as.
LEMMA ResumeStays ==
    ASSUME IInv, Next, ~Arrive, ~RetryRequest, job'.pc # "idle"
    PROVE  job.pc # "idle" /\ job'.resume = job.resume /\ UNCHANGED consent
  <1>1. job \in Job /\ job' # IdleJob
    BY DEF IInv, TypeOK, IdleJob
  <1>2. ASSUME NEW pc, Goto(pc) PROVE job'.resume = job.resume
    BY <1>1, <1>2 DEF Goto, Job
  <1>3. ASSUME NEW outcome, Finish(outcome) PROVE job'.resume = job.resume
    BY <1>1, <1>3 DEF Finish, Job
  <1>4. ASSUME NEW wrong, NextAction(wrong) PROVE job'.resume = job.resume
    BY <1>1, <1>4 DEF NextAction, Job
  <1>5. ASSUME NEW pc, Continue(pc) PROVE job'.resume = job.resume
    BY <1>2, <1>4, <1>5 DEF Continue
  <1>6. CASE ListRetries \/ AbandonRequest \/ SetConsent \/ Age \/ Crash
    BY <1>1, <1>6 DEF ListRetries, AbandonRequest, SetConsent, Age, Crash, Isolated
  <1>7. CASE ClaimRequest \/ Enter \/ PersistPlan \/ Raise
    BY <1>2, <1>3, <1>7 DEF ClaimRequest, Enter, PersistPlan, Raise
  <1>8. CASE \E outcome \in Outcomes : InterpretWithoutPlan(outcome)
    BY <1>3, <1>8 DEF InterpretWithoutPlan
  <1>9. CASE Duplicate \/ ClaimDbError \/ FinishRequest \/ FinishLost
    BY <1>1, <1>9 DEF Duplicate, ClaimDbError, FinishRequest, FinishLost, Leave
  <1>10. CASE ExecuteAction \/ ReplayAction \/ ActionFails \/ CommitAmbiguous
    BY <1>3, <1>4, <1>5, <1>10 DEF ExecuteAction, ReplayAction, ActionFails, CommitAmbiguous, InEffect
  <1>11. CASE PrepareProject \/ PrepareFails
    BY <1>4, <1>5, <1>11 DEF PrepareProject, PrepareFails
  <1> QED
    BY <1>6, <1>7, <1>8, <1>9, <1>10, <1>11 DEF Next, Work, Plan

\* Actions of a plan are left only where they were, or where the plan is saved.
LEMMA PlanOpens ==
    ASSUME IInv, Next, Unfinished', ~Unfinished
    PROVE  PersistPlan
  <1>0. row \in Row
    BY DEF IInv, TypeOK
  <1>1. ~Plan
    <2> SUFFICES ASSUME Plan PROVE FALSE
      OBVIOUS
    <2>1. row'.plan = row.plan /\ row'.abandoned = row.abandoned
      BY PlanWrites DEF IInv
    <2>2. \E S : row' = [row EXCEPT !.results = row.results \cup S]
      <3>1. row = [row EXCEPT !.results = row.results \cup {}]
        BY <1>0 DEF Row
      <3> QED
        BY <3>1 DEF Plan, ExecuteAction, ReplayAction, ActionFails, CommitAmbiguous, PrepareProject,
           PrepareFails, Apply
    <2>3. row.results \subseteq row'.results
      BY <1>0, <2>2 DEF Row
    <2> QED
      BY <2>1, <2>3 DEF Unfinished
  <1>2. ~ClaimRequest /\ ~FinishRequest /\ ~Age /\ ~AbandonRequest
    BY <1>0 DEF ClaimRequest, FinishRequest, Age, AbandonRequest, Unfinished, Row
  <1>3. row' # row
    BY DEF Unfinished
  <1> QED
    BY <1>1, <1>2, <1>3 DEF Next, Work, Arrive, RetryRequest, ListRetries, SetConsent, Crash,
       Duplicate, ClaimDbError, Enter, InterpretWithoutPlan, Raise, FinishLost

LEMMA InvitedStays ==
    ASSUME ~LateHandIn, IInv, Agreed, Invited, [Next]_vars
    PROVE  Invited'
  <1> SUFFICES ASSUME Next, job'.pc # "idle", Unfinished'
               PROVE  job'.resume \/ consent'
    BY DEF Invited, Unfinished, vars
  <1>1. CASE Arrive
    BY <1>1 DEF Arrive, Unfinished
  <1>2. CASE RetryRequest
    BY <1>2 DEF RetryRequest, IdleJob
  <1>3. CASE ~Arrive /\ ~RetryRequest
    <2>1. job.pc # "idle" /\ job'.resume = job.resume /\ consent' = consent
      BY <1>3, ResumeStays
    <2>2. PersistPlan => consent
      BY DEF PersistPlan, Agreed
    <2> QED
      BY <2>1, <2>2, PlanOpens DEF Invited
  <1> QED
    BY <1>1, <1>2, <1>3

LEMMA ListedStays ==
    ASSUME IInv, Agreed, Invited, UnfinishedIsListed, [Next]_vars
    PROVE  UnfinishedIsListed'
  <1> SUFFICES ASSUME Next, Unfinished', row'.status = "completed"
               PROVE  FALSE
    BY DEF UnfinishedIsListed, Unfinished, vars
  <1>0. row \in Row /\ job \in Job
    BY DEF IInv, TypeOK
  <1>1. row.status # "completed"
    BY PlanOpens DEF UnfinishedIsListed, PersistPlan, Agreed
  <1>2. FinishRequest
    <2>1. row' # row /\ ~Age /\ ~AbandonRequest /\ ~ClaimRequest /\ ~PersistPlan
      BY <1>0, <1>1 DEF Age, AbandonRequest, ClaimRequest, PersistPlan, Unfinished, Row
    <2>2. ~Plan
      BY <1>1, PlanWrites DEF IInv
    <2> QED
      BY <2>1, <2>2 DEF Next, Work, Arrive, RetryRequest, ListRetries, SetConsent, Crash, Duplicate,
         ClaimDbError, Enter, InterpretWithoutPlan, Raise, FinishLost
  <1>3. /\ FinishStatus = "completed" /\ row'.results = row.results /\ row'.plan = row.plan
        /\ row'.abandoned = row.abandoned /\ job.pc = "finish"
    BY <1>0, <1>2 DEF FinishRequest, Row
  <1>4. Unfinished
    BY <1>3 DEF Unfinished
  <1>5. job.outcome # "completed"
    BY <1>3, <1>4, CompletedIsWhole DEF Unfinished
  <1>6. job.outcome = "rejected"
    BY <1>0, <1>3, <1>4, <1>5 DEF FinishStatus, Agreed, Unfinished, Job, Outcomes
  <1>7. ~job.resume /\ ~consent
    BY <1>3, <1>4, <1>6 DEF FinishStatus, Agreed, Unfinished
  <1> QED
    BY <1>3, <1>4, <1>7 DEF Invited

\* _finish_request: where no message is handed in again without consent, no request is put
\* down as completed while actions of its plan are left, whatever fails or is cut short.
THEOREM UnfinishedStaysListed ==
    ASSUME ~LateHandIn
    PROVE  Spec => []UnfinishedIsListed
  <1>1. Init => Invited /\ UnfinishedIsListed
    BY DEF Init, IdleJob, Invited, UnfinishedIsListed
  <1>2. IInv /\ Agreed /\ Invited /\ UnfinishedIsListed /\ [Next]_vars
        => Invited' /\ UnfinishedIsListed'
    BY InvitedStays, ListedStays
  <1> QED
    BY <1>1, <1>2, Invariance, Agreement, PTL DEF Spec

-----------------------------------------------------------------------------
(* The journal keeps the promise of Undertaking. *)

\* In the words of the promise: what happened, happened once.
LEMMA Counts ==
    ASSUME IInv
    PROVE  /\ \A q \in Position : Carried[q] = IF <<q, "effect">> \in row.results THEN 1 ELSE 0
           /\ \A p \in Project : Tasked[p] = IF <<p, "project_tasks">> \in row.results THEN 1 ELSE 0
           /\ Promise!Whole <=> Effect \subseteq row.results
  <1>1. \A q \in Position : Carried[q] = IF <<q, "effect">> \in row.results THEN 1 ELSE 0
    BY DEF IInv, EffectsOnce, Carried, Effect
  <1>2. \A p \in Project : Tasked[p] = IF <<p, "project_tasks">> \in row.results THEN 1 ELSE 0
    BY DEF IInv, EffectsOnce, Tasked, Effect
  <1>3. Promise!Whole <=> Effect \subseteq row.results
    <2>1. ASSUME NEW q \in Position PROVE Carried[q] = 1 <=> <<q, "effect">> \in row.results
      BY <1>1
    <2>2. ASSUME NEW p \in Project PROVE Tasked[p] = 1 <=> <<p, "project_tasks">> \in row.results
      BY <1>2
    <2>3. Effect \subseteq row.results <=> /\ \A q \in Position : <<q, "effect">> \in row.results
                                          /\ \A p \in Project : <<p, "project_tasks">> \in row.results
      BY DEF Effect
    <2> QED
      BY <2>1, <2>2, <2>3 DEF Promise!Whole
  <1> QED
    BY <1>1, <1>2, <1>3

\* What the promise speaks of is a matter of five columns, the consent and the counts.
LEMMA SameStage ==
    ASSUME row'.plan = row.plan, row'.abandoned = row.abandoned,
           row'.status = "completed" <=> row.status = "completed",
           row.status = "completed" => row'.results = row.results
    PROVE  Stage' = Stage
BY DEF Stage

LEMMA Stutter ==
    ASSUME Stage' = Stage, row'.results = row.results, UNCHANGED <<applied, consent>>
    PROVE  UNCHANGED Promise!undertaking
BY DEF Promise!undertaking, Carried, CutUp, Tasked

LEMMA PromiseInit == Init => Promise!Init
  <1> SUFFICES ASSUME Init PROVE Promise!Init
    OBVIOUS
  <1>1. Stage = "new" /\ consent = TRUE /\ CutUp = {}
    BY DEF Init, Stage, CutUp
  <1>2. Carried = [q \in Position |-> 0] /\ Tasked = [p \in Project |-> 0]
    BY DEF Init, Carried, Tasked, Effect
  <1> QED
    BY <1>1, <1>2 DEF Promise!Init

\* The commit of an effect carries out the action, or saves the tasks of the project.
LEMMA ApplyPromised ==
    ASSUME IInv, Agreed, InEffect, ~Saved(Here), Apply(Here), UNCHANGED consent
    PROVE  Promise!Next
  <1> DEFINE pos == job.pos
  <1>1. /\ row \in Row /\ applied \in [Effect -> Nat] /\ InPhase(job, row)
        /\ row.status = "processing" /\ row.plan /\ consent
    BY DEF IInv, TypeOK, GoodJob, Agreed, InEffect, InPlan
  <1>2. pos \in Position /\ Here = <<pos, job.pc>> /\ Here \in Effect
    BY <1>1 DEF InPhase, InEffect, InPlan, Here, Effect
  <1>3. /\ row'.results = row.results \cup {Here} /\ row'.plan = row.plan
        /\ row'.status = row.status /\ row'.abandoned = row.abandoned
    BY <1>1 DEF Apply, Row
  <1>4. Stage = "open" /\ Stage' = "open" /\ CutUp' = CutUp
    <2>1. Stage = "open" /\ Stage' = Stage
      BY <1>1, <1>3, SameStage DEF Stage
    <2>2. \A p \in Project : <<p, "prepared_project">> # Here
      BY <1>2 DEF InEffect
    <2> QED
      BY <1>3, <2>1, <2>2 DEF CutUp
  <1>5. Promise!Underway /\ UNCHANGED consent
    BY <1>1, <1>4 DEF Promise!Underway
  <1>6. /\ applied[Here] = 0 /\ applied'[Here] = 1
        /\ \A e \in Effect : e # Here => applied'[e] = applied[e]
    BY <1>1, <1>2 DEF IInv, EffectsOnce, Saved, Apply
  <1>7. CASE job.pc = "effect"
    <2>1. Carried[pos] = 0
      BY <1>2, <1>6, <1>7 DEF Carried
    <2>2. Carried' = [Carried EXCEPT ![pos] = 1]
      BY <1>2, <1>6, <1>7 DEF Carried, Effect
    <2>3. Tasked' = Tasked
      BY <1>2, <1>6, <1>7 DEF Tasked, Effect
    <2>4. Promise!Do(pos)
      BY <1>4, <1>5, <2>1, <2>2, <2>3 DEF Promise!Do
    <2> QED
      BY <1>2, <2>4 DEF Promise!Next
  <1>8. CASE job.pc = "project_tasks"
    <2>1. pos \in Project /\ pos \in CutUp
      BY <1>1, <1>8 DEF InPhase, CutUp
    <2>2. Tasked[pos] = 0
      BY <1>2, <1>6, <1>8, <2>1 DEF Tasked
    <2>3. Tasked' = [Tasked EXCEPT ![pos] = 1]
      BY <1>2, <1>6, <1>8, <2>1 DEF Tasked, Effect
    <2>4. Carried' = Carried
      BY <1>2, <1>6, <1>8 DEF Carried, Effect
    <2>5. Promise!SaveTasks(pos)
      BY <1>4, <1>5, <2>1, <2>2, <2>3, <2>4 DEF Promise!SaveTasks
    <2> QED
      BY <2>1, <2>5 DEF Promise!Next
  <1> QED
    BY <1>7, <1>8 DEF InEffect

\* The cut of a project is settled once, after the project.
LEMMA CutPromised ==
    ASSUME IInv, Agreed, PrepareProject
    PROVE  Promise!Next \/ UNCHANGED Promise!undertaking
  <1> DEFINE pos == job.pos
  <1>1. /\ row \in Row /\ row.status = "processing" /\ row.plan /\ consent
        /\ job.pc = "prepared_project" /\ InPhase(job, row) /\ UNCHANGED <<applied, consent>>
    BY DEF IInv, TypeOK, GoodJob, Agreed, InPlan, PrepareProject
  <1>2. pos \in Project /\ <<pos, "effect">> \in row.results /\ pos \in Position
    BY <1>1, RequestsAssumption DEF InPhase, Position
  <1>3. CASE row' = row
    BY <1>1, <1>3, SameStage, Stutter
  <1>4. CASE row' = [row EXCEPT !.results = row.results \cup {Here}] /\ row' # row
    <2>1. /\ row'.results = row.results \cup {Here} /\ row'.plan = row.plan
          /\ row'.status = row.status /\ row'.abandoned = row.abandoned
      BY <1>1, <1>4 DEF Row
    <2>2. Stage = "open" /\ Stage' = Stage
      BY <1>1, <2>1, SameStage DEF Stage
    <2>3. Here = <<pos, "prepared_project">> /\ Here \notin row.results
      BY <1>1, <1>4 DEF Here, Row
    <2>4. CutUp' = CutUp \cup {pos} /\ pos \notin CutUp
      BY <1>2, <2>1, <2>3 DEF CutUp
    <2>5. Carried[pos] = 1
      BY <1>2, Counts
    <2>6. Carried' = Carried /\ Tasked' = Tasked
      BY <1>1 DEF Carried, Tasked
    <2>7. Promise!Cut(pos)
      BY <1>1, <2>2, <2>4, <2>5, <2>6 DEF Promise!Cut, Promise!Underway
    <2> QED
      BY <1>2, <2>7 DEF Promise!Next
  <1> QED
    BY <1>3, <1>4 DEF PrepareProject

\* A request is settled as what it is.
LEMMA SettledPromised ==
    ASSUME IInv, Agreed, UnfinishedIsListed, UnfinishedIsListed', FinishRequest \/ AbandonRequest
    PROVE  Promise!Next \/ UNCHANGED Promise!undertaking
  <1>1. row \in Row /\ job \in Job /\ UNCHANGED <<applied, consent>>
    BY DEF IInv, TypeOK, FinishRequest, AbandonRequest
  <1>2. row'.results = row.results /\ row'.plan = row.plan
    BY <1>1 DEF FinishRequest, AbandonRequest, Row
  <1>3. UNCHANGED <<Carried, CutUp, Tasked>>
    BY <1>1, <1>2 DEF Carried, CutUp, Tasked
  <1>4. Promise!Whole <=> Effect \subseteq row.results
    BY Counts
  <1>5. ASSUME FinishRequest, row'.status = "completed"
        PROVE  Promise!Next
    <2>1. /\ row.status = "processing" /\ ~row.abandoned /\ row'.abandoned = row.abandoned
          /\ job.pc = "finish" /\ FinishStatus = "completed"
      BY <1>1, <1>5 DEF FinishRequest, Agreed, Row
    <2>2. CASE ~row.plan
      <3>1. Stage = "new" /\ Stage' = "answered"
        BY <1>2, <1>5, <2>1, <2>2 DEF Stage
      <3> QED
        BY <1>1, <1>3, <3>1 DEF Promise!Next, Promise!Answer
    <2>3. CASE row.plan
      <3>1. Promise!Whole
        BY <1>2, <1>4, <1>5, <2>1, <2>3 DEF UnfinishedIsListed, Unfinished
      <3>2. Stage = "open" /\ Stage' = "carried out"
        BY <1>2, <1>4, <1>5, <2>1, <2>3, <3>1 DEF Stage
      <3>3. Promise!Settle
        BY <1>1, <1>3, <3>1, <3>2 DEF Promise!Settle
      <3> QED
        BY <3>3 DEF Promise!Next
    <2> QED
      BY <2>2, <2>3
  <1>6. ASSUME FinishRequest, row'.status # "completed"
        PROVE  UNCHANGED Promise!undertaking
    <2>1. row.status # "completed" /\ row'.abandoned = row.abandoned
      BY <1>1, <1>6 DEF FinishRequest, Agreed, Row
    <2> QED
      BY <1>1, <1>2, <1>6, <2>1, SameStage, Stutter
  <1>7. ASSUME AbandonRequest
        PROVE  Promise!Next \/ UNCHANGED Promise!undertaking
    <2>1. row.plan /\ row'.abandoned /\ row'.status = "completed"
      BY <1>1, <1>7 DEF AbandonRequest, Agreed, Row
    <2>2. Stage' = IF Promise!Whole THEN "carried out" ELSE "given up"
      BY <1>2, <1>4, <2>1 DEF Stage
    <2>3. Stage \in {"open", Stage'}
      BY <1>4, <2>1, <2>2 DEF Stage, UnfinishedIsListed, Unfinished
    <2>4. CASE Stage' = Stage
      BY <1>1, <1>2, <2>4, Stutter
    <2>5. CASE Stage' # Stage
      <3>1. Promise!Settle
        BY <1>1, <1>3, <2>2, <2>3, <2>5 DEF Promise!Settle
      <3> QED
        BY <3>1 DEF Promise!Next
    <2> QED
      BY <2>4, <2>5
  <1> QED
    BY <1>5, <1>6, <1>7

\* The remaining steps change nothing the promise speaks of, but for the consent
\* and the proposal of a plan.
LEMMA OtherPromised ==
    ASSUME IInv, Agreed,
           \/ Arrive \/ RetryRequest \/ ClaimRequest \/ Duplicate \/ ClaimDbError \/ Enter
           \/ \E outcome \in Outcomes : InterpretWithoutPlan(outcome)
           \/ PersistPlan \/ ReplayAction \/ ActionFails \/ PrepareFails \/ Raise \/ FinishLost
           \/ ListRetries \/ SetConsent \/ Age \/ Crash \/ UNCHANGED vars
    PROVE  Promise!Next \/ UNCHANGED Promise!undertaking
  <1>1. row \in Row /\ UNCHANGED applied
    BY DEF IInv, TypeOK, Arrive, RetryRequest, ClaimRequest, Duplicate, ClaimDbError, Enter,
       InterpretWithoutPlan, PersistPlan, ReplayAction, ActionFails, PrepareFails, Raise, FinishLost,
       ListRetries, SetConsent, Age, Crash, vars
  <1>2. CASE PersistPlan
    <2>1. row.status = "processing" /\ ~row.plan /\ consent
      BY <1>2 DEF PersistPlan, IInv, GoodJob, InProgress, Agreed
    <2>2. row'.plan /\ row'.status = row.status /\ row'.results = row.results /\ UNCHANGED consent
      BY <1>1, <1>2 DEF PersistPlan, Row
    <2>3. Stage = "new" /\ Stage' = "open"
      BY <2>1, <2>2 DEF Stage
    <2>4. UNCHANGED <<Carried, CutUp, Tasked>>
      BY <1>1, <2>2 DEF Carried, CutUp, Tasked
    <2> QED
      BY <2>1, <2>2, <2>3, <2>4 DEF Promise!Next, Promise!Propose
  <1>3. CASE SetConsent
    <2>1. UNCHANGED <<Stage, Carried, CutUp, Tasked>> /\ consent' = ~consent
      BY <1>3 DEF SetConsent, Stage, Unfinished, Carried, CutUp, Tasked
    <2> QED
      BY <2>1 DEF Promise!Next, Promise!Consent
  <1>4. CASE ClaimRequest \/ Age
    <2>1. /\ row'.status = "processing" /\ row'.plan = row.plan /\ row'.results = row.results
          /\ row'.abandoned = row.abandoned /\ row.status # "completed" /\ UNCHANGED consent
      BY <1>1, <1>4 DEF ClaimRequest, Claimable, Listable, Age, Row
    <2> QED
      BY <1>1, <2>1, SameStage, Stutter
  <1>5. CASE ~PersistPlan /\ ~SetConsent /\ ~ClaimRequest /\ ~Age
    <2>1. UNCHANGED <<row, consent>>
      BY <1>5 DEF Arrive, RetryRequest, Duplicate, ClaimDbError, Enter, InterpretWithoutPlan,
         ReplayAction, ActionFails, PrepareFails, Raise, FinishLost, ListRetries, Crash, vars
    <2> QED
      BY <1>1, <2>1, SameStage, Stutter
  <1> QED
    BY <1>2, <1>3, <1>4, <1>5

LEMMA PromiseStep ==
    ASSUME IInv, Agreed, UnfinishedIsListed, UnfinishedIsListed', [Next]_vars
    PROVE  [Promise!Next]_(Promise!undertaking)
  <1>1. CASE ExecuteAction \/ CommitAmbiguous
    <2>1. InEffect /\ ~Saved(Here) /\ Apply(Here) /\ UNCHANGED consent
      BY <1>1 DEF ExecuteAction, CommitAmbiguous
    <2> QED
      BY <2>1, ApplyPromised
  <1>2. CASE PrepareProject
    BY <1>2, CutPromised
  <1>3. CASE FinishRequest \/ AbandonRequest
    BY <1>3, SettledPromised
  <1>4. CASE ~ExecuteAction /\ ~CommitAmbiguous /\ ~PrepareProject /\ ~FinishRequest /\ ~AbandonRequest
    BY <1>4, OtherPromised DEF Next, Work, Plan
  <1> QED
    BY <1>1, <1>2, <1>3, <1>4

\* _claim_request, execute_action, _finish_request and abandon_request keep the
\* promise: a plan is carried out with consent and no part of it twice, it ends as
\* what the row says, and what has ended never begins again, where no message is handed in again without consent.
THEOREM KeepsUndertaking ==
    ASSUME ~LateHandIn
    PROVE  Spec => ImplementsUndertaking
  <1>1. Spec => []UnfinishedIsListed
    BY UnfinishedStaysListed
  <1> QED
    BY <1>1, PromiseInit, PromiseStep, Invariance, Agreement, PTL
    DEF Spec, ImplementsUndertaking, Promise!Spec

-----------------------------------------------------------------------------
(***************************************************************************)
(* The queue of the language model, which a request passes on its way to a *)
(* plan, for any number of callers and any capacity.                       *)
(***************************************************************************)
Busy == {"running", "cancelling"}
Outside == {"none", "putting"}

\* The coroutine of a request starts when the worker takes it out of the queue.
Untouched ==
    /\ \A r \in queue : caller[r] \notin Outside /\ coro[r] = "new"
    /\ \A r \in Request : caller[r] \in Outside => coro[r] = "new"

\* Only the coroutine the worker waits for is at work.
AtWorker ==
    /\ worker = "run" => current \in Request \ queue /\ coro[current] # "new"
    /\ \A r \in Request : coro[r] \in Busy => worker = "run" /\ current = r

QueueInv == /\ QueueTypeOK /\ JoinCounts /\ Untouched /\ AtWorker
            /\ stop = "stopped" => worker = "ended"

LEMMA QueueSize ==
    ASSUME QueueTypeOK
    PROVE  /\ Cardinality(queue) \in Nat /\ MaxSize \in Nat /\ unfinished \in Nat
           /\ \A r \in Request \ queue : Cardinality(queue \cup {r}) = Cardinality(queue) + 1
           /\ \A r \in queue : Cardinality(queue \ {r}) = Cardinality(queue) - 1
<1>1. IsFiniteSet(queue)
  BY FS_Subset, LLMQueueAssumption DEF QueueTypeOK
<1>2. /\ Cardinality(queue) \in Nat
      /\ \A r \in Request \ queue : Cardinality(queue \cup {r}) = Cardinality(queue) + 1
      /\ \A r \in queue : Cardinality(queue \ {r}) = Cardinality(queue) - 1
  BY <1>1, FS_CardinalityType, FS_AddElement, FS_RemoveElement
<1>3. unfinished \in Nat
  BY DEF QueueTypeOK
<1> QED
  BY <1>2, <1>3, LLMQueueAssumption

LEMMA QueueBegins == ASSUME QueueInit PROVE QueueInv
<1>1. Cardinality(queue) = 0
  BY FS_EmptySet DEF QueueInit
<1>2. Cardinality(queue) <= MaxSize
  BY <1>1, LLMQueueAssumption
<1>3. QueueTypeOK
  BY <1>2 DEF QueueInit, QueueTypeOK
<1>4. JoinCounts
  BY <1>1 DEF QueueInit, JoinCounts
<1>5. Untouched /\ AtWorker /\ stop # "stopped"
  BY DEF QueueInit, Untouched, AtWorker, Busy
<1> QED
  BY <1>3, <1>4, <1>5 DEF QueueInv

\* A request gets its place: it was neither there nor with the worker.
LEMMA PlaceKeeps ==
    ASSUME QueueInv, NEW r \in Request, caller[r] \in Outside,
           Room, Enqueue(r), ticket' \in [Request -> Nat],
           UNCHANGED <<future, coro, worker, current, interrupted, stop>>
    PROVE  QueueInv'
<1> USE DEF QueueInv
<1>1. r \in Request \ queue /\ coro[r] = "new"
  BY DEF Untouched
<1>2. /\ Cardinality(queue') = Cardinality(queue) + 1 /\ Cardinality(queue) \in Nat
      /\ MaxSize \in Nat /\ unfinished \in Nat
  BY <1>1, QueueSize DEF Enqueue
<1>3. Cardinality(queue') <= MaxSize /\ unfinished' \in Nat
  BY <1>2 DEF Room, Enqueue
<1>4. QueueTypeOK' /\ JoinCounts'
  <2>1. QueueTypeOK'
    BY <1>3 DEF QueueTypeOK, Enqueue, Waiting
  <2>2. JoinCounts'
    BY <1>2 DEF JoinCounts, Enqueue
  <2> QED
    BY <2>1, <2>2
<1>5. /\ queue' = queue \cup {r} /\ caller'[r] = "waiting"
      /\ \A s \in Request : s # r => caller'[s] = caller[s]
  BY DEF Enqueue, QueueTypeOK
<1>6. Untouched'
  BY <1>1, <1>5 DEF Untouched, QueueTypeOK, Outside
<1>7. AtWorker'
  BY <1>1, <1>5 DEF AtWorker, Busy
<1> QED
  BY <1>4, <1>6, <1>7

\* A coroutine moves on, or is closed before it began; queue and worker stay.
LEMMA CoroutineKeeps ==
    ASSUME QueueInv, NEW r \in Request, NEW c \in Over \cup {"cancelling"},
           coro' = [coro EXCEPT ![r] = c], coro[r] \in Busy \/ (caller[r] = "putting" /\ c \notin Busy),
           caller' = caller \/ caller' = [caller EXCEPT ![r] = "timed out"],
           caller[r] = "putting" => caller'[r] = "timed out",
           future' \in [Request -> {"pending", "done", "cancelled"}],
           UNCHANGED <<ticket, queue, unfinished, worker, current, interrupted, stop>>
    PROVE  QueueInv'
<1> USE DEF QueueInv
<1>1. r \notin queue
  BY DEF Untouched, Busy, Outside
<1>2. QueueTypeOK'
  BY DEF QueueTypeOK
<1>3. JoinCounts'
  BY DEF JoinCounts
<1>4. c # "new"
  BY DEF Over
<1>5. \A s \in Request : s # r => coro'[s] = coro[s] /\ caller'[s] = caller[s]
  BY DEF QueueTypeOK
<1>6. coro'[r] = c /\ (caller'[r] = caller[r] \/ caller'[r] = "timed out")
  BY DEF QueueTypeOK
<1>7. caller'[r] \notin Outside
  BY <1>6 DEF Untouched, Outside, Busy, QueueTypeOK
<1>8. Untouched'
  BY <1>1, <1>5, <1>7 DEF Untouched, QueueTypeOK
<1>9. AtWorker'
  <2>1. worker' = "run" => current' \in Request \ queue' /\ coro'[current'] # "new"
    BY <1>4, <1>5, <1>6 DEF AtWorker
  <2>2. ASSUME NEW s \in Request, coro'[s] \in Busy PROVE worker' = "run" /\ current' = s
    BY <1>5, <1>6, <2>2 DEF AtWorker
  <2> QED
    BY <2>1, <2>2 DEF AtWorker
<1> QED
  BY <1>2, <1>3, <1>8, <1>9

\* The worker lets go of its request, or ends; the coroutines are what they were.
LEMMA WorkerKeeps ==
    ASSUME QueueInv, Resume
    PROVE  QueueInv'
<1> USE DEF QueueInv
<1>1. /\ worker = "run" /\ worker' \in {"get", "ended"} /\ current' = NoRequest /\ interrupted' = FALSE
      /\ unfinished' = unfinished - 1 /\ coro[current] \in Over
      /\ UNCHANGED <<caller, coro, ticket, queue, stop>>
  BY DEF Resume, Awaited
<1>2. current \in Request
  BY <1>1 DEF AtWorker
<1>3. future' \in [Request -> {"pending", "done", "cancelled"}]
  BY <1>2 DEF Resume, QueueTypeOK
<1>4. Cardinality(queue) \in Nat /\ unfinished = Cardinality(queue) + 1
  <2>1. Cardinality(queue) \in Nat
    BY QueueSize
  <2> QED
    BY <1>1, <2>1 DEF JoinCounts
<1>5. unfinished' = Cardinality(queue)
  BY <1>1, <1>4
<1>6. unfinished' \in Nat /\ unfinished' = Cardinality(queue')
                                           + (IF worker' = "run" THEN 1 ELSE 0)
  BY <1>1, <1>4, <1>5
<1>7. QueueTypeOK' /\ JoinCounts'
  <2>1. QueueTypeOK'
    BY <1>1, <1>3, <1>6 DEF QueueTypeOK
  <2> QED
    BY <1>6, <2>1 DEF JoinCounts
<1>8. Untouched'
  BY <1>1 DEF Untouched
<1>9. AtWorker'
  <2>1. \A r \in Request : coro[r] \notin Busy
    BY <1>1 DEF AtWorker, Busy, Over
  <2> QED
    BY <1>1, <2>1 DEF AtWorker
<1>10. stop' # "stopped"
  BY <1>1
<1> QED
  BY <1>7, <1>8, <1>9, <1>10

\* The worker takes the next request, to run it or because its caller gave up.
LEMMA TakeKeeps ==
    ASSUME QueueInv, NEW r \in Request, Run(r) \/ Skip(r)
    PROVE  QueueInv'
<1> USE DEF QueueInv
<1>1. /\ worker = "get" /\ r \in queue /\ queue' = queue \ {r}
      /\ UNCHANGED <<caller, future, ticket, interrupted, stop>>
  BY DEF Run, Skip, Front
<1>2. /\ Cardinality(queue') = Cardinality(queue) - 1 /\ Cardinality(queue) \in Nat
      /\ MaxSize \in Nat /\ unfinished \in Nat
  BY <1>1, QueueSize
<1>3. Cardinality(queue) <= MaxSize /\ unfinished = Cardinality(queue)
  <2>1. Cardinality(queue) <= MaxSize
    BY DEF QueueTypeOK
  <2>2. unfinished = Cardinality(queue) + 0
    BY <1>1 DEF JoinCounts
  <2> QED
    BY <1>2, <2>1, <2>2
<1>4. Cardinality(queue') <= MaxSize
  BY <1>2, <1>3
<1>5. \A s \in Request : coro[s] \notin Busy
  BY <1>1 DEF AtWorker
<1>6. CASE Run(r)
  <2>1. /\ coro' = [coro EXCEPT ![r] = "running"] /\ worker' = "run" /\ current' = r
        /\ unfinished' = unfinished
    BY <1>6 DEF Run
  <2>2. QueueTypeOK'
    BY <1>1, <1>4, <2>1 DEF QueueTypeOK
  <2>3. JoinCounts'
    BY <1>2, <1>3, <2>1 DEF JoinCounts
  <2>4. /\ coro'[r] = "running" /\ \A s \in Request : s # r => coro'[s] = coro[s]
    BY <2>1 DEF QueueTypeOK
  <2>5. Untouched' /\ AtWorker'
    BY <1>1, <1>5, <2>1, <2>4 DEF Untouched, AtWorker, QueueTypeOK
  <2> QED
    BY <1>1, <2>2, <2>3, <2>5
<1>7. CASE Skip(r)
  <2>1. /\ coro' = [coro EXCEPT ![r] = "closed"] /\ UNCHANGED <<worker, current>>
        /\ unfinished' = unfinished - 1
    BY <1>7 DEF Skip
  <2>2. unfinished' \in Nat
    <3>1. Cardinality(queue') \in Nat
      <4>1. IsFiniteSet(queue')
        BY <1>1, FS_Subset, LLMQueueAssumption DEF QueueTypeOK
      <4> QED
        BY <4>1, FS_CardinalityType
    <3> QED
      BY <1>2, <1>3, <2>1, <3>1
  <2>3. QueueTypeOK'
    BY <1>1, <1>4, <2>1, <2>2 DEF QueueTypeOK, Over
  <2>4. JoinCounts'
    BY <1>1, <1>2, <1>3, <2>1 DEF JoinCounts
  <2>5. /\ coro'[r] = "closed" /\ \A s \in Request : s # r => coro'[s] = coro[s]
    BY <2>1 DEF QueueTypeOK
  <2>6. Untouched' /\ AtWorker'
    BY <1>1, <1>5, <2>1, <2>5 DEF Untouched, AtWorker, QueueTypeOK, Busy
  <2> QED
    BY <1>1, <2>3, <2>4, <2>6
<1> QED
  BY <1>6, <1>7

\* stop() empties what is left once the worker has ended.
LEMMA DrainKeeps ==
    ASSUME QueueInv, Drain
    PROVE  QueueInv'
<1> USE DEF QueueInv
<1>1. /\ worker = "ended" /\ queue' = {} /\ stop' = "stopped"
      /\ unfinished' = unfinished - Cardinality(queue)
      /\ coro' = [r \in Request |-> IF r \in queue THEN "closed" ELSE coro[r]]
      /\ UNCHANGED <<caller, ticket, worker, current, interrupted>>
  BY DEF Drain, Ended
<1>2. Cardinality(queue) \in Nat /\ Cardinality({}) = 0 /\ MaxSize \in Nat
  BY QueueSize, FS_EmptySet
<1>3. unfinished = Cardinality(queue) + 0
  BY <1>1 DEF JoinCounts
<1>4. unfinished' = 0 /\ Cardinality(queue') = 0 /\ 0 <= MaxSize
  BY <1>1, <1>2, <1>3
<1>5. future' \in [Request -> {"pending", "done", "cancelled"}]
  BY DEF Drain, QueueTypeOK
<1>6. coro' \in [Request -> Over \cup {"new", "running", "cancelling"}]
  BY <1>1 DEF QueueTypeOK, Over
<1>7. unfinished' \in Nat /\ Cardinality(queue') <= MaxSize
  BY <1>4
<1>8. QueueTypeOK'
  BY <1>1, <1>5, <1>6, <1>7 DEF QueueTypeOK
<1>9. JoinCounts'
  BY <1>1, <1>4 DEF JoinCounts
<1>10. Untouched' /\ AtWorker'
  BY <1>1 DEF Untouched, AtWorker, Busy, Outside
<1> QED
  BY <1>1, <1>8, <1>9, <1>10

\* A step of a caller, or the beginning and the impatience of stop().
LEMMA CallerKeeps ==
    ASSUME QueueInv,
           \/ \E r \in Request : Submit(r) \/ Put(r) \/ Return(r) \/ Timeout(r)
           \/ Stop \/ CancelWorker
    PROVE  QueueInv'
<1> USE DEF QueueInv
<1>1. ASSUME NEW r \in Request, Submit(r) \/ Put(r)
      PROVE  QueueInv'
  <2>1. ticket' \in [Request -> Nat] /\ caller[r] \in Outside
        /\ UNCHANGED <<future, coro, worker, current, interrupted, stop>>
    <3>1. Cardinality(Submitted) \in Nat
      <4>1. IsFiniteSet(Submitted)
        BY FS_Subset, LLMQueueAssumption DEF Submitted
      <4> QED
        BY <4>1, FS_CardinalityType
    <3>2. Cardinality(Submitted) + 1 \in Nat
      BY <3>1
    <3> QED
      BY <1>1, <3>2 DEF Submit, Put, QueueTypeOK, Outside
  <2>2. CASE Room /\ Enqueue(r)
    BY <2>1, <2>2, PlaceKeeps
  <2>3. CASE caller[r] = "none" /\ caller' = [caller EXCEPT ![r] = "putting"] /\ UNCHANGED <<queue, unfinished>>
    <3>1. QueueTypeOK'
      BY <2>1, <2>3 DEF QueueTypeOK, Waiting
    <3>2. JoinCounts'
      BY <2>1, <2>3 DEF JoinCounts
    <3>3. Untouched' /\ AtWorker'
      BY <2>1, <2>3 DEF Untouched, AtWorker, QueueTypeOK, Outside
    <3> QED
      BY <2>1, <3>1, <3>2, <3>3
  <2> QED
    BY <1>1, <2>2, <2>3 DEF Submit, Put
<1>2. ASSUME UNCHANGED <<ticket, queue, unfinished, worker, current>>, stop' # "stopped" \/ UNCHANGED stop,
             coro' = coro, interrupted' \in BOOLEAN, stop' \in {"no", "joining", "cancelling", "stopped"},
             future' \in [Request -> {"pending", "done", "cancelled"}],
             caller' \in [Request -> Waiting \cup {"none", "returned", "timed out"}],
             \A s \in Request : caller'[s] \in Outside => caller[s] \in Outside
      PROVE  QueueInv'
  <2>1. QueueTypeOK'
    BY <1>2 DEF QueueTypeOK
  <2>2. JoinCounts'
    BY <1>2 DEF JoinCounts
  <2>3. Untouched' /\ AtWorker'
    BY <1>2 DEF Untouched, AtWorker, QueueTypeOK
  <2> QED
    BY <1>2, <2>1, <2>2, <2>3
<1>3. ASSUME NEW r \in Request, Return(r)
      PROVE  QueueInv'
  BY <1>2, <1>3 DEF Return, QueueTypeOK, Outside
<1>4. ASSUME NEW r \in Request, Timeout(r)
      PROVE  QueueInv'
  <2>1. /\ caller' = [caller EXCEPT ![r] = "timed out"] /\ caller[r] \in Waiting
        /\ UNCHANGED <<ticket, queue, unfinished, worker, current, interrupted, stop>>
        /\ future' \in [Request -> {"pending", "done", "cancelled"}]
    BY <1>4 DEF Timeout, Limited, QueueTypeOK
  <2>2. caller'[r] = "timed out"
    BY <2>1 DEF QueueTypeOK
  <2>3. CASE coro[r] = "running" /\ coro' = [coro EXCEPT ![r] = "cancelling"]
    <3>1. caller[r] # "putting"
      BY <2>3 DEF Untouched, Outside
    <3> QED
      BY <2>1, <2>2, <2>3, <3>1, CoroutineKeeps DEF Busy
  <2>4. CASE caller[r] = "putting" /\ coro' = [coro EXCEPT ![r] = "closed"]
    <3>1. "closed" \in Over /\ "closed" \notin Busy
      BY DEF Over, Busy
    <3> QED
      BY <2>1, <2>2, <2>4, <3>1, CoroutineKeeps
  <2>5. CASE coro' = coro
    <3>1. caller' \in [Request -> Waiting \cup {"none", "returned", "timed out"}]
      BY <2>1 DEF QueueTypeOK
    <3>2. interrupted' \in BOOLEAN /\ stop' \in {"no", "joining", "cancelling", "stopped"}
      BY <2>1 DEF QueueTypeOK
    <3>3. \A s \in Request : caller'[s] \in Outside => caller[s] \in Outside
      BY <2>1 DEF Outside, QueueTypeOK
    <3> QED
      BY <1>2, <2>1, <2>5, <3>1, <3>2, <3>3
  <2>6. \/ coro[r] = "running" /\ coro' = [coro EXCEPT ![r] = "cancelling"]
        \/ caller[r] = "putting" /\ coro' = [coro EXCEPT ![r] = "closed"]
        \/ coro' = coro
    BY <1>4 DEF Timeout, QueueTypeOK
  <2> QED
    BY <2>3, <2>4, <2>5, <2>6
<1>5. CASE Stop
  BY <1>2, <1>5 DEF Stop, QueueTypeOK, requests
<1>6. CASE CancelWorker
  <2>1. /\ stop' = "cancelling" /\ interrupted' \in BOOLEAN
        /\ UNCHANGED <<caller, future, ticket, queue, unfinished, current>>
        /\ worker' = IF worker = "get" THEN "ended" ELSE worker
        /\ coro' = IF worker = "run" /\ coro[current] = "running"
                   THEN [coro EXCEPT ![current] = "cancelling"] ELSE coro
    BY <1>6 DEF CancelWorker
  <2>2. worker' = "run" <=> worker = "run"
    BY <2>1
  <2>3. coro' \in [Request -> Over \cup {"new", "running", "cancelling"}]
    BY <2>1 DEF QueueTypeOK
  <2>4. QueueTypeOK'
    BY <2>1, <2>3 DEF QueueTypeOK
  <2>5. JoinCounts'
    BY <2>1, <2>2 DEF JoinCounts
  <2>6. \A s \in Request : \/ coro'[s] = coro[s]
                           \/ coro[s] \in Busy /\ coro'[s] \in Busy
    BY <2>1 DEF QueueTypeOK, Busy
  <2>7. Untouched'
    BY <2>1, <2>6 DEF Untouched, Busy, QueueTypeOK
  <2>8. AtWorker'
    <3>1. worker' = "run" => current' \in Request \ queue' /\ coro'[current'] # "new"
      BY <2>1, <2>2, <2>6 DEF AtWorker, Busy
    <3>2. ASSUME NEW s \in Request, coro'[s] \in Busy PROVE worker' = "run" /\ current' = s
      BY <2>1, <2>2, <2>6, <3>2 DEF AtWorker
    <3> QED
      BY <3>1, <3>2 DEF AtWorker
  <2> QED
    BY <2>1, <2>4, <2>5, <2>7, <2>8
<1> QED
  BY <1>1, <1>3, <1>4, <1>5, <1>6

LEMMA QueueStep ==
    ASSUME QueueInv, [QueueNext]_queueVars
    PROVE  QueueInv'
<1>1. CASE UNCHANGED queueVars
  <2>1. UNCHANGED <<caller, future, coro, ticket, queue, unfinished, worker, current, interrupted, stop>>
    BY <1>1 DEF queueVars
  <2>2. QueueTypeOK' /\ JoinCounts'
    <3>1. QueueTypeOK'
      BY <2>1 DEF QueueInv, QueueTypeOK
    <3> QED
      BY <2>1, <3>1 DEF QueueInv, JoinCounts
  <2> QED
    BY <2>1, <2>2 DEF QueueInv, Untouched, AtWorker
<1>2. CASE Coroutine
  <2>1. PICK r \in Request, how \in {"finished", "cancelled"} : CoroutineEnds(r, how)
    BY <1>2 DEF Coroutine
  <2>2. coro[r] \in Busy /\ coro' = [coro EXCEPT ![r] = how] /\ how \in Over
    BY <2>1 DEF CoroutineEnds, Busy, Over
  <2>3. UNCHANGED <<caller, future, ticket, queue, unfinished, worker, current, interrupted, stop>>
    BY <2>1 DEF CoroutineEnds
  <2>4. caller[r] # "putting" /\ future' \in [Request -> {"pending", "done", "cancelled"}]
    BY <2>2, <2>3 DEF QueueInv, Untouched, QueueTypeOK, Busy, Outside
  <2> QED
    BY <2>2, <2>3, <2>4, CoroutineKeeps
<1>3. CASE Worker
  BY <1>3, WorkerKeeps, TakeKeeps DEF Worker
<1> QED
  BY <1>1, <1>2, <1>3, CallerKeeps, DrainKeeps DEF QueueNext

\* The queue, its counter and its worker agree in every reachable state.
THEOREM QueueInvariance == QueueSpec => []QueueInv
  BY QueueBegins, QueueStep, PTL DEF QueueSpec

\* The counter behind join() is exact and one request is served at a time, whoever
\* times out or is cancelled while its coroutine unwinds.
THEOREM QueueStaysExact == QueueSpec => []QueueIsExact
<1>1. QueueInv => QueueIsExact
  <2>1. QueueInv => OneAtATime
    BY DEF QueueInv, AtWorker, OneAtATime, Busy
  <2> QED
    BY <2>1 DEF QueueInv, QueueIsExact
<1> QED
  BY <1>1, QueueInvariance, PTL

\* When stop() has returned no coroutine talks to the model.
THEOREM StopIsQuiet == QueueSpec => []StoppedIsQuiet
<1>1. QueueInv => StoppedIsQuiet
  BY DEF QueueInv, AtWorker, StoppedIsQuiet, Busy
<1> QED
  BY <1>1, QueueInvariance, PTL

-----------------------------------------------------------------------------
(* The queue keeps the promise of Service. *)

\* A caller who is gone has taken or lost its future; only a stop cancels a future
\* its caller still waits for, or a coroutine whose caller has not given up.
FutureInv ==
    /\ \A r \in Request : caller[r] \in Outside => future[r] = "pending"
    /\ \A r \in Request : caller[r] \in {"returned", "timed out"} => future[r] # "pending"
    /\ \A r \in Request : caller[r] = "waiting" /\ future[r] = "cancelled" => stop = "stopped"
    /\ \A r \in queue : future[r] # "done" /\ (caller[r] = "waiting" => future[r] = "pending")
    /\ interrupted => stop # "no"
    /\ \A r \in Request : coro[r] \in {"cancelling", "cancelled"} /\ future[r] = "pending"
                          => stop # "no"

LEMMA FutureBegins == QueueInit => FutureInv
BY DEF QueueInit, FutureInv, Outside

\* The callers and their timeouts.
LEMMA CallersKeepFutures ==
    ASSUME QueueInv, FutureInv, NEW r \in Request, Submit(r) \/ Put(r) \/ Return(r) \/ Timeout(r)
    PROVE  FutureInv'
<1> USE DEF FutureInv
<1>1. QueueTypeOK /\ queue \subseteq Request
  BY DEF QueueInv, QueueTypeOK
<1>2. \A s \in Request : s # r => caller'[s] = caller[s] /\ future'[s] = future[s] /\ coro'[s] = coro[s]
  BY <1>1 DEF Submit, Put, Return, Timeout, Enqueue, QueueTypeOK
<1>3. UNCHANGED <<stop, interrupted>>
  BY DEF Submit, Put, Return, Timeout
<1>4. CASE Submit(r) \/ Put(r)
  <2>1. /\ caller[r] \in Outside /\ caller'[r] \in {"putting", "waiting"} /\ queue' \subseteq queue \cup {r}
        /\ UNCHANGED <<future, coro>>
    BY <1>1, <1>4 DEF Submit, Put, Enqueue, QueueTypeOK, Outside
  <2> QED
    BY <1>1, <1>2, <1>3, <2>1
<1>5. CASE Return(r)
  <2>1. /\ caller'[r] = "returned" /\ future[r] # "pending" /\ UNCHANGED <<future, coro, queue>>
    BY <1>1, <1>5 DEF Return, QueueTypeOK
  <2> QED
    BY <1>1, <1>2, <1>3, <2>1 DEF Outside
<1>6. CASE Timeout(r)
  <2>1. /\ caller'[r] = "timed out" /\ UNCHANGED queue /\ future'[r] # "pending"
        /\ future'[r] = "done" => future[r] = "done"
    BY <1>1, <1>6 DEF Timeout, QueueTypeOK
  <2> QED
    BY <1>1, <1>2, <1>3, <2>1 DEF Outside
<1> QED
  BY <1>4, <1>5, <1>6

\* The worker, its coroutine and stop.
LEMMA WorkKeepsFutures ==
    ASSUME QueueInv, FutureInv, Worker \/ Coroutine \/ Stop \/ CancelWorker \/ Drain
    PROVE  FutureInv'
<1> USE DEF FutureInv
<1>1. QueueTypeOK /\ AtWorker /\ Untouched /\ queue \subseteq Request
  BY DEF QueueInv, QueueTypeOK
<1>2. ASSUME NEW r \in Request, Run(r) \/ Skip(r)
      PROVE  FutureInv'
  <2>1. /\ queue' \subseteq queue /\ UNCHANGED <<caller, future, interrupted, stop>>
        /\ \A s \in Request : coro'[s] \in {coro[s], "running", "closed"}
    BY <1>1, <1>2 DEF Run, Skip, QueueTypeOK
  <2> QED
    BY <2>1
<1>3. ASSUME Resume
      PROVE  FutureInv'
  <2>1. current \in Request \ queue /\ UNCHANGED <<caller, coro, queue, stop>> /\ ~interrupted'
    BY <1>1, <1>3 DEF Resume, AtWorker
  <2>2. /\ \A s \in Request : s # current => future'[s] = future[s]
        /\ future'[current] = future[current] \/ (future[current] = "pending" /\ future'[current] = "done")
    BY <1>1, <1>3, <2>1 DEF Resume, QueueTypeOK
  <2>3. caller[current] \notin Outside
    BY <1>1, <1>3 DEF Resume, AtWorker, Untouched
  <2> QED
    BY <1>1, <2>1, <2>2, <2>3
<1>4. ASSUME NEW r \in Request, NEW how \in {"finished", "cancelled"}, CoroutineEnds(r, how)
      PROVE  FutureInv'
  <2>1. /\ UNCHANGED <<caller, future, queue, interrupted, stop>>
        /\ \A s \in Request : s # r => coro'[s] = coro[s]
        /\ coro'[r] \in {"cancelling", "cancelled"} => coro[r] \in {"cancelling", "cancelled"}
    BY <1>1, <1>4 DEF CoroutineEnds, QueueTypeOK
  <2> QED
    BY <2>1
<1>5. ASSUME Stop \/ CancelWorker
      PROVE  FutureInv'
  <2>1. stop' \notin {"no", "stopped"} /\ stop # "stopped" /\ UNCHANGED <<caller, future, queue>>
    BY <1>5 DEF Stop, CancelWorker, requests
  <2> QED
    BY <2>1
<1>6. ASSUME Drain
      PROVE  FutureInv'
  <2>1. /\ queue' = {} /\ stop' = "stopped" /\ UNCHANGED <<caller, interrupted>>
        /\ \A r \in Request : future'[r] = future[r] \/ (r \in queue /\ future[r] = "pending"
                                                         /\ future'[r] = "cancelled")
    BY <1>6 DEF Drain
  <2>2. \A r \in queue : caller[r] \notin Outside
    BY <1>1 DEF Untouched
  <2> QED
    BY <2>1, <2>2
<1> QED
  BY <1>2, <1>3, <1>4, <1>5, <1>6 DEF Worker, Coroutine

LEMMA FutureInvariance == QueueSpec => []FutureInv
<1>1. QueueInv /\ FutureInv /\ [QueueNext]_queueVars => FutureInv'
  <2> SUFFICES ASSUME QueueInv, FutureInv, [QueueNext]_queueVars PROVE FutureInv'
    OBVIOUS
  <2>1. CASE UNCHANGED queueVars
    BY <2>1 DEF queueVars, FutureInv
  <2> QED
    BY <2>1, CallersKeepFutures, WorkKeepsFutures DEF QueueNext
<1> QED
  BY <1>1, FutureBegins, QueueInvariance, PTL DEF QueueSpec

-----------------------------------------------------------------------------
Served(r) == worker = "run" /\ current = r

\* Nothing happens to the call of r as far as the promise is concerned.
SameCall(r) ==
    /\ caller'[r] = caller[r] /\ (future'[r] = "done" <=> future[r] = "done")
    /\ caller[r] = "waiting" => /\ r \in queue' <=> r \in queue
                                /\ Served(r)' <=> Served(r)

LEMMA SameIsSame ==
    ASSUME QueueTypeOK, NEW r \in Request, SameCall(r)
    PROVE  CallOf(r)' = CallOf(r)
BY DEF QueueTypeOK, Waiting, SameCall, Served, CallOf

LEMMA OneCall ==
    ASSUME QueueTypeOK, NEW r \in Request, \A s \in Request : s # r => SameCall(s)
    PROVE  Call' = [Call EXCEPT ![r] = Call'[r]]
<1>1. ASSUME NEW s \in Request, s # r PROVE CallOf(s)' = CallOf(s)
  BY <1>1, SameIsSame
<1> QED
  BY <1>1 DEF Call

LEMMA SameCalls ==
    ASSUME QueueTypeOK, \A s \in Request : SameCall(s)
    PROVE  Call' = Call
BY SameIsSame DEF Call

\* What a call that waits may be.
LEMMA WaitingCall ==
    ASSUME NEW r \in Request, caller[r] = "waiting"
    PROVE  /\ r \in queue => Call[r] = "in line"
           /\ r \notin queue /\ future[r] = "done" => Call[r] = "ready"
           /\ r \notin queue /\ future[r] # "done" /\ Served(r) => Call[r] = "served"
           /\ r \notin queue /\ future[r] # "done" /\ ~Served(r) => Call[r] = "turned away"
BY DEF Call, CallOf, Served

LEMMA OtherCall ==
    ASSUME NEW r \in Request
    PROVE  /\ caller[r] = "none" => Call[r] = "none"
           /\ caller[r] = "putting" => Call[r] = "at the door"
           /\ caller[r] = "timed out" => Call[r] = "gone"
           /\ caller[r] = "returned" => Call[r] = IF future[r] = "done" THEN "answered" ELSE "refused"
BY DEF Call, CallOf

LEMMA ServiceInit == QueueInit => Promised!Init
<1> SUFFICES ASSUME QueueInit PROVE Promised!Init
  OBVIOUS
<1>1. AtWork = {} /\ Door = "open"
  BY DEF QueueInit, AtWork, Door
<1>2. Call = [r \in Request |-> "none"]
  BY DEF QueueInit, Call, CallOf
<1> QED
  BY <1>1, <1>2 DEF Promised!Init

\* A caller asks, returns or leaves.
LEMMA CallersPromised ==
    ASSUME QueueInv, FutureInv, NEW r \in Request, Submit(r) \/ Put(r) \/ Return(r) \/ Timeout(r)
    PROVE  Promised!Next
<1>1. QueueTypeOK
  BY DEF QueueInv
<1>2. \A s \in Request : s # r => SameCall(s)
  BY <1>1 DEF Submit, Put, Return, Timeout, Enqueue, QueueTypeOK, SameCall, Served
<1>3. Call' = [Call EXCEPT ![r] = Call'[r]]
  BY <1>1, <1>2, OneCall
<1>4. Door' = Door
  BY DEF Submit, Put, Return, Timeout, Door
<1>5. CASE Submit(r) \/ Put(r)
  <2>1. /\ UNCHANGED coro
        /\ \/ caller[r] \in Outside /\ caller'[r] = "waiting" /\ r \in queue'
           \/ caller[r] = "none" /\ caller'[r] = "putting"
    BY <1>1, <1>5 DEF Submit, Put, Enqueue, QueueTypeOK, Outside
  <2>2. \/ Call[r] \in {"none", "at the door"} /\ Call'[r] = "in line"
        \/ Call[r] = "none" /\ Call'[r] = "at the door"
    BY <2>1 DEF Call, CallOf, Outside
  <2>3. AtWork' = AtWork
    BY <2>1 DEF AtWork
  <2>4. Promised!Ask(r)
    BY <1>3, <1>4, <2>2, <2>3 DEF Promised!Ask, Promised!Turn
  <2> QED
    BY <2>4 DEF Promised!Next
<1>6. CASE Return(r)
  <2>1. /\ caller[r] = "waiting" /\ future[r] # "pending" /\ caller'[r] = "returned"
        /\ UNCHANGED <<future, coro>>
    BY <1>1, <1>6 DEF Return, QueueTypeOK
  <2>2. r \notin queue
    BY <2>1 DEF FutureInv
  <2>3. future[r] = "done" \/ ~Served(r)
    BY <1>1, <2>1 DEF FutureInv, QueueInv, Served, QueueTypeOK
  <2>4. \/ Call[r] = "ready" /\ Call'[r] = "answered"
        \/ Call[r] = "turned away" /\ Call'[r] = "refused"
    BY <2>1, <2>2, <2>3 DEF Call, CallOf, Served
  <2>5. AtWork' = AtWork
    BY <2>1 DEF AtWork
  <2>6. Promised!Return(r)
    BY <1>3, <1>4, <2>4, <2>5 DEF Promised!Return, Promised!Turn
  <2> QED
    BY <2>6 DEF Promised!Next
<1>7. CASE Timeout(r)
  <2>1. caller[r] \in {"putting", "waiting"} /\ caller'[r] = "timed out"
    BY <1>1, <1>7 DEF Timeout, Limited, Waiting, QueueTypeOK
  <2>2. /\ Call[r] \in {"at the door", "in line", "served", "ready", "turned away"}
        /\ Call'[r] = "gone"
    <3>1. Call[r] \in {"at the door", "in line", "served", "ready", "turned away"}
      BY <2>1, WaitingCall, OtherCall
    <3>2. Call'[r] = "gone"
      BY <2>1 DEF Call, CallOf
    <3> QED
      BY <3>1, <3>2
  <2>3. \A s \in Request : coro'[s] \in {"running", "cancelling"} <=> coro[s] \in {"running", "cancelling"}
    <3>1. caller[r] = "putting" => coro[r] = "new"
      BY DEF QueueInv, Untouched, Outside
    <3> QED
      BY <1>1, <1>7, <3>1 DEF Timeout, QueueTypeOK
  <2>4. AtWork' = AtWork
    BY <2>3 DEF AtWork
  <2>5. Promised!Leave(r)
    BY <1>3, <1>4, <2>2, <2>4 DEF Promised!Leave, Promised!Turn
  <2> QED
    BY <2>5 DEF Promised!Next
<1> QED
  BY <1>5, <1>6, <1>7

\* The worker serves the most urgent caller who is still there.
LEMMA TakePromised ==
    ASSUME QueueInv, FutureInv, NEW r \in Request, Run(r) \/ Skip(r)
    PROVE  Promised!Next \/ UNCHANGED Promised!service
<1>1. QueueTypeOK /\ AtWorker /\ Untouched /\ queue \subseteq Request
  BY DEF QueueInv, QueueTypeOK
<1>2. /\ worker = "get" /\ r \in queue /\ queue' = queue \ {r} /\ UNCHANGED <<caller, future, stop>>
      /\ \A s \in queue : s # r => Before(r, s)
  BY DEF Run, Skip, Front
<1>3. AtWork = {} /\ Door' = Door
  BY <1>1, <1>2 DEF AtWork, AtWorker, Busy, Door
<1>4. caller[r] = "waiting" <=> future[r] # "cancelled"
  <2>1. caller[r] \in {"waiting", "returned", "timed out"} /\ future[r] \in {"pending", "done", "cancelled"}
    BY <1>1, <1>2 DEF QueueTypeOK, Untouched, Waiting, Outside
  <2> QED
    BY <1>2, <2>1 DEF FutureInv
<1>5. CASE Run(r)
  <2>1. /\ caller[r] = "waiting" /\ worker' = "run" /\ current' = r
        /\ coro' = [coro EXCEPT ![r] = "running"] /\ future[r] # "done"
    BY <1>2, <1>4, <1>5 DEF Run, FutureInv
  <2>2. \A s \in Request : s # r => SameCall(s)
    BY <1>2, <2>1 DEF SameCall, Served
  <2>3. Call[r] = "in line" /\ Call'[r] = "served"
    BY <1>2, <2>1 DEF Call, CallOf
  <2>4. AtWork' = {r}
    BY <1>1, <1>3, <2>1 DEF AtWork, QueueTypeOK
  <2>5. Door # "closed"
    BY <1>2 DEF QueueInv, Door
  <2>6. ASSUME NEW s \in Request, Call[s] = "in line" PROVE Priority[r] <= Priority[s]
    <3>1. caller[s] \in {"none", "putting", "waiting", "returned", "timed out"}
      BY <1>1 DEF QueueTypeOK, Waiting
    <3>2. s \in queue
      BY <2>6, <3>1, WaitingCall, OtherCall
    <3>3. Priority[r] \in Nat /\ Priority[s] \in Nat
      BY LLMQueueAssumption
    <3> QED
      BY <1>2, <3>2, <3>3 DEF Before
  <2>7. Promised!Serve(r)
    BY <1>1, <1>3, <2>2, <2>3, <2>4, <2>5, <2>6, OneCall DEF Promised!Serve, Promised!InLine, Promised!Turn
  <2> QED
    BY <2>7 DEF Promised!Next
<1>6. CASE Skip(r)
  <2>1. /\ caller[r] # "waiting" /\ coro' = [coro EXCEPT ![r] = "closed"] /\ UNCHANGED <<worker, current>>
    BY <1>4, <1>6 DEF Skip
  <2>2. \A s \in Request : SameCall(s)
    BY <1>2, <2>1 DEF SameCall, Served
  <2>3. AtWork' = {}
    BY <1>1, <1>3, <2>1 DEF AtWork, QueueTypeOK
  <2> QED
    BY <1>1, <1>3, <2>2, <2>3, SameCalls DEF Promised!service
<1> QED
  BY <1>5, <1>6

\* The worker hands over the answer of a service that is over, or ends.
LEMMA ResumePromised ==
    ASSUME QueueInv, FutureInv, Resume
    PROVE  Promised!Next \/ UNCHANGED Promised!service
<1>1. QueueTypeOK /\ AtWorker /\ Untouched
  BY DEF QueueInv
<1>2. /\ worker = "run" /\ worker' # "run" /\ current \in Request \ queue
      /\ coro[current] \in Over /\ UNCHANGED <<caller, coro, queue, stop>>
  BY <1>1 DEF Resume, Awaited, AtWorker
<1>3. /\ \A s \in Request : s # current => SameCall(s)
      /\ AtWork' = AtWork /\ Door' = Door /\ current \notin AtWork
  <2>1. \A s \in Request : s # current => SameCall(s)
    BY <1>1, <1>2 DEF Resume, SameCall, Served, QueueTypeOK
  <2>2. AtWork' = AtWork /\ Door' = Door
    BY <1>2 DEF AtWork, Door
  <2>3. current \notin AtWork
    BY <1>2 DEF AtWork, Over
  <2> QED
    BY <2>1, <2>2, <2>3
<1>4. Call' = [Call EXCEPT ![current] = Call'[current]]
  BY <1>1, <1>2, <1>3, OneCall
<1>5. CASE future[current] = "pending"
  <2>1. caller[current] = "waiting"
    <3>1. caller[current] \notin Outside
      BY <1>1, <1>2 DEF AtWorker, Untouched
    <3> QED
      BY <1>1, <1>2, <1>5, <3>1 DEF FutureInv, QueueTypeOK, Waiting, Outside
  <2>2. Call[current] = "served"
    BY <1>2, <1>5, <2>1, WaitingCall DEF Served
  <2>3. CASE ~Cancelled
    <3>1. future'[current] = "done"
      BY <1>1, <1>2, <1>5, <2>3 DEF Resume, QueueTypeOK
    <3>2. Call'[current] = "ready"
      BY <1>2, <2>1, <3>1 DEF Call, CallOf
    <3>3. Promised!Settle(current)
      BY <1>3, <1>4, <2>2, <3>2 DEF Promised!Settle, Promised!Turn
    <3> QED
      BY <1>2, <3>3 DEF Promised!Next
  <2>4. CASE Cancelled
    <3>1. future' = future
      BY <2>4 DEF Resume
    <3>2. Call'[current] = "turned away"
      BY <1>2, <1>5, <2>1, <3>1 DEF Call, CallOf
    <3>3. Door # "open"
      BY <1>2, <1>5, <2>4 DEF Cancelled, FutureInv, Door
    <3>4. Promised!Settle(current)
      BY <1>3, <1>4, <2>2, <3>2, <3>3 DEF Promised!Settle, Promised!Turn
    <3> QED
      BY <1>2, <3>4 DEF Promised!Next
  <2> QED
    BY <2>3, <2>4
<1>6. CASE future[current] # "pending"
  <2>1. future' = future
    BY <1>6 DEF Resume
  <2>2. future[current] = "done" \/ caller[current] # "waiting"
    BY <1>1, <1>2, <1>6 DEF FutureInv, QueueInv, QueueTypeOK
  <2>3. Call'[current] = Call[current]
    BY <1>1, <1>2, <2>1, <2>2 DEF Call, CallOf, QueueTypeOK, Waiting
  <2>4. Call' = Call
    BY <1>2, <1>4, <2>3 DEF Call
  <2> QED
    BY <1>3, <2>4 DEF Promised!service
<1> QED
  BY <1>5, <1>6

\* A service ends, and the service as a whole closes.
LEMMA StopPromised ==
    ASSUME QueueInv, FutureInv, Coroutine \/ Stop \/ CancelWorker \/ Drain
    PROVE  Promised!Next \/ UNCHANGED Promised!service
<1>1. QueueTypeOK /\ AtWorker
  BY DEF QueueInv
<1>2. ASSUME NEW r \in Request, NEW how \in {"finished", "cancelled"}, CoroutineEnds(r, how)
      PROVE  Promised!Next
  <2>1. /\ coro[r] \in {"running", "cancelling"} /\ coro' = [coro EXCEPT ![r] = how]
        /\ UNCHANGED <<caller, future, queue, worker, current, stop>>
    BY <1>2 DEF CoroutineEnds
  <2>2. r \in AtWork /\ AtWork' = AtWork \ {r}
    BY <1>1, <2>1 DEF AtWork, QueueTypeOK
  <2>3. Call' = Call /\ Door' = Door
    BY <2>1 DEF Call, CallOf, Door
  <2> QED
    BY <2>2, <2>3 DEF Promised!Next, Promised!Finish
<1>3. ASSUME Stop
      PROVE  Promised!Next
  <2>1. Call' = Call /\ AtWork' = AtWork /\ Door = "open" /\ Door' = "closing"
    BY <1>3 DEF Stop, requests, Call, CallOf, AtWork, Door
  <2> QED
    BY <2>1 DEF Promised!Next, Promised!Shut
<1>4. ASSUME CancelWorker
      PROVE  UNCHANGED Promised!service
  <2>1. /\ worker' = "run" <=> worker = "run"
        /\ UNCHANGED <<caller, future, queue, current>> /\ Door' = Door
    BY <1>4 DEF CancelWorker, Door
  <2>2. Call' = Call
    BY <1>1, <2>1, SameCalls DEF SameCall, Served
  <2>3. \A r \in Request : coro'[r] \in {"running", "cancelling"} <=> coro[r] \in {"running", "cancelling"}
    BY <1>1, <1>4 DEF CancelWorker, QueueTypeOK
  <2>4. AtWork' = AtWork
    BY <2>3 DEF AtWork
  <2> QED
    BY <2>1, <2>2, <2>4 DEF Promised!service
<1>5. ASSUME Drain
      PROVE  Promised!Next
  <2>1. /\ worker = "ended" /\ stop = "cancelling" /\ stop' = "stopped" /\ queue' = {}
        /\ UNCHANGED <<caller, worker, current>>
        /\ coro' = [r \in Request |-> IF r \in queue THEN "closed" ELSE coro[r]]
        /\ future' = [r \in Request |-> IF r \in queue /\ future[r] = "pending"
                                        THEN "cancelled" ELSE future[r]]
    BY <1>5 DEF Drain, Ended
  <2>2. AtWork = {} /\ AtWork' = {}
    BY <1>1, <2>1 DEF AtWork, AtWorker, Busy
  <2>3. Door = "closing" /\ Door' = "closed"
    BY <2>1 DEF Door
  <2>4. ASSUME NEW r \in Request
        PROVE  Call'[r] = IF Call[r] = "in line" THEN "turned away" ELSE Call[r]
    <3>1. caller[r] \in {"none", "putting", "waiting", "returned", "timed out"}
      BY <1>1 DEF QueueTypeOK, Waiting
    <3>2. future'[r] = "done" <=> future[r] = "done"
      BY <2>1
    <3>3. CASE caller[r] = "waiting" /\ r \in queue
      <4>1. future'[r] # "done"
        BY <3>2, <3>3 DEF FutureInv
      <4> QED
        BY <2>1, <3>3, <4>1 DEF Call, CallOf
    <3>4. CASE caller[r] # "waiting" \/ r \notin queue
      <4>1. SameCall(r)
        BY <2>1, <3>2, <3>4 DEF SameCall, Served
      <4>2. Call'[r] = Call[r]
        BY <1>1, <4>1, SameIsSame DEF Call
      <4>3. Call[r] # "in line"
        BY <3>1, <3>4, WaitingCall, OtherCall
      <4> QED
        BY <4>2, <4>3
    <3> QED
      BY <3>3, <3>4
  <2>5. Call' = [r \in Request |-> IF r \in Promised!InLine THEN "turned away" ELSE Call[r]]
    BY <2>4 DEF Promised!InLine, Call
  <2> QED
    BY <2>2, <2>3, <2>5 DEF Promised!Next, Promised!Close
<1> QED
  BY <1>2, <1>3, <1>4, <1>5 DEF Coroutine

LEMMA ServiceStep ==
    ASSUME QueueInv, FutureInv, [QueueNext]_queueVars
    PROVE  [Promised!Next]_(Promised!service)
<1>1. CASE UNCHANGED queueVars
  <2>1. UNCHANGED <<Call, AtWork, Door>>
    BY <1>1 DEF queueVars, Call, CallOf, AtWork, Door
  <2> QED
    BY <2>1 DEF Promised!service
<1>2. CASE Worker
  BY <1>2, TakePromised, ResumePromised DEF Worker
<1> QED
  BY <1>1, <1>2, CallersPromised, StopPromised DEF QueueNext

\* submit, _worker and stop keep the promise of Service: the most urgent caller who
\* is still there is served, one at a time, whoever gives up meanwhile, and a closed
\* service serves nobody.
THEOREM KeepsService == QueueSpec => ImplementsService
BY ServiceInit, ServiceStep, QueueInvariance, FutureInvariance, PTL
   DEF QueueSpec, ImplementsService, Promised!Spec
===============================================================================
