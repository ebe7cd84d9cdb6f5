------------------------------- MODULE LLMQueue -------------------------------
(***************************************************************************)
(* The queue in front of the language model: callers submit coroutines and *)
(* wait for at most a fixed time, one worker runs them by priority, and    *)
(* stop() drains the queue or cancels the worker.  Everything runs in one  *)
(* event loop; a step is what happens between two awaits.                  *)
(***************************************************************************)
EXTENDS Naturals, FiniteSets

CONSTANTS
    Request, NoRequest,     \* calls of submit
    Priority,               \* Priority[r]: smaller is more urgent
    MaxSize                 \* the capacity of the queue

ASSUME LLMQueueAssumption ==
    /\ IsFiniteSet(Request) /\ NoRequest \notin Request
    /\ Priority \in [Request -> Nat] /\ MaxSize \in Nat \ {0}

VARIABLES
    caller,     \* caller[r]: where the call of submit stands
    future,     \* future[r]: the future the caller waits for
    coro,       \* coro[r]: the coroutine, and the task it runs in
    ticket,     \* ticket[r]: the sequence number of the request
    queue,      \* the requests in the queue
    unfinished, \* the counter behind join() and task_done()
    worker,     \* the worker: at its get, at its await of a coroutine, or ended
    current,    \* the request of the worker
    interrupted,\* was the worker cancelled after its coroutine had ended?
    stop        \* where the call of stop stands

queueVars == <<caller, future, coro, ticket, queue, unfinished, worker, current, interrupted, stop>>
requests == <<caller, future, coro, ticket>>

Over == {"finished", "cancelled", "closed"}
Waiting == {"putting", "waiting"}

QueueInit ==
    /\ caller = [r \in Request |-> "none"]
    /\ future = [r \in Request |-> "pending"]
    /\ coro = [r \in Request |-> "new"]
    /\ ticket = [r \in Request |-> 0]
    /\ queue = {} /\ unfinished = 0
    /\ worker = "get" /\ current = NoRequest /\ interrupted = FALSE
    /\ stop = "no"

-----------------------------------------------------------------------------
(* submit *)

Submitted == {r \in Request : caller[r] # "none"}

Room == Cardinality(queue) < MaxSize

Enqueue(r) ==
    /\ caller' = [caller EXCEPT ![r] = "waiting"]
    /\ queue' = queue \cup {r} /\ unfinished' = unfinished + 1

Submit(r) ==
    /\ caller[r] = "none"
    /\ ticket' = [ticket EXCEPT ![r] = Cardinality(Submitted) + 1]
    /\ IF Room THEN Enqueue(r)
       ELSE caller' = [caller EXCEPT ![r] = "putting"] /\ UNCHANGED <<queue, unfinished>>
    /\ UNCHANGED <<future, coro, worker, current, interrupted, stop>>

Put(r) ==
    /\ caller[r] = "putting" /\ Room
    /\ Enqueue(r)
    /\ UNCHANGED <<future, coro, ticket, worker, current, interrupted, stop>>

Return(r) ==
    /\ caller[r] = "waiting" /\ future[r] # "pending"
    /\ caller' = [caller EXCEPT ![r] = "returned"]
    /\ UNCHANGED <<future, coro, ticket, queue, unfinished, worker, current, interrupted, stop>>

\* Mutant: the time limit does not cover the wait for a place in the queue.
LimitedAfterPut(r) == caller[r] = "waiting"

Limited(r) == caller[r] \in Waiting

\* The time is up.  A coroutine that runs is cancelled, one that never got into
\* the queue is closed, and one that waits in the queue is left to the worker.
Timeout(r) ==
    /\ Limited(r)
    /\ caller' = [caller EXCEPT ![r] = "timed out"]
    /\ future' = [future EXCEPT ![r] = IF @ = "pending" THEN "cancelled" ELSE @]
    /\ coro' = [coro EXCEPT ![r] = IF @ = "running" THEN "cancelling"
                                   ELSE IF caller[r] = "putting" THEN "closed" ELSE @]
    /\ UNCHANGED <<ticket, queue, unfinished, worker, current, interrupted, stop>>

-----------------------------------------------------------------------------
(* _worker *)

\* Mutant: the queue is served in the order of submission.
BeforeByAge(r, s) == ticket[r] < ticket[s]

Before(r, s) == \/ Priority[r] < Priority[s]
                \/ Priority[r] = Priority[s] /\ ticket[r] < ticket[s]
Front(r) == r \in queue /\ \A s \in queue \ {r} : Before(r, s)

Run(r) ==
    /\ worker = "get" /\ Front(r) /\ future[r] # "cancelled"
    /\ queue' = queue \ {r}
    /\ coro' = [coro EXCEPT ![r] = "running"]
    /\ worker' = "run" /\ current' = r
    /\ UNCHANGED <<caller, future, ticket, unfinished, interrupted, stop>>

\* The caller gave up while the request was in the queue.
Skip(r) ==
    /\ worker = "get" /\ Front(r) /\ future[r] = "cancelled"
    /\ queue' = queue \ {r} /\ unfinished' = unfinished - 1
    /\ coro' = [coro EXCEPT ![r] = "closed"]
    /\ UNCHANGED <<caller, future, ticket, worker, current, interrupted, stop>>

\* The coroutine ends with a result or an exception, or unwinds its cancellation.
CoroutineEnds(r, how) ==
    /\ \/ coro[r] = "running" /\ how = "finished"
       \/ coro[r] = "cancelling"
    /\ coro' = [coro EXCEPT ![r] = how]
    /\ UNCHANGED <<caller, future, ticket, queue, unfinished, worker, current, interrupted, stop>>

\* Mutant: the worker waits for the caller's future, not for the coroutine.
AwaitedFuture == coro[current] \in Over \/ future[current] # "pending"

Awaited == coro[current] \in Over
Cancelled == interrupted \/ coro[current] = "cancelled"

\* The worker resumes from its await.  A CancelledError ends it, unless the
\* caller's future is cancelled too: then it is taken for the caller's timeout.
Resume ==
    /\ worker = "run" /\ Awaited
    /\ future' = IF ~Cancelled /\ future[current] = "pending"
                 THEN [future EXCEPT ![current] = "done"] ELSE future
    /\ worker' = IF Cancelled /\ future[current] # "cancelled" THEN "ended" ELSE "get"
    /\ unfinished' = unfinished - 1
    /\ current' = NoRequest /\ interrupted' = FALSE
    /\ UNCHANGED <<caller, coro, ticket, queue, stop>>

-----------------------------------------------------------------------------
(* stop *)

Stop ==
    /\ stop = "no"
    /\ stop' = "joining"
    /\ UNCHANGED <<requests, queue, unfinished, worker, current, interrupted>>

\* The queue has drained or thirty seconds have passed: the worker is cancelled,
\* and with it the coroutine it waits for.
CancelWorker ==
    /\ stop = "joining"
    /\ stop' = "cancelling"
    /\ worker' = IF worker = "get" THEN "ended" ELSE worker
    /\ coro' = IF worker = "run" /\ coro[current] = "running"
               THEN [coro EXCEPT ![current] = "cancelling"] ELSE coro
    /\ interrupted' = (worker = "run" /\ coro[current] \in Over)
    /\ UNCHANGED <<caller, future, ticket, queue, unfinished, current>>

Ended == worker = "ended"

Drain ==
    /\ stop = "cancelling" /\ Ended
    /\ stop' = "stopped"
    /\ coro' = [r \in Request |-> IF r \in queue THEN "closed" ELSE coro[r]]
    /\ future' = [r \in Request |-> IF r \in queue /\ future[r] = "pending"
                                    THEN "cancelled" ELSE future[r]]
    /\ queue' = {} /\ unfinished' = unfinished - Cardinality(queue)
    /\ UNCHANGED <<caller, ticket, worker, current, interrupted>>

-----------------------------------------------------------------------------
Worker == Resume \/ \E r \in Request : Run(r) \/ Skip(r)
Coroutine == \E r \in Request, how \in {"finished", "cancelled"} : CoroutineEnds(r, how)

QueueNext ==
    \/ \E r \in Request : Submit(r) \/ Put(r) \/ Return(r) \/ Timeout(r)
    \/ Worker \/ Coroutine
    \/ Stop \/ CancelWorker \/ Drain

QueueSpec == QueueInit /\ [][QueueNext]_queueVars

\* The event loop runs what is ready, time passes, and the client's own deadline
\* ends every request to the model.
QueueFairness ==
    /\ \A r \in Request : WF_queueVars(Return(r)) /\ WF_queueVars(Timeout(r))
    /\ WF_queueVars(Worker) /\ WF_queueVars(Coroutine)
    /\ WF_queueVars(CancelWorker) /\ WF_queueVars(Drain)

QueueFairSpec == QueueSpec /\ QueueFairness

-----------------------------------------------------------------------------
(* Properties *)

QueueTypeOK ==
    /\ caller \in [Request -> Waiting \cup {"none", "returned", "timed out"}]
    /\ future \in [Request -> {"pending", "done", "cancelled"}]
    /\ coro \in [Request -> Over \cup {"new", "running", "cancelling"}]
    /\ ticket \in [Request -> Nat]
    /\ queue \subseteq Request /\ Cardinality(queue) <= MaxSize
    /\ unfinished \in Nat
    /\ worker \in {"get", "run", "ended"}
    /\ current \in Request \cup {NoRequest}
    /\ interrupted \in BOOLEAN
    /\ stop \in {"no", "joining", "cancelling", "stopped"}

\* join() waits for exactly the requests that are queued or at the worker, by
\* whatever path they leave; one too many and stop always takes thirty seconds.
JoinCounts == unfinished = Cardinality(queue) + (IF worker = "run" THEN 1 ELSE 0)

\* The model serves one request at a time, although callers give up and a
\* cancelled coroutine takes a while to unwind.
OneAtATime ==
    \A r, s \in Request : {coro[r], coro[s]} \subseteq {"running", "cancelling"} => r = s

\* The queue, its counter and the worker agree on what is left to do.
QueueIsExact == QueueTypeOK /\ JoinCounts /\ OneAtATime

\* When stop has returned, nothing talks to the model any more.
StoppedIsQuiet == stop = "stopped" => \A r \in Request : coro[r] \notin {"running", "cancelling"}

\* What has become of a call of submit, in the words of Service.
CallOf(r) ==
    CASE caller[r] = "none" -> "none"
      [] caller[r] = "putting" -> "at the door"
      [] caller[r] = "timed out" -> "gone"
      [] caller[r] = "returned" -> IF future[r] = "done" THEN "answered" ELSE "refused"
      [] OTHER -> IF r \in queue THEN "in line"
                  ELSE IF future[r] = "done" THEN "ready"
                  ELSE IF worker = "run" /\ current = r THEN "served" ELSE "turned away"
Call == [r \in Request |-> CallOf(r)]

AtWork == {r \in Request : coro[r] \in {"running", "cancelling"}}

Door == IF stop = "no" THEN "open" ELSE IF stop = "stopped" THEN "closed" ELSE "closing"

Promised == INSTANCE Service WITH call <- Call, busy <- AtWork, door <- Door

\* submit, the worker and stop together keep the promise of Service, whichever
\* of the two cancellations comes first and wherever it finds the request.
ImplementsService == Promised!Spec

\* Every caller gets an answer or an exception, before and after stop.
EveryCallerLeaves == \A r \in Request : (caller[r] \in Waiting) ~> (caller[r] \notin Waiting)

\* A request its caller gave up is not left behind as a coroutine nobody ran.
NothingLeftBehind ==
    \A r \in Request : (caller[r] = "timed out") ~> (coro[r] \in Over \/ stop = "stopped")

\* Neither a caller nor what it gave up is left waiting.
NothingIsStuck == EveryCallerLeaves /\ NothingLeftBehind

\* stop() "waits for the queue and stops the worker; cancels it when it hangs"
\* (queue.py:45): it returns.
StopReturns == (stop = "joining") ~> (stop = "stopped")

===============================================================================
