---------------------------- MODULE DeliveryProofs ----------------------------
(***************************************************************************)
(* What the outbox guarantees for every number of parts, workers, texts    *)
(* and faults: what it calls delivered was delivered, a text is never      *)
(* mixed with another, every repeated part has its fault, and the code     *)
(* keeps the promise of Outbox.                                            *)
(***************************************************************************)
EXTENDS Delivery, FiniteSetTheorems, TLAPS

\* The worker whose lease still counts.
Current(w) == Holds(w) /\ batch.live

\* A lease is held only on a batch at work, and what a settled batch says is true.
RowInv ==
    /\ batch.token # NoWorker => batch.status = "delivering"
    /\ batch.status # "absent" => batch.payload \in Payload
    /\ \A p \in Part : shown[p] \subseteq {batch.payload}
    /\ batch.status = "absent" => \A p \in Part : shown[p] = {}
    /\ DeliveredIsWhole

\* A worker knows every part that is still to be sent; the current one knows exactly them.
JobInv(w) ==
    /\ job[w].pc # "idle" => batch.status # "absent"
    /\ job[w].pc \in {"send", "record", "complete"} => Pending \subseteq job[w].todo
    /\ job[w].pc \in {"send", "record"} /\ Current(w) => job[w].todo \subseteq Pending
    /\ job[w].pc = "complete" => job[w].todo = {}
    /\ job[w].pc = "record" => \A p \in Part : First(p, job[w].todo) => shown[p] # {}
    /\ job[w].pc = "mark" => batch.status = "delivered"

\* The chat has seen a part only when all the parts before it are recorded.
InOrder == \A p, q \in Part : shown[q] # {} /\ p < q => part[p] = "delivered"

\* The workers that may send one more part although their lease is lost.
Stale == {w \in Worker : job[w].pc \in {"read", "send"} /\ ~Current(w)}

Recording == \E w \in Worker : Current(w) /\ job[w].pc = "record"

\* A part that the chat has seen will be sent again: nobody is about to record it.
Exposed == ~Recording /\ \E p \in Part : part[p] = "pending" /\ shown[p] # {}

\* Every repeated part, and every one that may still be repeated, has its own fault.
Paid ==
    /\ IsFiniteSet(Stale)
    /\ repeats + Cardinality(Stale) + (IF Exposed THEN 1 ELSE 0) <= faults

IInv == TypeOK /\ RowInv /\ (\A w \in Worker : JobInv(w)) /\ InOrder /\ Paid

-----------------------------------------------------------------------------
(* Types *)

\* A worker's row of the job table changes alone.
LEMMA JobMoves ==
    ASSUME TypeOK, NEW w \in Worker, NEW j \in Job, job' = [job EXCEPT ![w] = j]
    PROVE  /\ job' \in [Worker -> Job] /\ job'[w] = j
           /\ \A v \in Worker \ {w} : job'[v] = job[v]
  BY DEF TypeOK

LEMMA Goes ==
    ASSUME TypeOK, NEW w \in Worker, NEW pc, Goto(w, pc),
           pc \in {"idle", "claim", "read", "send", "record", "fail", "complete", "report", "mark"}
    PROVE  \E j \in Job : /\ job' = [job EXCEPT ![w] = j]
                          /\ j.pc = pc /\ j.todo = job[w].todo /\ j.terminal = job[w].terminal
<1> DEFINE j == [job[w] EXCEPT !.pc = pc]
<1>1. job[w] \in Job
  BY DEF TypeOK
<1>2. j \in Job /\ j.pc = pc /\ j.todo = job[w].todo /\ j.terminal = job[w].terminal
  BY <1>1 DEF Job
<1>3. job' = [job EXCEPT ![w] = j]
  BY DEF Goto
<1> QED
  BY <1>2, <1>3

LEMMA IdleType == IdleJob \in Job /\ IdleJob.pc = "idle"
BY DEF IdleJob, Job

LEMMA Reports ==
    ASSUME TypeOK, NEW w \in Worker, NEW completed \in BOOLEAN, Reported(w, completed)
    PROVE  \E j \in Job : /\ job' = [job EXCEPT ![w] = j]
                          /\ j.pc \in {"idle", "mark"}
                          /\ j.pc = "mark" => completed
<1>1. [IdleJob EXCEPT !.pc = "mark"] \in Job /\ [IdleJob EXCEPT !.pc = "mark"].pc = "mark"
  BY DEF IdleJob, Job
<1> QED
  BY <1>1, IdleType DEF Reported, Return

\* The row of the batch, after an edit of some of its columns.
LEMMA BatchType ==
    ASSUME TypeOK
    PROVE  /\ batch \in Batch
           /\ batch.status \in Open \cup Final \cup {"absent"}
           /\ batch.token \in Worker \cup {NoWorker} /\ batch.live \in BOOLEAN
  BY DEF TypeOK, Batch

-----------------------------------------------------------------------------
(* Counting: what a step may do to the budget of repeats *)

\* At most one lease counts, and it belongs to the worker that took it.
LEMMA OneCurrent == \A v, w \in Worker : Current(v) /\ Current(w) => v = w
BY DEF Current, Holds

LEMMA StaleShrinks ==
    ASSUME IsFiniteSet(Stale), Stale' \subseteq Stale
    PROVE  /\ IsFiniteSet(Stale')
           /\ Cardinality(Stale) \in Nat /\ Cardinality(Stale') \in Nat
           /\ Cardinality(Stale') <= Cardinality(Stale)
           /\ \A w \in Stale : w \notin Stale' => Cardinality(Stale') + 1 <= Cardinality(Stale)
<1>1. IsFiniteSet(Stale') /\ Cardinality(Stale') <= Cardinality(Stale)
  BY FS_Subset
<1>2. Cardinality(Stale) \in Nat /\ Cardinality(Stale') \in Nat
  BY <1>1, FS_CardinalityType
<1>3. ASSUME NEW w \in Stale, w \notin Stale'
      PROVE  Cardinality(Stale') + 1 <= Cardinality(Stale)
  <2>1. Stale' \subseteq Stale \ {w}
    BY <1>3
  <2>2. /\ IsFiniteSet(Stale \ {w}) /\ Cardinality(Stale \ {w}) = Cardinality(Stale) - 1
    BY FS_RemoveElement
  <2>3. Cardinality(Stale') <= Cardinality(Stale \ {w})
    BY <2>1, <2>2, FS_Subset
  <2> QED
    BY <1>2, <2>2, <2>3
<1> QED
  BY <1>1, <1>2, <1>3

\* A step that repeats nothing and exposes nothing new is covered as before.
LEMMA PaidStays ==
    ASSUME TypeOK, Paid, faults' \in {faults, faults + 1}, repeats' = repeats,
           Stale' \subseteq Stale,
           faults' = faults => (Exposed' => Exposed)
    PROVE  Paid'
<1>1. /\ IsFiniteSet(Stale')
      /\ Cardinality(Stale) \in Nat /\ Cardinality(Stale') \in Nat
      /\ Cardinality(Stale') <= Cardinality(Stale)
  BY StaleShrinks DEF Paid
<1>2. /\ repeats + Cardinality(Stale) + (IF Exposed THEN 1 ELSE 0) <= faults
      /\ repeats \in Nat /\ faults \in Nat
  BY DEF Paid, TypeOK
<1>3. repeats' + Cardinality(Stale') + (IF Exposed' THEN 1 ELSE 0) <= faults'
  BY <1>1, <1>2
<1> QED
  BY <1>1, <1>3 DEF Paid

-----------------------------------------------------------------------------
(* Steps of one worker that leave the tables and the chat alone *)

\* A worker that moves on by itself: it reads the parts, or it is done sending.
LEMMA QuietKeeps ==
    ASSUME IInv, NEW w \in Worker, NEW j \in Job, job' = [job EXCEPT ![w] = j],
           UNCHANGED <<batch, part, shown, repeats>>,
           events' \in Nat, faults' \in {faults, faults + 1},
           marked' \in BOOLEAN, marked' => marked \/ batch.status = "delivered",
           batch.status # "absent",
           \/ j.pc \in {"idle", "claim", "fail", "report", "mark"}
           \/ job[w].pc = "read" /\ j.todo = Pending /\ j.pc = NextPoint(Pending),
           j.pc = "mark" => batch.status = "delivered",
           Current(w) /\ job[w].pc = "record" => faults' = faults + 1
    PROVE  IInv'
<1>1. TypeOK /\ RowInv /\ (\A v \in Worker : JobInv(v)) /\ InOrder /\ Paid
  BY DEF IInv
<1>2. /\ job' \in [Worker -> Job] /\ job'[w] = j
      /\ \A v \in Worker \ {w} : job'[v] = job[v]
  BY <1>1, JobMoves
<1>3. TypeOK'
  BY <1>1, <1>2 DEF TypeOK
<1>4. RowInv' /\ InOrder'
  BY <1>1 DEF RowInv, DeliveredIsWhole, InOrder, Pending
<1>5. Pending' = Pending /\ \A v \in Worker : Current(v)' <=> Current(v)
  BY DEF Pending, Current, Holds
<1>6. ASSUME NEW v \in Worker PROVE JobInv(v)'
  <2>1. CASE v = w
    BY <1>2, <1>5, <2>1 DEF JobInv, NextPoint, First
  <2>2. CASE v # w
    BY <1>1, <1>2, <1>5, <2>2 DEF JobInv, First
  <2> QED
    BY <2>1, <2>2
<1>7. Stale' \subseteq Stale
  BY <1>2, <1>5 DEF Stale, NextPoint
<1>8. faults' = faults => (Exposed' => Exposed)
  <2> SUFFICES ASSUME faults' = faults, Exposed', Recording PROVE FALSE
    BY DEF Exposed
  <2>1. PICK v \in Worker : Current(v) /\ job[v].pc = "record"
    BY DEF Recording
  <2>2. v # w
    BY <1>1, <2>1 DEF TypeOK
  <2> QED
    BY <1>2, <1>5, <2>1, <2>2 DEF Exposed, Recording
<1>9. Paid'
  BY <1>1, <1>7, <1>8, PaidStays
<1> QED
  BY <1>3, <1>4, <1>6, <1>9 DEF IInv

\* A worker closes or hands back the batch, and with it the lease.
LEMMA ReleaseKeeps ==
    ASSUME IInv, NEW w \in Worker, NEW j \in Job, job' = [job EXCEPT ![w] = j],
           UNCHANGED <<part, marked, events, shown, repeats, faults>>,
           batch' \in Batch, batch.status \in Open, batch'.status \in Final \cup {"pending"},
           batch'.token = NoWorker, batch'.live = FALSE, batch'.payload = batch.payload,
           batch'.status = "delivered" => Pending = {},
           j.pc \in {"idle", "report", "mark"}, j.pc = "mark" => batch'.status = "delivered",
           \A v \in Worker : Current(v) => job[v].pc \notin {"read", "send", "record"}
    PROVE  IInv'
<1>1. TypeOK /\ RowInv /\ (\A v \in Worker : JobInv(v)) /\ InOrder /\ Paid
  BY DEF IInv
<1>2. /\ job' \in [Worker -> Job] /\ job'[w] = j
      /\ \A v \in Worker \ {w} : job'[v] = job[v]
  BY <1>1, JobMoves
<1>3. TypeOK'
  BY <1>1, <1>2 DEF TypeOK
<1>4. Pending' = Pending /\ \A v \in Worker : ~Current(v)'
  BY DEF Pending, Current, Holds
<1>5. RowInv' /\ InOrder'
  BY <1>1, <1>4 DEF RowInv, DeliveredIsWhole, InOrder, Open, Final
<1>6. ASSUME NEW v \in Worker PROVE JobInv(v)'
  <2>1. CASE v = w
    BY <1>2, <2>1 DEF JobInv, Final
  <2>2. CASE v # w
    BY <1>1, <1>2, <1>4, <2>2 DEF JobInv, First, Open, Final
  <2> QED
    BY <2>1, <2>2
<1>7. Stale' \subseteq Stale
  BY <1>2, <1>4 DEF Stale
<1>8. Exposed' => Exposed
  BY DEF Exposed, Recording
<1>9. Paid'
  BY <1>1, <1>7, <1>8, PaidStays DEF TypeOK
<1> QED
  BY <1>3, <1>5, <1>6, <1>9 DEF IInv

\* A producer inserts the batch: nobody works on it yet, and the chat has seen none of it.
LEMMA InsertKeeps ==
    ASSUME IInv, NEW w \in Producer, NEW text \in Payload, Call(w, text), batch.status = "absent"
    PROVE  IInv'
<1>1. TypeOK /\ RowInv /\ (\A v \in Worker : JobInv(v)) /\ InOrder /\ Paid /\ w \in Worker
  BY DEF IInv, Worker
<1>2. PICK j \in Job : job' = [job EXCEPT ![w] = j] /\ j.pc = "claim"
  BY <1>1, Goes DEF Call
<1>3. /\ job' \in [Worker -> Job] /\ job'[w] = j
      /\ \A v \in Worker \ {w} : job'[v] = job[v]
  BY <1>1, <1>2, JobMoves
<1>4. /\ batch' \in Batch /\ batch'.status = "pending" /\ batch'.payload = text
      /\ batch'.token = batch.token /\ batch'.live = batch.live
  BY <1>1 DEF Call, TypeOK, Batch, Open
<1>5. UNCHANGED <<part, marked, events, shown, repeats, faults>>
  BY DEF Call, history
<1>6. TypeOK'
  BY <1>1, <1>3, <1>4, <1>5 DEF TypeOK
<1>7. batch.token = NoWorker /\ (\A p \in Part : shown[p] = {}) /\ ~marked
  BY <1>1 DEF RowInv, DeliveredIsWhole
<1>8. \A v \in Worker : ~Current(v) /\ ~Current(v)' /\ job[v].pc = "idle"
  BY <1>1, <1>4, <1>7, DeliveryAssumption DEF Current, Holds, JobInv, Worker
<1>9. RowInv' /\ InOrder'
  BY <1>1, <1>4, <1>5, <1>7 DEF RowInv, DeliveredIsWhole, InOrder
<1>10. \A v \in Worker : JobInv(v)'
  BY <1>2, <1>3, <1>4, <1>8 DEF JobInv
<1>11. Stale' \subseteq Stale
  BY <1>2, <1>3, <1>8 DEF Stale
<1>12. ~Exposed'
  BY <1>5, <1>7 DEF Exposed
<1>13. Paid'
  BY <1>1, <1>5, <1>11, <1>12, PaidStays DEF TypeOK
<1> QED
  BY <1>6, <1>9, <1>10, <1>13 DEF IInv

\* A worker claims a batch whose lease has lapsed or was handed back.
LEMMA ClaimKeeps ==
    ASSUME IInv, NEW w \in Worker, Claim(w)
    PROVE  IInv'
<1>1. TypeOK /\ RowInv /\ (\A v \in Worker : JobInv(v)) /\ InOrder /\ Paid
  BY DEF IInv
<1>2. PICK j \in Job : job' = [job EXCEPT ![w] = j] /\ j.pc = "read"
  BY <1>1, Goes DEF Claim
<1>3. /\ job' \in [Worker -> Job] /\ job'[w] = j
      /\ \A v \in Worker \ {w} : job'[v] = job[v]
  BY <1>1, <1>2, JobMoves
<1>4. /\ batch' = [batch EXCEPT !.status = "delivering", !.token = w, !.live = TRUE,
                                !.attempts = batch.attempts + 1]
      /\ batch.status \in Open /\ Dormant /\ job[w].pc = "claim"
  BY DEF Claim, Claimable
<1>5. /\ batch' \in Batch /\ batch'.status = "delivering" /\ batch'.payload = batch.payload
      /\ batch'.token = w /\ batch'.live
  <2>1. batch \in Batch /\ batch.attempts + 1 \in Nat
    BY <1>1 DEF TypeOK, Batch
  <2> QED
    BY <1>4, <2>1 DEF Batch, Open
<1>6. UNCHANGED <<part, marked, events, shown, repeats, faults>>
  BY DEF Claim, history
<1>7. TypeOK'
  BY <1>1, <1>3, <1>5, <1>6 DEF TypeOK
<1>8. \A v \in Worker : ~Current(v) /\ (Current(v)' <=> v = w)
  BY <1>4, <1>5, DeliveryAssumption DEF Dormant, Current, Holds, Worker
<1>9. RowInv' /\ InOrder'
  BY <1>1, <1>4, <1>5, <1>6 DEF RowInv, DeliveredIsWhole, InOrder, Open, Pending
<1>10. ASSUME NEW v \in Worker PROVE JobInv(v)'
  <2>1. CASE v = w
    BY <1>2, <1>3, <1>5, <2>1 DEF JobInv
  <2>2. CASE v # w
    BY <1>1, <1>3, <1>4, <1>5, <1>6, <1>8, <2>2 DEF JobInv, First, Pending, Open
  <2> QED
    BY <2>1, <2>2
<1>11. Stale' \subseteq Stale
  BY <1>3, <1>8 DEF Stale
<1>12. Exposed' => Exposed
  BY <1>6, <1>8 DEF Exposed, Recording
<1>13. Paid'
  BY <1>1, <1>6, <1>11, <1>12, PaidStays DEF TypeOK
<1> QED
  BY <1>7, <1>9, <1>10, <1>13 DEF IInv

\* The lease runs out.  Only a worker between its claim and its record can still
\* repeat a part because of that, and then the lapse is a fault.
LEMMA LapseKeeps ==
    ASSUME IInv, LeaseLapse
    PROVE  IInv'
<1> USE DeliveryAssumption
<1>1. TypeOK /\ RowInv /\ (\A v \in Worker : JobInv(v)) /\ InOrder /\ Paid
  BY DEF IInv
<1>2. batch' = [batch EXCEPT !.live = FALSE] /\ UNCHANGED <<part, job, marked, shown, repeats>>
  BY DEF LeaseLapse
<1>3. /\ batch' \in Batch /\ batch'.status = batch.status /\ batch'.payload = batch.payload
      /\ batch'.token = batch.token /\ ~batch'.live
  BY <1>1, <1>2 DEF TypeOK, Batch
<1>4. PICK w \in Worker : batch.token = w /\ batch.live
  BY <1>1, BatchType DEF LeaseLapse
<1>5. events' \in Nat
  BY <1>1 DEF LeaseLapse, Event, TypeOK
<1>6. /\ faults' \in {faults, faults + 1}
      /\ faults' = faults + 1 \/ job[w].pc \notin {"read", "send", "record"}
  BY <1>4 DEF LeaseLapse, HolderAt, Holds
<1>7. TypeOK'
  BY <1>1, <1>2, <1>3, <1>5, <1>6 DEF TypeOK
<1>8. \A v \in Worker : ~Current(v)' /\ (Current(v) <=> v = w)
  BY <1>3, <1>4 DEF Current, Holds
<1>9. RowInv' /\ InOrder' /\ Pending' = Pending
  BY <1>1, <1>2, <1>3 DEF RowInv, DeliveredIsWhole, InOrder, Pending
<1>10. \A v \in Worker : JobInv(v)'
  BY <1>1, <1>2, <1>3, <1>8, <1>9 DEF JobInv, First
<1>11. Stale' \subseteq Stale \cup {w} /\ w \notin Stale
  BY <1>2, <1>8 DEF Stale
<1>12. Paid'
  <2>1. CASE job[w].pc \in {"read", "send"}
    <3>1. faults' = faults + 1 /\ repeats' = repeats
      BY <1>2, <1>6, <2>1
    <3>2. Exposed' => Exposed
      BY <1>2, <1>8, <2>1 DEF Exposed, Recording
    <3>3. IsFiniteSet(Stale \cup {w}) /\ Cardinality(Stale \cup {w}) = Cardinality(Stale) + 1
      BY <1>1, <1>11, FS_AddElement DEF Paid
    <3>4. /\ IsFiniteSet(Stale') /\ Cardinality(Stale') <= Cardinality(Stale) + 1
          /\ Cardinality(Stale') \in Nat /\ Cardinality(Stale) \in Nat
      <4>1. IsFiniteSet(Stale') /\ Cardinality(Stale') <= Cardinality(Stale \cup {w})
        BY <1>11, <3>3, FS_Subset
      <4> QED
        BY <1>1, <3>3, <4>1, FS_CardinalityType DEF Paid
    <3>5. repeats' + Cardinality(Stale') + (IF Exposed' THEN 1 ELSE 0) <= faults'
      BY <1>1, <3>1, <3>2, <3>4 DEF Paid, TypeOK
    <3> QED
      BY <3>4, <3>5 DEF Paid
  <2>2. CASE job[w].pc \notin {"read", "send"}
    <3>1. Stale' \subseteq Stale
      BY <1>2, <1>11, <2>2 DEF Stale
    <3>2. faults' = faults => (Exposed' => Exposed)
      <4>1. faults' = faults => ~Recording
        BY <1>1, <1>6, <1>8, <2>2 DEF Recording, TypeOK
      <4> QED
        BY <1>2, <4>1 DEF Exposed
    <3> QED
      BY <1>1, <1>2, <1>6, <3>1, <3>2, PaidStays
  <2> QED
    BY <2>1, <2>2
<1> QED
  BY <1>7, <1>9, <1>10, <1>12 DEF IInv

\* The backoff and the time of the batch run out.
LEMMA ClockKeeps ==
    ASSUME IInv, BackoffOver \/ Expire
    PROVE  IInv'
<1>1. TypeOK /\ RowInv /\ (\A v \in Worker : JobInv(v)) /\ InOrder /\ Paid
  BY DEF IInv
<1>2. UNCHANGED <<part, job, marked, events, shown, repeats, faults>>
  BY DEF BackoffOver, Expire, history
<1>3. /\ batch' \in Batch /\ batch'.status = batch.status /\ batch'.payload = batch.payload
      /\ batch'.token = batch.token /\ batch'.live = batch.live
  BY <1>1 DEF BackoffOver, Expire, TypeOK, Batch
<1>4. TypeOK'
  BY <1>1, <1>2, <1>3 DEF TypeOK
<1>5. Pending' = Pending /\ \A v \in Worker : Current(v)' <=> Current(v)
  BY <1>2, <1>3 DEF Pending, Current, Holds
<1>6. RowInv' /\ InOrder'
  BY <1>1, <1>2, <1>3, <1>5 DEF RowInv, DeliveredIsWhole, InOrder
<1>7. \A v \in Worker : JobInv(v)'
  BY <1>1, <1>2, <1>3, <1>5 DEF JobInv, First
<1>8. Stale' \subseteq Stale /\ (Exposed' => Exposed)
  BY <1>2, <1>5 DEF Stale, Exposed, Recording
<1>9. Paid'
  BY <1>1, <1>2, <1>8, PaidStays DEF TypeOK
<1> QED
  BY <1>4, <1>6, <1>7, <1>9 DEF IInv

\* The process dies: nobody is left to repeat a part but the part that was not recorded.
LEMMA CrashKeeps ==
    ASSUME IInv, Crash
    PROVE  IInv'
<1>1. TypeOK /\ RowInv /\ (\A v \in Worker : JobInv(v)) /\ InOrder /\ Paid
  BY DEF IInv
<1>2. UNCHANGED <<batch, part, marked, shown, repeats>> /\ job' = [w \in Worker |-> IdleJob]
  BY DEF Crash
<1>3. events' \in Nat /\ faults' \in {faults, faults + 1}
  BY <1>1 DEF Crash, Event, TypeOK
<1>4. \A v \in Worker : job'[v].pc = "idle"
  BY <1>2, IdleType
<1>5. TypeOK'
  BY <1>1, <1>2, <1>3, IdleType DEF TypeOK
<1>6. RowInv' /\ InOrder'
  BY <1>1, <1>2 DEF RowInv, DeliveredIsWhole, InOrder, Pending
<1>7. \A v \in Worker : JobInv(v)'
  BY <1>4 DEF JobInv
<1>8. Stale' \subseteq Stale
  BY <1>4 DEF Stale
<1>9. faults' = faults => (Exposed' => Exposed)
  BY <1>1, <1>2 DEF Crash, HolderAt, Exposed, Recording, Current, TypeOK
<1>10. Paid'
  BY <1>1, <1>2, <1>3, <1>8, <1>9, PaidStays
<1> QED
  BY <1>5, <1>6, <1>7, <1>10 DEF IInv

-----------------------------------------------------------------------------
(* Sending and recording *)

\* The part a worker sends follows recorded parts only; the current worker's is pending.
LEMMA SendsInOrder ==
    ASSUME IInv, NEW w \in Worker, NEW p \in Part, First(p, job[w].todo),
           job[w].pc \in {"send", "record"}
    PROVE  /\ \A q \in Part : q < p => part[q] = "delivered"
           /\ Current(w) => part[p] = "pending"
<1>1. TypeOK /\ JobInv(w)
  BY DEF IInv
<1>2. Pending \subseteq job[w].todo /\ (Current(w) => job[w].todo \subseteq Pending)
  BY <1>1 DEF JobInv
<1>3. ASSUME NEW q \in Part, q < p PROVE part[q] = "delivered"
  <2>1. q \notin job[w].todo
    BY <1>3, DeliveryAssumption DEF First, Part
  <2> QED
    BY <1>1, <1>2, <2>1 DEF Pending, TypeOK
<1> QED
  BY <1>2, <1>3 DEF First, Pending

\* Telegram accepts a part, and the worker learns of it or not.
LEMMA SendKeeps ==
    ASSUME IInv, NEW w \in Worker, NEW p \in Part, NEW lost \in {0, 1},
           job[w].pc = "send", First(p, job[w].todo), Accepted(p, lost),
           Goto(w, IF lost = 0 THEN "record" ELSE "fail"),
           events' \in Nat, UNCHANGED <<batch, part, marked>>
    PROVE  IInv'
<1>1. TypeOK /\ RowInv /\ (\A v \in Worker : JobInv(v)) /\ InOrder /\ Paid
  BY DEF IInv
<1>2. PICK j \in Job : /\ job' = [job EXCEPT ![w] = j] /\ j.todo = job[w].todo
                       /\ j.pc = IF lost = 0 THEN "record" ELSE "fail"
  <2>1. (IF lost = 0 THEN "record" ELSE "fail") \in {"record", "fail"}
    OBVIOUS
  <2> QED
    BY <1>1, <2>1, Goes
<1>3. /\ job' \in [Worker -> Job] /\ job'[w] = j
      /\ \A v \in Worker \ {w} : job'[v] = job[v]
  BY <1>1, <1>2, JobMoves
<1>4. batch.payload \in Payload
  BY <1>1 DEF RowInv, JobInv
<1>5. /\ shown' \in [Part -> SUBSET Payload]
      /\ shown'[p] = shown[p] \cup {batch.payload}
      /\ \A q \in Part \ {p} : shown'[q] = shown[q]
  BY <1>1, <1>4 DEF Accepted, TypeOK
<1>6. /\ repeats' = IF shown[p] = {} THEN repeats ELSE repeats + 1
      /\ faults' = faults + lost
  BY DEF Accepted
<1>7. repeats' \in Nat /\ faults' \in Nat
  BY <1>1, <1>6 DEF TypeOK
<1>8. TypeOK'
  BY <1>1, <1>3, <1>5, <1>7 DEF TypeOK
<1>9. Pending' = Pending /\ \A v \in Worker : Current(v)' <=> Current(v)
  BY DEF Pending, Current, Holds
<1>10. RowInv'
  <2>1. \A q \in Part : shown'[q] \subseteq {batch.payload}
    BY <1>1, <1>5 DEF RowInv
  <2>2. batch.status # "absent"
    BY <1>1 DEF JobInv
  <2> QED
    BY <1>1, <1>9, <2>1, <2>2 DEF RowInv, DeliveredIsWhole
<1>11. InOrder'
  <2>1. \A q \in Part : q < p => part[q] = "delivered"
    BY SendsInOrder
  <2> QED
    BY <1>1, <1>5, <2>1 DEF InOrder
<1>12. ASSUME NEW v \in Worker PROVE JobInv(v)'
  <2>1. \A q \in Part : shown[q] # {} => shown'[q] # {}
    BY <1>5
  <2>2. CASE v = w
    <3>1. \A q \in Part : First(q, j.todo) => q = p
      BY <1>2, DeliveryAssumption DEF First, Part
    <3> QED
      BY <1>1, <1>2, <1>3, <1>5, <1>9, <2>2, <3>1 DEF JobInv
  <2>3. CASE v # w
    BY <1>1, <1>3, <1>9, <2>1, <2>3 DEF JobInv
  <2> QED
    BY <2>2, <2>3
<1>13. Stale' \subseteq Stale /\ w \notin Stale'
  BY <1>2, <1>3, <1>9 DEF Stale
<1>14. /\ IsFiniteSet(Stale')
       /\ Cardinality(Stale) \in Nat /\ Cardinality(Stale') \in Nat
       /\ Cardinality(Stale') <= Cardinality(Stale)
       /\ w \in Stale => Cardinality(Stale') + 1 <= Cardinality(Stale)
  BY <1>1, <1>13, StaleShrinks DEF Paid
<1>15. /\ repeats + Cardinality(Stale) + (IF Exposed THEN 1 ELSE 0) <= faults
       /\ repeats \in Nat /\ faults \in Nat
  BY <1>1 DEF Paid, TypeOK
<1>16. repeats' + Cardinality(Stale') + (IF Exposed' THEN 1 ELSE 0) <= faults'
  <2>1. CASE Current(w)
    <3>1. part[p] = "pending" /\ ~Recording
      BY <2>1, SendsInOrder, OneCurrent DEF Recording
    <3>2. lost = 0 => ~Exposed'
      BY <1>2, <1>3, <1>9, <2>1 DEF Exposed, Recording
    <3>3. shown[p] # {} => Exposed
      BY <3>1 DEF Exposed
    <3> QED
      BY <1>6, <1>14, <1>15, <3>2, <3>3
  <2>2. CASE ~Current(w)
    <3>1. w \in Stale
      BY <2>2 DEF Stale
    <3>2. shown[p] # {} => (Exposed' => Exposed)
      <4>1. Recording' <=> Recording
        BY <1>3, <1>9, <2>2 DEF Recording
      <4>2. shown[p] # {} => \A q \in Part : shown'[q] # {} => shown[q] # {}
        BY <1>5
      <4> QED
        BY <4>1, <4>2 DEF Exposed
    <3> QED
      BY <1>6, <1>14, <1>15, <3>1, <3>2
  <2> QED
    BY <2>1, <2>2
<1> QED
  BY <1>8, <1>10, <1>11, <1>12, <1>14, <1>16 DEF IInv, Paid

\* The current worker records the part it has sent; the next one has not been seen yet.
LEMMA RecordKeeps ==
    ASSUME IInv, NEW w \in Worker, NEW p \in Part, Record(w, p)
    PROVE  IInv'
<1>1. TypeOK /\ RowInv /\ (\A v \in Worker : JobInv(v)) /\ InOrder /\ Paid
  BY DEF IInv
<1>2. /\ job[w].pc = "record" /\ First(p, job[w].todo) /\ Current(w) /\ part[p] = "pending"
      /\ part' = [part EXCEPT ![p] = "delivered"]
      /\ UNCHANGED <<batch, marked, events, shown, repeats, faults>>
  BY DEF Record, Recordable, Current, history
<1> DEFINE j == [job[w] EXCEPT !.pc = NextPoint(job[w].todo \ {p}), !.todo = job[w].todo \ {p}]
<1>3. /\ j \in Job /\ j.pc = NextPoint(job[w].todo \ {p}) /\ j.todo = job[w].todo \ {p}
      /\ job' = [job EXCEPT ![w] = j]
  BY <1>1 DEF Record, TypeOK, Job, NextPoint
<1> HIDE DEF j
<1>4. /\ job' \in [Worker -> Job] /\ job'[w] = j
      /\ \A v \in Worker \ {w} : job'[v] = job[v]
  BY <1>1, <1>3, JobMoves
<1>5. /\ part' \in [Part -> {"pending", "delivered"}] /\ part'[p] = "delivered"
      /\ \A q \in Part \ {p} : part'[q] = part[q]
  BY <1>1, <1>2 DEF TypeOK
<1>6. TypeOK'
  BY <1>1, <1>2, <1>4, <1>5 DEF TypeOK
<1>7. Pending' = Pending \ {p} /\ \A v \in Worker : Current(v)' <=> Current(v)
  BY <1>2, <1>5 DEF Pending, Current, Holds
<1>8. RowInv' /\ InOrder'
  BY <1>1, <1>2, <1>5, <1>7 DEF RowInv, DeliveredIsWhole, InOrder
<1>9. ASSUME NEW v \in Worker PROVE JobInv(v)'
  <2>1. CASE v = w
    <3>1. job[w].todo = Pending
      BY <1>1, <1>2 DEF JobInv
    <3> QED
      BY <1>1, <1>2, <1>3, <1>4, <1>7, <2>1, <3>1 DEF JobInv, NextPoint
  <2>2. CASE v # w
    <3>1. ~Current(v)
      BY <1>2, <2>2, OneCurrent
    <3> QED
      BY <1>1, <1>2, <1>4, <1>7, <2>2, <3>1 DEF JobInv, First
  <2> QED
    BY <2>1, <2>2
<1>10. Stale' \subseteq Stale
  BY <1>2, <1>4, <1>7 DEF Stale
<1>11. ~Exposed'
  <2> SUFFICES ASSUME NEW q \in Part, part'[q] = "pending", shown'[q] # {} PROVE FALSE
    BY DEF Exposed
  <2>1. q # p /\ part[q] = "pending" /\ shown[q] # {}
    BY <1>2, <1>5
  <2>2. q \in job[w].todo
    BY <1>1, <1>2, <2>1 DEF JobInv, Pending
  <2>3. p < q
    BY <1>2, <2>1, <2>2, DeliveryAssumption DEF First, Part
  <2> QED
    BY <1>1, <1>2, <2>1, <2>3 DEF InOrder
<1>12. Paid'
  BY <1>1, <1>2, <1>10, <1>11, PaidStays DEF TypeOK
<1> QED
  BY <1>6, <1>8, <1>9, <1>12 DEF IInv

-----------------------------------------------------------------------------
(* Every step of a worker *)

\* A worker other than at its first step works on a batch that is there.
LEMMA Present ==
    ASSUME IInv, NEW w \in Worker, job[w].pc # "idle"
    PROVE  batch.status # "absent"
BY DEF IInv, JobInv

LEMMA StartKeeps ==
    ASSUME IInv,
           \/ \E w \in Producer, text \in Payload : Call(w, text)
           \/ \E w \in Resumer : Resume(w)
    PROVE  IInv'
<1> USE DEF Worker
<1>1. ASSUME NEW w \in Producer, NEW text \in Payload, Call(w, text), batch.status # "absent"
      PROVE  IInv'
  <2>1. PICK j \in Job : job' = [job EXCEPT ![w] = j] /\ j.pc = "claim"
    BY <1>1, Goes DEF Call, IInv
  <2>2. UNCHANGED <<batch, part, marked, events, shown, repeats, faults>> /\ job[w].pc = "idle"
    BY <1>1 DEF Call, history
  <2> QED
    BY <1>1, <2>1, <2>2, QuietKeeps DEF IInv, TypeOK
<1>2. ASSUME NEW w \in Resumer, Resume(w) PROVE IInv'
  <2>1. PICK j \in Job : job' = [job EXCEPT ![w] = j] /\ j.pc = "claim"
    BY <1>2, Goes DEF Resume, IInv
  <2>2. /\ UNCHANGED <<batch, part, marked, events, shown, repeats, faults>> /\ job[w].pc = "idle"
        /\ batch.status # "absent"
    BY <1>2 DEF Resume, history, Open
  <2> QED
    BY <1>2, <2>1, <2>2, QuietKeeps DEF IInv, TypeOK
<1> QED
  BY <1>1, <1>2, InsertKeeps

LEMMA ClaimRefusedKeeps ==
    ASSUME IInv, NEW w \in Worker, ClaimRefused(w)
    PROVE  IInv'
<1>1. PICK j \in Job : job' = [job EXCEPT ![w] = j] /\ j.pc = "report"
  BY Goes DEF ClaimRefused, IInv
<1>2. UNCHANGED <<part, marked, events, shown, repeats, faults>> /\ job[w].pc = "claim"
  BY DEF ClaimRefused, history
<1>3. CASE batch' = batch
  BY <1>1, <1>2, <1>3, Present, QuietKeeps DEF IInv, TypeOK
<1>4. CASE batch' # batch
  <2>1. /\ batch' = [batch EXCEPT !.status = "expired", !.token = NoWorker, !.live = FALSE]
        /\ batch.status \in Open /\ Dormant
    BY <1>4 DEF ClaimRefused
  <2>2. /\ batch' \in Batch /\ batch'.status = "expired" /\ batch'.token = NoWorker
        /\ ~batch'.live /\ batch'.live = FALSE /\ batch'.payload = batch.payload
    BY <2>1 DEF IInv, TypeOK, Batch, Final
  <2>3. \A v \in Worker : ~Current(v)
    BY <2>1, DeliveryAssumption DEF Dormant, Current, Holds, Worker
  <2> QED
    BY <1>1, <1>2, <2>1, <2>2, <2>3, ReleaseKeeps DEF Final
<1> QED
  BY <1>3, <1>4

LEMMA FailKeeps ==
    ASSUME IInv, NEW w \in Worker, Fail(w)
    PROVE  IInv'
<1>1. PICK j \in Job : job' = [job EXCEPT ![w] = j] /\ j.pc = "idle"
  BY IdleType DEF Fail, Return
<1>2. UNCHANGED <<part, marked, events, shown, repeats, faults>> /\ job[w].pc = "fail"
  BY DEF Fail, history
<1>3. CASE ~Holds(w)
  <2>1. batch' = batch /\ batch.status # "absent"
    BY <1>2, <1>3, Present DEF Fail
  <2>2. events \in Nat /\ marked \in BOOLEAN
    BY DEF IInv, TypeOK
  <2> QED
    BY <1>1, <1>2, <2>1, <2>2, QuietKeeps
<1>4. CASE Holds(w)
  <2>1. /\ batch' = FailedBatch(job[w].terminal) /\ batch.status \in Open
    BY <1>4, DeliveryAssumption DEF Fail, Holds, IInv, RowInv, Open, Worker
  <2>2. /\ batch' \in Batch /\ batch'.status \in {"failed", "pending"} /\ batch'.token = NoWorker
        /\ batch'.live = FALSE /\ batch'.payload = batch.payload
    BY <2>1 DEF FailedBatch, IInv, TypeOK, Batch, Final, Open
  <2>3. \A v \in Worker : Current(v) => v = w
    BY <1>4 DEF Current, Holds
  <2> QED
    BY <1>1, <1>2, <2>1, <2>2, <2>3, ReleaseKeeps DEF Final
<1> QED
  BY <1>3, <1>4

LEMMA CompleteKeeps ==
    ASSUME IInv, NEW w \in Worker, Complete(w)
    PROVE  IInv'
<1>1. PICK j \in Job : /\ job' = [job EXCEPT ![w] = j]
                       /\ j.pc \in {"idle", "mark"} /\ (j.pc = "mark" => Holds(w))
  BY Reports DEF Complete, IInv, Holds
<1>2. UNCHANGED <<part, marked, events, shown, repeats, faults>> /\ job[w].pc = "complete"
  BY DEF Complete, history
<1>3. CASE ~Holds(w)
  <2>1. batch' = batch /\ batch.status # "absent" /\ j.pc = "idle"
    BY <1>1, <1>2, <1>3, Present DEF Complete
  <2>2. events \in Nat /\ marked \in BOOLEAN
    BY DEF IInv, TypeOK
  <2> QED
    BY <1>1, <1>2, <2>1, <2>2, QuietKeeps
<1>4. CASE Holds(w)
  <2>1. /\ batch' = [batch EXCEPT !.status = "delivered", !.token = NoWorker, !.live = FALSE]
        /\ batch.status \in Open /\ Pending = {}
    BY <1>2, <1>4, DeliveryAssumption DEF Complete, Holds, IInv, RowInv, JobInv, Open, Worker
  <2>2. /\ batch' \in Batch /\ batch'.status = "delivered" /\ batch'.token = NoWorker
        /\ batch'.live = FALSE /\ batch'.payload = batch.payload
    BY <2>1 DEF IInv, TypeOK, Batch, Final
  <2>3. \A v \in Worker : Current(v) => v = w
    BY <1>4 DEF Current, Holds
  <2> QED
    BY <1>1, <1>2, <2>1, <2>2, <2>3, ReleaseKeeps DEF Final
<1> QED
  BY <1>3, <1>4

LEMMA WorkKeeps ==
    ASSUME IInv, NEW w \in Worker, Work(w)
    PROVE  IInv'
<1>1. TypeOK /\ RowInv /\ JobInv(w)
  BY DEF IInv
<1>2. CASE ReadPending(w)
  <2>1. PICK j \in Job : /\ job' = [job EXCEPT ![w] = j]
                         /\ j.pc = NextPoint(Pending) /\ j.todo = Pending
    <3> DEFINE j == [job[w] EXCEPT !.pc = NextPoint(Pending), !.todo = Pending]
    <3>1. j \in Job /\ j.pc = NextPoint(Pending) /\ j.todo = Pending
      BY <1>1 DEF TypeOK, Job, NextPoint, Pending
    <3> QED
      BY <1>2, <3>1 DEF ReadPending
  <2>2. UNCHANGED <<batch, part, marked, events, shown, repeats, faults>> /\ job[w].pc = "read"
    BY <1>2 DEF ReadPending, history
  <2>3. batch.status # "absent" /\ events \in Nat /\ marked \in BOOLEAN /\ j.pc # "mark"
    BY <1>1, <2>1, <2>2, Present DEF TypeOK, NextPoint
  <2> QED
    BY <2>1, <2>2, <2>3, QuietKeeps
<1>3. ASSUME NEW p \in Part, SendOk(w, p) PROVE IInv'
  BY <1>1, <1>3, SendKeeps DEF SendOk, TypeOK
<1>4. ASSUME NEW p \in Part, SendAmbiguous(w, p) PROVE IInv'
  BY <1>1, <1>4, SendKeeps DEF SendAmbiguous, Event, TypeOK
<1>5. ASSUME NEW terminal \in BOOLEAN, SendRefused(w, terminal) PROVE IInv'
  <2>1. PICK j \in Job : job' = [job EXCEPT ![w] = j] /\ j.pc = "fail"
    <3> DEFINE j == [job[w] EXCEPT !.pc = "fail", !.terminal = terminal]
    <3>1. j \in Job /\ j.pc = "fail"
      BY <1>1 DEF TypeOK, Job
    <3> QED
      BY <1>5, <3>1 DEF SendRefused
  <2>2. UNCHANGED <<batch, part, marked, events, shown, repeats, faults>> /\ job[w].pc = "send"
    BY <1>5 DEF SendRefused, history
  <2> QED
    BY <1>1, <2>1, <2>2, Present, QuietKeeps DEF TypeOK
<1>6. ASSUME NEW p \in Part, RecordLeaseLost(w, p) PROVE IInv'
  <2>1. PICK j \in Job : job' = [job EXCEPT ![w] = j] /\ j.pc = "report"
    BY <1>1, <1>6, Goes DEF RecordLeaseLost
  <2>2. UNCHANGED <<batch, part, marked, events, shown, repeats, faults>> /\ job[w].pc = "record"
    BY <1>6 DEF RecordLeaseLost, history
  <2>3. ~Current(w)
    BY <1>6, <2>2, SendsInOrder DEF RecordLeaseLost, Recordable, Current
  <2> QED
    BY <1>1, <2>1, <2>2, <2>3, Present, QuietKeeps DEF TypeOK
<1>7. CASE RecordDbError(w)
  <2>1. PICK j \in Job : job' = [job EXCEPT ![w] = j] /\ j.pc = "fail"
    BY <1>1, <1>7, Goes DEF RecordDbError
  <2>2. /\ UNCHANGED <<batch, part, marked, shown, repeats>> /\ job[w].pc = "record"
        /\ events' \in Nat /\ faults' = faults + 1
    BY <1>1, <1>7 DEF RecordDbError, Event, TypeOK
  <2> QED
    BY <1>1, <2>1, <2>2, Present, QuietKeeps DEF TypeOK
<1>8. CASE FailLost(w) \/ CompleteDbError(w)
  <2>1. PICK j \in Job : job' = [job EXCEPT ![w] = j] /\ j.pc = "idle"
    BY <1>8, IdleType DEF FailLost, CompleteDbError, Return
  <2>2. /\ UNCHANGED <<batch, part, marked, shown, repeats, faults>>
        /\ job[w].pc \in {"fail", "complete"} /\ events' \in Nat
    BY <1>1, <1>8 DEF FailLost, CompleteDbError, Event, TypeOK, history
  <2> QED
    BY <1>1, <2>1, <2>2, Present, QuietKeeps DEF TypeOK
<1>9. CASE Report(w)
  <2>1. PICK j \in Job : /\ job' = [job EXCEPT ![w] = j] /\ j.pc \in {"idle", "mark"}
                         /\ j.pc = "mark" => batch.status = "delivered"
    BY <1>1, <1>9, Reports DEF Report
  <2>2. UNCHANGED <<batch, part, marked, events, shown, repeats, faults>> /\ job[w].pc = "report"
    BY <1>9 DEF Report, history
  <2> QED
    BY <1>1, <2>1, <2>2, Present, QuietKeeps DEF TypeOK
<1>10. CASE Mark(w)
  <2>1. PICK j \in Job : job' = [job EXCEPT ![w] = j] /\ j.pc = "idle"
    BY <1>10, IdleType DEF Mark, Return
  <2>2. /\ UNCHANGED <<batch, part, events, shown, repeats, faults>> /\ job[w].pc = "mark"
        /\ marked' = TRUE /\ batch.status = "delivered"
    BY <1>1, <1>10 DEF Mark, history, JobInv
  <2> QED
    BY <1>1, <2>1, <2>2, Present, QuietKeeps DEF TypeOK
<1> QED
  BY <1>2, <1>3, <1>4, <1>5, <1>6, <1>7, <1>8, <1>9, <1>10,
     ClaimKeeps, ClaimRefusedKeeps, FailKeeps, CompleteKeeps, RecordKeeps
     DEF Work, Send, RecordStep

-----------------------------------------------------------------------------
(* The theorems *)

LEMMA InitIInv == Init => IInv
<1> SUFFICES ASSUME Init PROVE IInv
  OBVIOUS
<1>1. batch \in Batch /\ batch.status = "absent" /\ batch.token = NoWorker
  BY DEF Init, Batch
<1>2. \A w \in Worker : job[w].pc = "idle"
  BY IdleType DEF Init
<1>3. TypeOK
  BY <1>1, IdleType DEF Init, TypeOK
<1>4. RowInv /\ InOrder /\ (\A w \in Worker : JobInv(w))
  BY <1>1, <1>2 DEF Init, RowInv, DeliveredIsWhole, InOrder, JobInv
<1>5. Stale = {} /\ ~Exposed
  BY <1>2 DEF Init, Stale, Exposed
<1>6. Paid
  BY <1>5, FS_EmptySet DEF Init, Paid
<1> QED
  BY <1>3, <1>4, <1>6 DEF IInv

LEMMA NextIInv == IInv /\ [Next]_vars => IInv'
<1> SUFFICES ASSUME IInv, [Next]_vars PROVE IInv'
  OBVIOUS
<1>1. CASE UNCHANGED vars
  BY <1>1 DEF vars, IInv, TypeOK, RowInv, DeliveredIsWhole, JobInv, InOrder, Paid, Stale, Exposed,
              Recording, Current, Holds, Pending, First
<1> QED
  BY <1>1, StartKeeps, WorkKeeps, LapseKeeps, ClockKeeps, CrashKeeps DEF Next, Clock

THEOREM Invariance == Spec => []IInv
BY InitIInv, NextIInv, PTL DEF Spec

\* What is called delivered was shown and recorded whole, and the chat sees the
\* parts of one text, for every number of parts, workers and texts.
THEOREM DeliversWhole == Spec => []WholeAndOneText
<1>1. IInv => WholeAndOneText
  BY DEF IInv, RowInv, WholeAndOneText, OneText
<1> QED
  BY <1>1, Invariance, PTL

\* A part is repeated only for a fault of its own, however many there are.
THEOREM RepeatsHaveFaults == Spec => []RepeatsAreExplained
<1>1. IInv => RepeatsAreExplained
  <2> SUFFICES ASSUME IInv PROVE repeats <= faults
    BY DEF RepeatsAreExplained
  <2>1. Cardinality(Stale) \in Nat /\ repeats \in Nat /\ faults \in Nat
    BY FS_CardinalityType DEF IInv, TypeOK, Paid
  <2> QED
    BY <2>1 DEF IInv, Paid
<1> QED
  BY <1>1, Invariance, PTL

-----------------------------------------------------------------------------
(* A settled batch, and the promise *)

\* The lease is held only on a batch at work, so a settled one is nobody's.
LEMMA SettledIsFree ==
    ASSUME IInv, batch.status \in Final
    PROVE  batch.token = NoWorker /\ \A w \in Worker : ~Holds(w)
BY DeliveryAssumption DEF IInv, RowInv, Holds, Final, Worker

LEMMA SettledStep ==
    ASSUME IInv, [Next]_vars, batch.status \in Final
    PROVE  batch'.status = batch.status /\ batch'.token = NoWorker /\ part' = part
<1>1. batch.token = NoWorker /\ (\A w \in Worker : ~Holds(w)) /\ batch.status \notin Open
  BY SettledIsFree DEF Final, Open
<1>2. CASE UNCHANGED vars
  BY <1>1, <1>2 DEF vars
<1>3. CASE \/ \E w \in Producer, text \in Payload : Call(w, text)
           \/ \E w \in Resumer : Resume(w)
  BY <1>1, <1>3 DEF Call, Resume, Final
<1>4. ASSUME NEW w \in Worker, Work(w)
      PROVE  batch' = batch /\ part' = part
  BY <1>1, <1>4 DEF Work, Claim, Claimable, ClaimRefused, ReadPending, Send, SendOk, SendAmbiguous,
     SendRefused, RecordStep, Record, Recordable, RecordLeaseLost, RecordDbError, Fail, FailLost,
     Complete, CompleteDbError, Report, Mark
<1>5. CASE Clock
  BY <1>1, <1>5, BatchType DEF Clock, LeaseLapse, BackoffOver, Expire, IInv, Batch
<1>6. CASE Crash
  BY <1>1, <1>6 DEF Crash
<1> QED
  BY <1>1, <1>2, <1>3, <1>4, <1>5, <1>6 DEF Next

\* Whatever stragglers still do, a settled batch keeps its status and its parts.
THEOREM SettledStays == Spec => FinalIsFinal
<1>1. IInv /\ [Next]_vars
      => [batch.status \in Final
          => batch'.status = batch.status /\ batch'.token = NoWorker /\ part' = part]_vars
  BY SettledStep
<1> QED
  BY <1>1, Invariance, PTL DEF Spec, FinalIsFinal

\* What the promise calls the state of this batch.
Stage == CASE batch.status = "absent" -> "none"
           [] batch.status \in Open -> "open"
           [] batch.status = "delivered" -> "delivered"
           [] OTHER -> "dropped"
Told == {p \in Part : shown[p] # {}}
Kept == {p \in Part : part[p] = "delivered"}

LEMMA StageIs ==
    /\ batch.status = "absent" => Stage = "none"
    /\ batch.status \in Open => Stage = "open"
    /\ batch.status = "delivered" => Stage = "delivered"
    /\ batch.status \in {"failed", "expired"} => Stage = "dropped"
BY DEF Stage, Open

LEMMA StageWillBe ==
    /\ batch'.status = "absent" => Stage' = "none"
    /\ batch'.status \in Open => Stage' = "open"
    /\ batch'.status = "delivered" => Stage' = "delivered"
    /\ batch'.status \in {"failed", "expired"} => Stage' = "dropped"
BY DEF Stage, Open

LEMMA PromiseInit == Init => Promise!Init
<1> SUFFICES ASSUME Init PROVE Promise!Init
  OBVIOUS
<1>1. Stage = "none" /\ Told = {} /\ Kept = {}
  BY StageIs DEF Init, Told, Kept
<1> QED
  BY <1>1 DEF Promise!Init, Stage, Told, Kept

\* The actions of the promise, in the terms of this batch.
LEMMA PromiseActions ==
    /\ Stage = "none" /\ Stage' = "open" /\ Told' = Told /\ Kept' = Kept => Promise!Accept
    /\ Stage = "open" /\ Kept = Part /\ Stage' = "delivered" /\ Told' = Told /\ Kept' = Kept
       => Promise!Deliver
    /\ Stage = "open" /\ Stage' = "dropped" /\ Told' = Told /\ Kept' = Kept => Promise!GiveUp
    /\ Stage' = Stage /\ Told' = Told /\ Kept' = Kept => UNCHANGED Promise!outbox
    /\ \A p \in Part :
         /\ Stage # "none" /\ (\A q \in Part : q < p => q \in Kept)
            /\ Told' = Told \cup {p} /\ Stage' = Stage /\ Kept' = Kept => Promise!Tell(p)
         /\ Stage = "open" /\ p \in Told /\ Kept' = Kept \cup {p} /\ Stage' = Stage /\ Told' = Told
            => Promise!Keep(p)
BY DEF Stage, Told, Kept, Part, Promise!Accept, Promise!Deliver, Promise!GiveUp, Promise!outbox,
       Promise!Tell, Promise!Keep, Promise!Part

\* A step that leaves the parts and the chat alone does to the promise what it does to the status.
LEMMA StatusSteps ==
    ASSUME IInv, UNCHANGED <<part, shown>>,
           \/ batch'.status = batch.status
           \/ batch.status = "absent" /\ batch'.status \in Open
           \/ batch.status \in Open /\ batch'.status \in Open \cup {"failed", "expired"}
           \/ batch.status \in Open /\ batch'.status = "delivered" /\ Pending = {}
    PROVE  [Promise!Next]_(Promise!outbox)
<1>1. Told' = Told /\ Kept' = Kept
  BY DEF Told, Kept
<1>2. CASE batch'.status = batch.status
  <2>1. Stage' = Stage
    BY <1>2 DEF Stage
  <2> QED
    BY <1>1, <2>1, PromiseActions
<1>3. CASE batch.status = "absent" /\ batch'.status \in Open
  BY <1>1, <1>3, StageIs, StageWillBe, PromiseActions DEF Promise!Next
<1>4. CASE batch.status \in Open /\ batch'.status \in Open
  BY <1>1, <1>4, StageIs, StageWillBe, PromiseActions
<1>5. CASE batch.status \in Open /\ batch'.status \in {"failed", "expired"}
  BY <1>1, <1>5, StageIs, StageWillBe, PromiseActions DEF Promise!Next
<1>6. CASE batch.status \in Open /\ batch'.status = "delivered" /\ Pending = {}
  <2>1. Kept = Part
    BY <1>6 DEF IInv, TypeOK, Kept, Pending
  <2> QED
    BY <1>1, <1>6, <2>1, StageIs, StageWillBe, PromiseActions DEF Promise!Next
<1> QED
  BY <1>2, <1>3, <1>4, <1>5, <1>6

\* Sending a part tells it; the parts before it are kept already.
LEMMA SendSteps ==
    ASSUME IInv, NEW w \in Worker, NEW p \in Part, NEW lost \in {0, 1},
           job[w].pc = "send", First(p, job[w].todo), Accepted(p, lost), UNCHANGED <<batch, part>>
    PROVE  Promise!Next
<1>1. \A q \in Part : q < p => q \in Kept
  BY SendsInOrder DEF Kept
<1>2. Told' = Told \cup {p}
  <2>1. /\ shown'[p] = shown[p] \cup {batch.payload}
        /\ \A q \in Part \ {p} : shown'[q] = shown[q]
    BY DEF Accepted, IInv, TypeOK
  <2> QED
    BY <2>1 DEF Told
<1>3. Kept' = Kept /\ Stage' = Stage /\ Stage # "none"
  <2>1. batch.status \in Open \cup Final
    BY Present, BatchType DEF IInv
  <2> QED
    BY <2>1, StageIs DEF Kept, Stage, Final
<1>4. Promise!Tell(p)
  BY <1>1, <1>2, <1>3, PromiseActions
<1> QED
  BY <1>4 DEF Promise!Next, Promise!Part, Part

\* Recording a part keeps it; the chat has shown it.
LEMMA RecordSteps ==
    ASSUME IInv, NEW w \in Worker, NEW p \in Part, Record(w, p)
    PROVE  Promise!Next
<1>1. /\ part' = [part EXCEPT ![p] = "delivered"] /\ part \in [Part -> {"pending", "delivered"}]
      /\ batch' = batch /\ shown' = shown /\ Holds(w) /\ job[w].pc = "record"
      /\ First(p, job[w].todo)
  BY DEF Record, Recordable, history, IInv, TypeOK
<1>2. Kept' = Kept \cup {p}
  BY <1>1 DEF Kept
<1>3. p \in Told /\ Told' = Told
  BY <1>1 DEF Told, IInv, JobInv
<1>4. Stage = "open" /\ Stage' = Stage
  <2>1. batch.status \in Open
    BY <1>1, DeliveryAssumption DEF IInv, RowInv, Holds, Open, Worker
  <2> QED
    BY <1>1, <2>1, StageIs DEF Stage
<1>5. Promise!Keep(p)
  BY <1>2, <1>3, <1>4, PromiseActions
<1> QED
  BY <1>5 DEF Promise!Next, Promise!Part, Part

\* Every step of the outbox is a step of the promise, or none.
LEMMA PromiseStep ==
    ASSUME IInv, [Next]_vars
    PROVE  [Promise!Next]_(Promise!outbox)
<1>1. TypeOK /\ RowInv /\ batch \in Batch
  BY DEF IInv, TypeOK
<1>2. CASE UNCHANGED vars
  BY <1>2, StatusSteps DEF vars
<1>3. ASSUME NEW w \in Producer, NEW text \in Payload, Call(w, text)
      PROVE  [Promise!Next]_(Promise!outbox)
  <2>1. UNCHANGED <<part, shown>>
    BY <1>3 DEF Call, history
  <2>2. CASE batch' = batch
    BY <2>1, <2>2, StatusSteps
  <2>3. CASE batch' # batch
    <3>1. /\ batch' = [batch EXCEPT !.status = "pending", !.payload = text]
          /\ batch.status = "absent"
      BY <1>3, <2>3 DEF Call
    <3>2. batch'.status = "pending"
      BY <1>1, <3>1 DEF Batch
    <3> QED
      BY <2>1, <3>1, <3>2, StatusSteps DEF Open
  <2> QED
    BY <2>2, <2>3
<1>4. ASSUME NEW w \in Resumer, Resume(w) PROVE [Promise!Next]_(Promise!outbox)
  BY <1>4, StatusSteps DEF Resume, history
<1>5. ASSUME NEW w \in Worker, Work(w) PROVE [Promise!Next]_(Promise!outbox)
  <2>1. CASE Claim(w)
    <3>1. batch.status \in Open /\ batch'.status = "delivering" /\ UNCHANGED <<part, shown>>
      BY <1>1, <2>1 DEF Claim, Claimable, Batch, history
    <3> QED
      BY <3>1, StatusSteps DEF Open
  <2>2. CASE ClaimRefused(w)
    <3>1. UNCHANGED <<part, shown>>
      BY <2>2 DEF ClaimRefused, history
    <3>2. CASE batch' = batch
      BY <3>1, <3>2, StatusSteps
    <3>3. CASE batch' # batch
      <4>1. /\ batch' = [batch EXCEPT !.status = "expired", !.token = NoWorker, !.live = FALSE]
            /\ batch.status \in Open
        BY <2>2, <3>3 DEF ClaimRefused
      <4>2. batch'.status = "expired"
        BY <1>1, <4>1 DEF Batch
      <4> QED
        BY <3>1, <4>1, <4>2, StatusSteps
    <3> QED
      BY <3>2, <3>3
  <2>3. CASE Send(w)
    BY <2>3, SendSteps, StatusSteps DEF Send, SendOk, SendAmbiguous, SendRefused, history
  <2>4. CASE RecordStep(w)
    BY <2>4, RecordSteps, StatusSteps DEF RecordStep, RecordLeaseLost, RecordDbError, history
  <2>5. ASSUME Holds(w) PROVE batch.status \in Open
    BY <1>1, <2>5, DeliveryAssumption DEF RowInv, Holds, Open, Worker
  <2>6. CASE Fail(w)
    <3>1. UNCHANGED <<part, shown>>
      BY <2>6 DEF Fail, history
    <3>2. CASE ~Holds(w)
      BY <2>6, <3>1, <3>2, StatusSteps DEF Fail
    <3>3. CASE Holds(w)
      <4>1. batch' = FailedBatch(job[w].terminal)
        BY <2>6, <3>3 DEF Fail
      <4>2. batch'.status \in {"failed", "pending"}
        BY <1>1, <4>1 DEF FailedBatch, Batch
      <4> QED
        BY <2>5, <3>1, <3>3, <4>2, StatusSteps DEF Open
    <3> QED
      BY <3>2, <3>3
  <2>7. CASE Complete(w)
    <3>1. UNCHANGED <<part, shown>> /\ Pending = {}
      BY <2>7 DEF Complete, history, IInv, JobInv
    <3>2. CASE ~Holds(w)
      BY <2>7, <3>1, <3>2, StatusSteps DEF Complete
    <3>3. CASE Holds(w)
      <4>1. batch' = [batch EXCEPT !.status = "delivered", !.token = NoWorker, !.live = FALSE]
        BY <2>7, <3>3 DEF Complete
      <4>2. batch'.status = "delivered"
        BY <1>1, <4>1 DEF Batch
      <4> QED
        BY <2>5, <3>1, <3>3, <4>2, StatusSteps
    <3> QED
      BY <3>2, <3>3
  <2>8. CASE \/ ReadPending(w) \/ FailLost(w) \/ CompleteDbError(w) \/ Report(w) \/ Mark(w)
    BY <2>8, StatusSteps DEF ReadPending, FailLost, CompleteDbError, Report, Mark, history
  <2> QED
    BY <1>5, <2>1, <2>2, <2>3, <2>4, <2>6, <2>7, <2>8 DEF Work
<1>6. CASE Clock
  <2>1. UNCHANGED <<part, shown>> /\ batch'.status = batch.status
    BY <1>1, <1>6 DEF Clock, LeaseLapse, BackoffOver, Expire, Batch, history
  <2> QED
    BY <2>1, StatusSteps
<1>7. CASE Crash
  BY <1>7, StatusSteps DEF Crash
<1> QED
  BY <1>2, <1>3, <1>4, <1>5, <1>6, <1>7 DEF Next

\* The outbox keeps its promise: parts are told in order and at least once, and a
\* message that is called delivered was told whole.
THEOREM KeepsItsPromise == Spec => ImplementsOutbox
BY PromiseInit, PromiseStep, Invariance, PTL DEF Spec, ImplementsOutbox, Promise!Spec
===============================================================================
