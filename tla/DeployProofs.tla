----------------------------- MODULE DeployProofs -----------------------------
(***************************************************************************)
(* What a maintenance deployment guarantees, for any number of updates and *)
(* wherever it is interrupted, lost or repeated.                           *)
(***************************************************************************)
EXTENDS Deploy, TLAPS

\* The operator and the installer exclude each other, and an operator that is gone leaves nothing.
Exclusive == /\ op.pc = "off" => op = NoOperator
             /\ op.pc = "off" \/ install.pc = "off"

\* While the snapshot may be restored the service is off for launchd, and stays off.
Down == journal.permitted => ~enabled /\ ~loaded /\ ~Live("agent")

\* A process holds its lease until it is lost or the process ends; a lease has one holder.
Leases ==
    /\ \A p \in Proc : Live(p) /\ ~proc[p].lost => proc[p].lease
    /\ \A p \in Proc : proc[p].lease =>
          /\ proc[p].db = "source" => ~op.lease
          /\ proc[p].db = "copy" => ~op.target
    /\ \A p, q \in Proc : proc[p].lease /\ proc[q].lease /\ proc[p].db = proc[q].db => p = q

\* An operation that has not admitted the release yet, and is not about to end.
BeforeAdmission ==
    \/ op.pc \in {"disable", "bootout", "absent"} /\ ~op.err
    \/ op.pc \in {"snapshot", "verify", "migrate", "validate", "guard", "restore", "previous", "admit"}

\* The restored database serves a process, or will when launchd starts one.
CopyInUse == plist.db = "copy" \/ \E p \in Proc : Live(p) /\ proc[p].db = "copy"

\* Once a release is admitted, nothing permits the snapshot and no operation leads there.
Boundary ==
    /\ journal.permitted \/ op.pc \notin {"off", "begin"} => journal.phase # "none"
    /\ op.pc \in {"activate", "enable", "bootstrap", "ready", "final"} => ~journal.permitted
    /\ served \/ journal.phase = "admission_started" \/ CopyInUse
       => ~journal.permitted /\ ~BeforeAdmission /\ journal.phase # "none"
    /\ CopyInUse => op.pc # "activate"

\* The restored database is what the snapshot was until it is put to use.
Restored ==
    /\ op.pc = "previous" => data["copy"] = journal.snapshot
    /\ op.pc \in {"admit", "activate"} /\ journal.release = "previous"
       => data["copy"] = journal.snapshot

IInv == TypeOK /\ Exclusive /\ Down /\ Leases /\ Boundary /\ Restored

-----------------------------------------------------------------------------
(* Types *)

LEMMA Nothing ==
    /\ NoOperator \in Operator /\ NoOperator.pc = "off" /\ ~NoOperator.err
    /\ ~NoOperator.lease /\ ~NoOperator.target
    /\ NoProcess \in Process /\ NoProcess.pc = "off" /\ ~NoProcess.lease /\ ~NoProcess.seen
    /\ ~NoProcess.lost
BY DEF NoOperator, Operator, NoProcess, Process, Release, DB

\* What the type invariant says of one process.
LEMMA ProcessType ==
    ASSUME TypeOK, NEW p \in Proc
    PROVE  proc[p] \in Process /\ (~Live(p) => proc[p] = NoProcess)
BY DEF TypeOK

\* One process changes, and keeps or changes its fields as told.
LEMMA OneProcess ==
    ASSUME TypeOK, NEW p \in Proc, NEW r \in Process, proc' = [proc EXCEPT ![p] = r],
           r.pc = "off" => r = NoProcess
    PROVE  /\ proc' \in [Proc -> Process] /\ proc'[p] = r
           /\ \A q \in Proc \ {p} : proc'[q] = proc[q]
           /\ \A q \in Proc : ~Live(q)' => proc'[q] = NoProcess
BY DEF TypeOK, Live

LEMMA RunProcess ==
    ASSUME TypeOK, NEW p \in Proc, NEW agent \in Agent, Run(p, agent)
    PROVE  \E r \in Process : /\ proc' = [proc EXCEPT ![p] = r]
                              /\ r.pc = "polling" /\ r.lease /\ r.seen /\ ~r.lost /\ r.db = agent.db
<1> DEFINE r == [NoProcess EXCEPT !.pc = "polling", !.lease = TRUE, !.seen = TRUE,
                                  !.release = agent.release, !.db = agent.db]
<1>1. /\ r \in Process /\ r.pc = "polling" /\ r.lease /\ r.seen /\ ~r.lost /\ r.db = agent.db
  BY DEF NoProcess, Process, Agent, Release, DB
<1> QED
  BY <1>1 DEF Run

\* A process that goes on, drains, or loses its session.
LEMMA StepProcess ==
    ASSUME TypeOK, NEW p \in Proc, Live(p),
           Write(p) \/ LoseSession(p) \/ Watch(p) \/ ShutDown(p)
    PROVE  \E r \in Process :
              /\ proc' = [proc EXCEPT ![p] = r] /\ r.pc # "off" /\ r.db = proc[p].db
              /\ (r.lease = proc[p].lease /\ r.lost = proc[p].lost) \/ (~r.lease /\ r.lost)
<1> DEFINE W == [proc[p] EXCEPT !.seen = TRUE]
           L == [proc[p] EXCEPT !.lease = FALSE, !.seen = FALSE, !.lost = TRUE]
           D == [proc[p] EXCEPT !.pc = "draining"]
<1>1. proc[p] \in Process /\ proc[p].pc # "off"
  BY ProcessType DEF Live
<1>2. /\ W \in Process /\ W.pc = proc[p].pc /\ W.db = proc[p].db
      /\ W.lease = proc[p].lease /\ W.lost = proc[p].lost
  BY <1>1 DEF Process
<1>3. L \in Process /\ L.pc = proc[p].pc /\ L.db = proc[p].db /\ ~L.lease /\ L.lost
  BY <1>1 DEF Process
<1>4. /\ D \in Process /\ D.pc = "draining" /\ D.db = proc[p].db
      /\ D.lease = proc[p].lease /\ D.lost = proc[p].lost
  BY <1>1 DEF Process
<1>5. /\ Write(p) => proc' = [proc EXCEPT ![p] = W]
      /\ LoseSession(p) => proc' = [proc EXCEPT ![p] = L]
      /\ Watch(p) \/ ShutDown(p) => proc' = [proc EXCEPT ![p] = D]
  BY DEF Write, LoseSession, Watch, ShutDown
<1> HIDE DEF W, L, D
<1> QED
  BY <1>1, <1>2, <1>3, <1>4, <1>5

\* The job of launchd is unloaded: nothing changes but how far its process got.
LEMMA UnloadProcess ==
    ASSUME TypeOK, Unload
    PROVE  /\ proc' \in [Proc -> Process]
           /\ \A p \in Proc : /\ Live(p)' <=> Live(p)
                              /\ proc'[p].db = proc[p].db /\ proc'[p].lease = proc[p].lease
                              /\ proc'[p].lost = proc[p].lost
           /\ \A p \in Proc : ~Live(p)' => proc'[p] = NoProcess
<1> DEFINE r == [proc["agent"] EXCEPT !.pc = IF proc["agent"].pc = "polling" THEN "draining"
                                             ELSE proc["agent"].pc]
<1>1. "agent" \in Proc /\ proc["agent"] \in Process
  BY ProcessType DEF Proc
<1>2. /\ r \in Process /\ r.db = proc["agent"].db /\ r.lease = proc["agent"].lease
      /\ r.lost = proc["agent"].lost /\ (r.pc = "off" <=> proc["agent"].pc = "off")
  BY <1>1 DEF Process
<1>3. r.pc = "off" => r = NoProcess
  <2>1. proc["agent"].pc = "off" => proc["agent"] = NoProcess
    BY <1>1, ProcessType DEF Live
  <2> QED
    BY <1>2, <2>1, Nothing DEF NoProcess
<1>4. proc' = [proc EXCEPT !["agent"] = r]
  BY <1>1 DEF Unload, TypeOK
<1> HIDE DEF r
<1> QED
  BY <1>1, <1>2, <1>3, <1>4, OneProcess DEF Live

-----------------------------------------------------------------------------
(* The bot *)

\* One process becomes r: it keeps its lease and its database, or starts with a free one.
Becomes(p, r) ==
    /\ proc' = [proc EXCEPT ![p] = r]
    /\ UNCHANGED <<journal, lock, op, install, enabled, plist, loaded, schema>>
    /\ r.pc = "off" => r = NoProcess
    /\ r.pc # "off" /\ ~r.lost => r.lease
    /\ r.lease => (proc[p].lease /\ r.db = proc[p].db) \/ Free(r.db)
    /\ r.pc # "off" => \/ Live(p) /\ r.db = proc[p].db
                       \/ r.db = plist.db /\ loaded
                       \/ r.db = "source" /\ p = "stray"
    /\ served' \in BOOLEAN /\ (served' => served \/ journal.phase = "admission_started")
    /\ data' \in [DB -> 0..MaxWrites]
    /\ data'["copy"] = data["copy"] \/ (Live(p) /\ proc[p].db = "copy")

LEMMA ProcessKeeps ==
    ASSUME IInv, NEW p \in Proc, NEW r \in Process, Becomes(p, r)
    PROVE  IInv'
<1> USE DEF Becomes
<1>1. TypeOK /\ Exclusive /\ Down /\ Leases /\ Boundary /\ Restored
  BY DEF IInv
<1>2. /\ proc' \in [Proc -> Process] /\ proc'[p] = r
      /\ \A q \in Proc \ {p} : proc'[q] = proc[q]
      /\ \A q \in Proc : ~Live(q)' => proc'[q] = NoProcess
  BY <1>1, OneProcess
<1>3. UNCHANGED <<journal, lock, op, install, enabled, plist, loaded, schema>>
  OBVIOUS
<1>4. TypeOK'
  BY <1>1, <1>2, <1>3 DEF TypeOK
<1>5. Exclusive'
  BY <1>1, <1>3 DEF Exclusive
<1>6. Down'
  <2> SUFFICES ASSUME journal.permitted, Live("agent")' PROVE FALSE
    BY <1>1, <1>3 DEF Down
  <2>1. ~loaded /\ ~Live("agent") /\ "agent" # "stray" /\ "agent" \in Proc
    BY <1>1 DEF Down, Proc
  <2> QED
    BY <1>2, <2>1 DEF Live
<1>7. Leases'
  <2>1. \A q \in Proc : Live(q)' /\ ~proc'[q].lost => proc'[q].lease
    BY <1>1, <1>2 DEF Leases, Live
  <2>2. CASE ~r.lease
    BY <1>1, <1>2, <1>3, <2>1, <2>2 DEF Leases
  <2>3. CASE r.lease /\ proc[p].lease /\ r.db = proc[p].db
    BY <1>1, <1>2, <1>3, <2>1, <2>3 DEF Leases
  <2>4. CASE r.lease /\ Free(r.db)
    <3>1. \A q \in Proc : ~(proc[q].lease /\ proc[q].db = r.db)
      BY <2>4 DEF Free
    <3>2. /\ r.db = "source" => ~op.lease
          /\ r.db = "copy" => ~op.target
      BY <2>4 DEF Free
    <3> QED
      BY <1>1, <1>2, <1>3, <2>1, <3>1, <3>2 DEF Leases
  <2> QED
    BY <2>2, <2>3, <2>4
<1>8. CopyInUse' => CopyInUse
  <2>1. ASSUME NEW q \in Proc, Live(q)', proc'[q].db = "copy" PROVE CopyInUse
    <3>1. CASE q = p
      BY <1>2, <2>1, <3>1 DEF CopyInUse, Live
    <3>2. CASE q # p
      BY <1>2, <2>1, <3>2 DEF CopyInUse, Live
    <3> QED
      BY <3>1, <3>2
  <2> QED
    BY <1>3, <2>1 DEF CopyInUse
<1>9. Boundary'
  BY <1>1, <1>3, <1>8 DEF Boundary, BeforeAdmission
<1>10. Restored'
  <2>1. op.pc \in {"previous", "admit", "activate"} => data'["copy"] = data["copy"]
    BY <1>1 DEF Boundary, CopyInUse, BeforeAdmission
  <2> QED
    BY <1>1, <1>3, <2>1 DEF Restored
<1> QED
  BY <1>4, <1>5, <1>6, <1>7, <1>9, <1>10 DEF IInv

LEMMA RuntimeKeeps ==
    ASSUME IInv, Runtime
    PROVE  IInv'
<1>1. TypeOK /\ Leases
  BY DEF IInv
<1>2. served \in BOOLEAN /\ data \in [DB -> 0..MaxWrites] /\ plist \in Agent
  BY <1>1 DEF TypeOK
<1>3. CASE Launch
  <2>1. PICK r \in Process : /\ proc' = [proc EXCEPT !["agent"] = r] /\ r.pc = "polling"
                             /\ r.lease /\ r.db = plist.db
    BY <1>1, <1>2, <1>3, RunProcess DEF Launch, Proc
  <2>2. Free(plist.db) /\ loaded
    BY <1>3 DEF Launch, Run
  <2> QED
    <3>1. /\ UNCHANGED Rest /\ UNCHANGED <<loaded, data, schema>>
          /\ served' = (served \/ journal.phase = "admission_started")
      BY <1>3 DEF Launch
    <3>2. served' \in BOOLEAN /\ (served' => served \/ journal.phase = "admission_started")
      BY <1>2, <3>1
    <3>3. Becomes("agent", r)
      BY <1>2, <2>1, <2>2, <3>1, <3>2 DEF Becomes, Rest
    <3> QED
      BY <3>3, ProcessKeeps DEF Proc
<1>4. CASE StartByHand
  <2> DEFINE agent == [release |-> "previous", db |-> "source", direct |-> TRUE]
  <2>1. agent \in Agent /\ agent.db = "source"
    BY DEF Agent, Release, DB
  <2>2. Run("stray", agent)
    BY <1>4 DEF StartByHand
  <2> HIDE DEF agent
  <2>3. PICK r \in Process : /\ proc' = [proc EXCEPT !["stray"] = r] /\ r.pc = "polling"
                             /\ r.lease /\ r.db = "source"
    BY <1>1, <2>1, <2>2, RunProcess DEF Proc
  <2>4. Free("source")
    BY <2>1, <2>2 DEF Run
  <2> QED
    <3>1. UNCHANGED Rest /\ UNCHANGED <<loaded, data, schema, served>>
      BY <1>4 DEF StartByHand
    <3>2. Becomes("stray", r)
      BY <1>2, <2>3, <2>4, <3>1 DEF Becomes, Rest
    <3> QED
      BY <3>2, ProcessKeeps DEF Proc
<1>5. ASSUME NEW p \in Proc, Write(p) \/ LoseSession(p) \/ Watch(p) \/ ShutDown(p)
      PROVE  IInv'
  <2>1. Live(p)
    BY <1>1, <1>5, ProcessType, Nothing DEF Write, LoseSession, Watch, ShutDown, Live
  <2>2. PICK r \in Process :
           /\ proc' = [proc EXCEPT ![p] = r] /\ r.pc # "off" /\ r.db = proc[p].db
           /\ (r.lease = proc[p].lease /\ r.lost = proc[p].lost) \/ (~r.lease /\ r.lost)
    BY <1>1, <1>5, <2>1, StepProcess
  <2>3. /\ UNCHANGED Rest /\ UNCHANGED <<loaded, schema, served>>
        /\ data' \in [DB -> 0..MaxWrites]
        /\ data'["copy"] = data["copy"] \/ proc[p].db = "copy"
    <3>1. CASE Write(p)
      <4>1. proc[p].db \in DB
        BY <1>1, ProcessType DEF Process
      <4>2. data[proc[p].db] + 1 \in 0..MaxWrites
        BY <1>2, <3>1, <4>1, DeployAssumption DEF Write
      <4> QED
        BY <1>2, <3>1, <4>1, <4>2 DEF Write, DB
    <3>2. CASE LoseSession(p) \/ Watch(p) \/ ShutDown(p)
      BY <1>2, <3>2 DEF LoseSession, Watch, ShutDown
    <3> QED
      BY <1>5, <3>1, <3>2
  <2>4. ~r.lost => r.lease
    BY <1>1, <2>1, <2>2 DEF Leases
  <2>5. r.lease => proc[p].lease
    BY <2>2
  <2>6. Becomes(p, r)
    BY <1>2, <2>1, <2>2, <2>3, <2>4, <2>5 DEF Becomes, Rest
  <2> QED
    BY <2>6, ProcessKeeps
<1>6. ASSUME NEW p \in Proc, Exit(p) \/ Killed(p)
      PROVE  IInv'
  <2>1. /\ proc' = [proc EXCEPT ![p] = NoProcess] /\ UNCHANGED Rest
        /\ UNCHANGED <<loaded, data, schema, served>>
    BY <1>6 DEF Exit, Killed
  <2>2. Becomes(p, NoProcess)
    BY <1>2, <2>1, Nothing DEF Becomes, Rest
  <2> QED
    BY <2>2, Nothing, ProcessKeeps
<1> QED
  BY <1>3, <1>4, <1>5, <1>6 DEF Runtime

-----------------------------------------------------------------------------
(* The operator, while the bot and launchd stay as they are *)

\* The operator or its journal moves on: what it leaves behind respects the boundary.
Advances ==
    /\ UNCHANGED <<install, Bot>>
    /\ journal' \in Journal /\ lock' \in BOOLEAN /\ op' \in Operator
    /\ op'.pc = "off" => op' = NoOperator
    /\ op'.pc # "off" => lock' /\ install.pc = "off"
    /\ install.pc # "off" => lock'
    /\ journal'.permitted => ~enabled /\ ~loaded /\ ~Live("agent")
    /\ op'.lease => op.lease \/ Free("source")
    /\ op'.target => op.target \/ Free("copy")
    /\ journal'.permitted \/ op'.pc \notin {"off", "begin"} => journal'.phase # "none"
    /\ op'.pc \in {"activate", "enable", "bootstrap", "ready", "final"} => ~journal'.permitted
    /\ served \/ journal'.phase = "admission_started" \/ CopyInUse
       => ~journal'.permitted /\ ~BeforeAdmission' /\ journal'.phase # "none"
    /\ CopyInUse => op'.pc # "activate"
    /\ op'.pc = "previous" => data["copy"] = journal'.snapshot
    /\ op'.pc \in {"admit", "activate"} /\ journal'.release = "previous"
       => data["copy"] = journal'.snapshot

LEMMA AdvanceKeeps ==
    ASSUME IInv, Advances
    PROVE  IInv'
<1>1. TypeOK /\ Leases
  BY DEF IInv
<1>2. UNCHANGED <<install, enabled, loaded, plist, proc, data, schema, served>>
  BY DEF Advances, Bot
<1>3. TypeOK'
  BY <1>1, <1>2 DEF Advances, TypeOK, Live
<1>4. Exclusive'
  BY <1>2 DEF Advances, Exclusive
<1>5. Down'
  BY <1>2 DEF Advances, Down, Live
<1>6. Leases'
  <2>1. \A p \in Proc : proc[p].lease =>
          /\ proc[p].db = "source" => ~op'.lease
          /\ proc[p].db = "copy" => ~op'.target
    BY <1>1 DEF Advances, Leases, Free
  <2> QED
    BY <1>1, <1>2, <2>1 DEF Leases, Live
<1>7. CopyInUse' <=> CopyInUse
  BY <1>2 DEF CopyInUse, Live
<1>8. Boundary'
  BY <1>2, <1>7 DEF Advances, Boundary
<1>9. Restored'
  BY <1>2 DEF Advances, Restored
<1> QED
  BY <1>3, <1>4, <1>5, <1>6, <1>8, <1>9 DEF IInv

\* The operator ends; what the journal says stays within the boundary.
LEMMA LeaveKeeps ==
    ASSUME IInv, op.pc # "off", Leave, UNCHANGED <<install, Bot>>,
           journal' = journal \/ \E phase \in Phase \ {"none", "admission_started"} : Save(phase)
    PROVE  IInv'
<1>1. TypeOK /\ Exclusive /\ Down /\ Boundary
  BY DEF IInv
<1>2. /\ journal' \in Journal /\ journal'.permitted = journal.permitted
      /\ journal'.phase = "none" => journal' = journal
      /\ journal'.phase = "admission_started" => journal.phase = "admission_started"
  <2>1. CASE journal' = journal
    BY <1>1, <2>1 DEF TypeOK
  <2>2. CASE journal' # journal
    <3>1. PICK phase \in Phase \ {"none", "admission_started"} : journal' = [journal EXCEPT !.phase = phase]
      BY <2>2 DEF Save
    <3> QED
      BY <1>1, <3>1 DEF TypeOK, Journal
  <2> QED
    BY <2>1, <2>2
<1>3. op' = NoOperator /\ lock' = FALSE /\ install.pc = "off"
  BY <1>1 DEF Leave, Exclusive
<1>4. ~BeforeAdmission'
  BY <1>3, Nothing DEF BeforeAdmission
<1>5. served \/ journal'.phase = "admission_started" \/ CopyInUse
       => ~journal'.permitted /\ journal'.phase # "none"
  BY <1>1, <1>2 DEF Boundary
<1>6. Advances
  BY <1>1, <1>2, <1>3, <1>4, <1>5, Nothing DEF Advances, Down, Boundary
<1> QED
  BY <1>6, AdvanceKeeps

\* A step of the operator that neither ends it nor touches the bot: pc and flags of op change.
LEMMA OperatorStep ==
    ASSUME TypeOK, NEW pc \in {"begin", "disable", "bootout", "absent", "snapshot", "verify", "migrate",
                               "validate", "guard", "restore", "previous", "admit", "activate",
                               "enable", "bootstrap", "ready", "final"}
    PROVE  /\ Goto(pc) => /\ op' \in Operator /\ op'.pc = pc /\ op'.err = op.err
                          /\ op'.lease = op.lease /\ op'.target = op.target
                          /\ op'.kind = op.kind /\ op'.back = op.back
           /\ \A phase \in Phase :
                 Save(phase) => /\ journal' \in Journal /\ journal'.phase = phase
                                /\ journal'.permitted = journal.permitted
                                /\ journal'.snapshot = journal.snapshot
                                /\ journal'.release = journal.release
BY DEF TypeOK, Goto, Operator, Save, Journal

LEMMA BeginKeeps ==
    ASSUME IInv, (\E kind \in {"deploy", "recover"} : Start(kind)) \/ Prepare \/ Reopen \/ Refuse
    PROVE  IInv'
<1>1. TypeOK /\ Exclusive /\ Down /\ Boundary /\ op \in Operator /\ journal \in Journal
  BY DEF IInv, TypeOK
<1>2. CASE \E kind \in {"deploy", "recover"} : Start(kind)
  <2>1. PICK kind \in {"deploy", "recover"} : Start(kind)
    BY <1>2
  <2>2. /\ op' \in Operator /\ op'.pc = "begin" /\ ~op'.err /\ ~op'.lease /\ ~op'.target
        /\ lock' = TRUE /\ UNCHANGED <<journal, install, Bot>>
    BY <2>1 DEF Start, NoOperator, Operator
  <2>3. install.pc = "off"
    BY <1>1, <2>1 DEF Start, TypeOK
  <2>4. Advances
    BY <1>1, <2>2, <2>3 DEF Advances, Down, Boundary, BeforeAdmission
  <2> QED
    BY <2>4, AdvanceKeeps
<1>3. CASE Prepare
  <2>1. /\ journal' \in Journal /\ journal'.phase = "freezing"
        /\ journal'.permitted = journal.permitted
    BY <1>1, <1>3 DEF Prepare, Journal, TypeOK, Phase
  <2>2. /\ op' \in Operator /\ op'.pc = "disable" /\ op'.lease = op.lease /\ op'.target = op.target
    BY <1>1, <1>3, OperatorStep DEF Prepare
  <2>3. ~served /\ ~CopyInUse /\ lock' /\ install.pc = "off" /\ UNCHANGED <<install, Bot>>
    BY <1>1, <1>3 DEF Prepare, Boundary, TypeOK, Exclusive
  <2>4. Advances
    BY <1>1, <2>1, <2>2, <2>3 DEF Advances, Down
  <2> QED
    BY <2>4, AdvanceKeeps
<1>4. CASE Reopen
  <2>1. /\ op' \in Operator /\ op'.pc = "disable" /\ op'.lease = op.lease /\ op'.target = op.target
    BY <1>1, <1>4, OperatorStep DEF Reopen
  <2>2. /\ ~served /\ ~CopyInUse /\ lock' /\ install.pc = "off"
        /\ journal.phase \notin {"none", "admission_started"} /\ UNCHANGED <<journal, install, Bot>>
    BY <1>1, <1>4 DEF Reopen, Boundary, TypeOK, Exclusive
  <2>3. Advances
    BY <1>1, <2>1, <2>2 DEF Advances, Down
  <2> QED
    BY <2>3, AdvanceKeeps
<1>5. CASE Refuse
  BY <1>5, LeaveKeeps DEF Refuse
<1> QED
  BY <1>1, <1>2, <1>3, <1>4, <1>5

\* Up to the boundary: nobody has seen the release, and the service is down.
LEMMA SnapshotKeeps ==
    ASSUME IInv, Freeze \/ TakeSnapshot \/ Verify \/ Validate \/ Guard \/ ValidatePrevious
    PROVE  IInv'
<1>1. TypeOK /\ Exclusive /\ Down /\ Boundary /\ Restored /\ op \in Operator /\ journal \in Journal
  BY DEF IInv, TypeOK
<1>2. /\ ~served /\ ~CopyInUse /\ journal.phase \notin {"none", "admission_started"}
      /\ lock /\ install.pc = "off"
  BY <1>1 DEF Boundary, BeforeAdmission, TypeOK, Exclusive, Freeze, TakeSnapshot, Verify, Validate,
              Guard, ValidatePrevious
<1>3. CASE Freeze
  <2>1. /\ op' \in Operator /\ op'.pc \in {"guard", "snapshot"} /\ Free("source")
        /\ op'.target = op.target
    BY <1>1, <1>3 DEF Freeze, Operator
  <2>2. /\ journal' \in Journal /\ journal'.phase \notin {"none", "admission_started"}
        /\ journal'.permitted = journal.permitted
    BY <1>1, <1>2, <1>3 DEF Freeze, Save, Journal, Phase
  <2>3. UNCHANGED <<lock, install, Bot>>
    BY <1>3 DEF Freeze
  <2>4. Advances
    BY <1>1, <1>2, <2>1, <2>2, <2>3 DEF Advances, Down
  <2> QED
    BY <2>4, AdvanceKeeps
<1>4. CASE TakeSnapshot
  <2>1. op' \in Operator /\ op'.pc = "verify" /\ op'.lease = op.lease /\ op'.target = op.target
    BY <1>1, <1>4, OperatorStep DEF TakeSnapshot
  <2>2. data["source"] \in 0..MaxWrites
    BY <1>1 DEF TypeOK, DB
  <2>3. /\ journal' \in Journal /\ journal'.phase = "snapshot_created"
        /\ journal'.permitted = journal.permitted
    BY <1>1, <1>4, <2>2 DEF TakeSnapshot, Journal, Phase
  <2>4. UNCHANGED <<lock, install, Bot>>
    BY <1>4 DEF TakeSnapshot
  <2>5. Advances
    BY <1>1, <1>2, <2>1, <2>3, <2>4 DEF Advances, Down
  <2> QED
    BY <2>5, AdvanceKeeps
<1>5. CASE Verify
  <2>1. op' \in Operator /\ op'.pc = "migrate" /\ op'.lease = op.lease /\ op'.target = op.target
    BY <1>1, <1>5, OperatorStep DEF Verify
  <2>2. journal' \in Journal /\ journal'.phase = "snapshot_verified"
    BY <1>1, <1>5 DEF Verify, Journal, Phase
  <2>3. ~enabled /\ ~loaded /\ ~Live("agent") /\ UNCHANGED <<lock, install, Bot>>
    BY <1>5 DEF Verify, Frozen
  <2>4. Advances
    BY <1>1, <1>2, <2>1, <2>2, <2>3 DEF Advances
  <2> QED
    BY <2>4, AdvanceKeeps
<1>6. CASE Validate
  <2>1. op' \in Operator /\ op'.pc = "admit" /\ op'.lease = op.lease /\ op'.target = op.target
    BY <1>1, <1>6, OperatorStep DEF Validate
  <2>2. /\ journal' \in Journal /\ journal'.phase = "validating_candidate"
        /\ journal'.permitted = journal.permitted /\ journal'.release = "candidate"
    BY <1>1, <1>6 DEF Validate, Journal, Phase, Release
  <2>3. UNCHANGED <<lock, install, Bot>>
    BY <1>6 DEF Validate
  <2>4. Advances
    BY <1>1, <1>2, <2>1, <2>2, <2>3 DEF Advances, Down
  <2> QED
    BY <2>4, AdvanceKeeps
<1>7. CASE Guard
  <2>1. op' \in Operator /\ op'.pc = "restore" /\ op'.lease = op.lease /\ op'.target = op.target
    BY <1>1, <1>7, OperatorStep DEF Guard
  <2>2. "restoring" \in Phase
    BY DEF Phase
  <2>3. /\ journal' \in Journal /\ journal'.phase = "restoring"
        /\ journal'.permitted = journal.permitted
    BY <1>1, <1>7, <2>2, OperatorStep DEF Guard
  <2>4. UNCHANGED <<lock, install, Bot>>
    BY <1>7 DEF Guard
  <2>5. Advances
    BY <1>1, <1>2, <2>1, <2>3, <2>4 DEF Advances, Down
  <2> QED
    BY <2>5, AdvanceKeeps
<1>8. CASE ValidatePrevious
  <2>1. /\ op' \in Operator /\ op'.pc = "admit" /\ op'.lease = op.lease /\ Free("copy")
    BY <1>1, <1>8 DEF ValidatePrevious, Operator
  <2>2. /\ journal' \in Journal /\ journal'.phase = journal.phase
        /\ journal'.permitted = journal.permitted /\ journal'.snapshot = journal.snapshot
    BY <1>1, <1>8 DEF ValidatePrevious, Journal, Release
  <2>3. data["copy"] = journal.snapshot /\ UNCHANGED <<lock, install, Bot>>
    BY <1>1, <1>8 DEF ValidatePrevious, Restored
  <2>4. Advances
    BY <1>1, <1>2, <2>1, <2>2, <2>3 DEF Advances, Down
  <2> QED
    BY <2>4, AdvanceKeeps
<1> QED
  BY <1>3, <1>4, <1>5, <1>6, <1>7, <1>8

\* The boundary is crossed, and the admitted release runs.
LEMMA AdmitKeeps ==
    ASSUME IInv, Admit \/ Ready \/ Finish
    PROVE  IInv'
<1>1. TypeOK /\ Exclusive /\ Down /\ Boundary /\ Restored /\ op \in Operator /\ journal \in Journal
  BY DEF IInv, TypeOK
<1>2. op.pc # "off" => lock /\ install.pc = "off"
  BY <1>1 DEF TypeOK, Exclusive
<1>3. CASE Admit
  <2>1. op' \in Operator /\ op'.pc = "activate" /\ op'.lease = op.lease /\ op'.target = op.target
    BY <1>1, <1>3, OperatorStep DEF Admit
  <2>2. /\ journal' \in Journal /\ journal'.phase = "admission_started" /\ ~journal'.permitted
        /\ journal'.snapshot = journal.snapshot /\ journal'.release = journal.release
    BY <1>1, <1>3 DEF Admit, Journal, Phase
  <2>3. ~CopyInUse /\ UNCHANGED <<lock, install, Bot>> /\ lock /\ install.pc = "off"
    BY <1>1, <1>2, <1>3 DEF Admit, Boundary, BeforeAdmission
  <2>4. journal'.release = "previous" => data["copy"] = journal'.snapshot
    BY <1>1, <1>3, <2>2 DEF Admit, Restored
  <2>5. ~BeforeAdmission'
    BY <2>1 DEF BeforeAdmission
  <2>6. Advances
    BY <1>1, <2>1, <2>2, <2>3, <2>4, <2>5 DEF Advances
  <2> QED
    BY <2>6, AdvanceKeeps
<1>4. CASE Ready
  <2>1. op' \in Operator /\ op'.pc = "final" /\ op'.lease = op.lease /\ op'.target = op.target
    BY <1>1, <1>4, OperatorStep DEF Ready
  <2>2. /\ ~journal.permitted /\ journal.phase # "none"
        /\ UNCHANGED <<journal, lock, install, Bot>> /\ lock /\ install.pc = "off"
    BY <1>1, <1>2, <1>4 DEF Ready, Boundary
  <2>3. ~BeforeAdmission'
    BY <2>1 DEF BeforeAdmission
  <2>4. Advances
    BY <1>1, <2>1, <2>2, <2>3 DEF Advances
  <2> QED
    BY <2>4, AdvanceKeeps
<1>5. CASE Finish
  <2>1. \E phase \in {"deployed", "restored_previous"} : Save(phase)
    BY <1>5 DEF Finish
  <2>2. \E phase \in Phase \ {"none", "admission_started"} : Save(phase)
    BY <2>1 DEF Phase
  <2> QED
    BY <1>5, <2>2, LeaveKeeps DEF Finish
<1> QED
  BY <1>3, <1>4, <1>5

\* Failures: the service is halted first, and only the journal permits the way back.
LEMMA FailureKeeps ==
    ASSUME IInv, Fail \/ Halted \/ HaltFails \/ Interrupt \/ LoseLease
    PROVE  IInv'
<1>1. TypeOK /\ Exclusive /\ Down /\ Boundary /\ Restored /\ op \in Operator /\ journal \in Journal
  BY DEF IInv, TypeOK
<1>2. op.pc # "off" => lock /\ install.pc = "off"
  BY <1>1 DEF TypeOK, Exclusive
<1>3. ASSUME op.pc \notin {"off", "begin"}, UNCHANGED <<journal, lock, install, Bot>>,
             op' \in Operator, op'.pc = "disable", op'.err,
             op'.lease = op.lease, op'.target = op.target
      PROVE  IInv'
  <2>1. ~BeforeAdmission' /\ journal.phase # "none"
    BY <1>1, <1>3 DEF BeforeAdmission, Boundary
  <2>2. Advances
    BY <1>1, <1>2, <1>3, <2>1 DEF Advances, Down, Boundary
  <2> QED
    BY <2>2, AdvanceKeeps
<1>4. CASE Fail
  <2>1. /\ op.pc \notin {"off", "begin"} /\ UNCHANGED <<journal, lock, install, Bot>>
        /\ op' \in Operator /\ op'.pc = "disable" /\ op'.err
        /\ op'.lease = op.lease /\ op'.target = op.target
    BY <1>1, <1>4 DEF Fail, Operator
  <2> QED
    BY <1>3, <2>1
<1>5. CASE Halted
  <2>1. CASE op.kind = "deploy" /\ journal.permitted /\ ~op.back
    <3>1. /\ op' \in Operator /\ op'.pc = "guard" /\ op'.lease = op.lease
          /\ op'.target = op.target /\ UNCHANGED <<journal, lock, install, Bot>>
      BY <1>1, <1>5, <2>1 DEF Halted, Operator
    <3>2. /\ ~served /\ ~CopyInUse /\ journal.phase \notin {"none", "admission_started"}
          /\ lock /\ install.pc = "off"
      BY <1>1, <1>2, <1>5, <2>1 DEF Halted, Boundary
    <3>3. Advances
      BY <1>1, <3>1, <3>2 DEF Advances, Down
    <3> QED
      BY <3>3, AdvanceKeeps
  <2>2. CASE ~(op.kind = "deploy" /\ journal.permitted /\ ~op.back)
    <3>1. "recovery_required" \in Phase \ {"none", "admission_started"}
      BY DEF Phase
    <3>2. Leave /\ UNCHANGED <<install, Bot>> /\ (journal' = journal \/ Save("recovery_required"))
      BY <1>5, <2>2 DEF Halted
    <3> QED
      BY <1>5, <3>1, <3>2, LeaveKeeps DEF Halted
  <2> QED
    BY <2>1, <2>2
<1>6. CASE HaltFails
  <2>1. op.pc # "off"
    BY <1>1, <1>6, Nothing DEF HaltFails, Exclusive
  <2> QED
    BY <1>6, <2>1, LeaveKeeps DEF HaltFails
<1>7. CASE Interrupt
  <2>1. CASE op.pc \in {"enable", "bootstrap", "ready"} /\ ~op.err
    <3>1. /\ op.pc \notin {"off", "begin"} /\ UNCHANGED <<journal, lock, install, Bot>>
          /\ op' \in Operator /\ op'.pc = "disable" /\ op'.err
          /\ op'.lease = op.lease /\ op'.target = op.target
      BY <1>1, <1>7, <2>1 DEF Interrupt, Operator
    <3> QED
      BY <1>3, <3>1
  <2>2. CASE ~(op.pc \in {"enable", "bootstrap", "ready"} /\ ~op.err)
    BY <1>7, <2>2, LeaveKeeps DEF Interrupt
  <2> QED
    BY <2>1, <2>2
<1>8. CASE LoseLease
  <2>1. /\ op' \in Operator /\ op'.pc = op.pc /\ op'.err = op.err /\ ~op'.lease
        /\ op'.target = op.target /\ UNCHANGED <<journal, lock, install, Bot>>
    BY <1>1, <1>8 DEF LoseLease, Operator
  <2>2. op.pc # "off"
    BY <1>1, <1>8, Nothing DEF LoseLease, Exclusive
  <2>3. BeforeAdmission' <=> BeforeAdmission
    BY <2>1 DEF BeforeAdmission
  <2>4. Advances
    BY <1>1, <1>2, <2>1, <2>2, <2>3 DEF Advances, Down, Boundary, Restored
  <2> QED
    BY <2>4, AdvanceKeeps
<1> QED
  BY <1>4, <1>5, <1>6, <1>7, <1>8

-----------------------------------------------------------------------------
(* The operator and launchd *)

\* The processes stay what they are, or are told to stop, and nobody takes a lease.
SameOwners ==
    /\ proc' \in [Proc -> Process]
    /\ \A p \in Proc : /\ Live(p)' <=> Live(p)
                       /\ proc'[p].db = proc[p].db /\ proc'[p].lease = proc[p].lease
                       /\ proc'[p].lost = proc[p].lost
    /\ \A p \in Proc : ~Live(p)' => proc'[p] = NoProcess

LEMMA OwnersKeep ==
    ASSUME TypeOK, Leases, SameOwners, op'.lease => op.lease, op'.target => op.target
    PROVE  Leases' /\ (CopyInUse' => plist'.db = "copy" \/ CopyInUse)
<1>1. Leases'
  BY DEF Leases, SameOwners
<1>2. CopyInUse' => plist'.db = "copy" \/ CopyInUse
  BY DEF CopyInUse, SameOwners
<1> QED
  BY <1>1, <1>2

LEMMA UnchangedOwners ==
    ASSUME TypeOK, UNCHANGED proc
    PROVE  SameOwners
BY DEF SameOwners, TypeOK, Live

\* The service is stopped for the maintenance, or because the maintenance failed.
LEMMA HaltKeeps ==
    ASSUME IInv, Disable \/ Bootout
    PROVE  IInv'
<1>1. TypeOK /\ Exclusive /\ Down /\ Leases /\ Boundary /\ op \in Operator
  BY DEF IInv, TypeOK
<1>2. /\ op' \in Operator /\ op'.err = op.err /\ op'.lease = op.lease /\ op'.target = op.target
      /\ op.pc \in {"disable", "bootout"} /\ op'.pc \in {"bootout", "absent"}
  BY <1>1, OperatorStep DEF Disable, Bootout
<1>3. /\ UNCHANGED <<journal, lock, install, plist, data, schema, served>>
      /\ enabled' \in BOOLEAN /\ loaded' \in BOOLEAN
      /\ (enabled' => enabled) /\ (loaded' => loaded)
  <2>1. enabled \in BOOLEAN /\ loaded \in BOOLEAN
    BY <1>1 DEF TypeOK
  <2>2. CASE Disable
    BY <2>1, <2>2 DEF Disable
  <2>3. CASE Bootout
    BY <2>1, <2>3 DEF Bootout, Unload
  <2> QED
    BY <2>2, <2>3
<1>4. SameOwners
  <2>1. CASE Disable
    BY <1>1, <2>1, UnchangedOwners DEF Disable
  <2>2. CASE Bootout
    BY <1>1, <2>2, UnloadProcess DEF Bootout, SameOwners
  <2> QED
    BY <2>1, <2>2
<1>5. Leases' /\ (CopyInUse' => CopyInUse)
  <2>1. plist'.db = "copy" => CopyInUse
    BY <1>3 DEF CopyInUse
  <2> QED
    BY <1>1, <1>2, <1>4, <2>1, OwnersKeep
<1>6. TypeOK'
  BY <1>1, <1>2, <1>3, <1>4 DEF TypeOK, SameOwners
<1>7. Exclusive'
  BY <1>1, <1>2, <1>3 DEF Exclusive
<1>8. Down'
  <2>1. Live("agent")' <=> Live("agent")
    BY <1>4 DEF SameOwners, Proc
  <2> QED
    BY <1>1, <1>3, <2>1 DEF Down
<1>9. BeforeAdmission' => BeforeAdmission
  BY <1>2 DEF BeforeAdmission
<1>10. Boundary' /\ Restored'
  BY <1>1, <1>2, <1>3, <1>5, <1>9 DEF Boundary, Restored
<1> QED
  BY <1>5, <1>6, <1>7, <1>8, <1>10 DEF IInv

\* The source is migrated, or the snapshot is restored: before anybody is admitted.
LEMMA DatabaseKeeps ==
    ASSUME IInv, Migrate \/ Restore
    PROVE  IInv'
<1>1. TypeOK /\ Exclusive /\ Down /\ Leases /\ Boundary /\ op \in Operator /\ journal \in Journal
  BY DEF IInv, TypeOK
<1>2. /\ op' \in Operator /\ op'.lease = op.lease /\ op'.target = op.target
      /\ op.pc \in {"migrate", "restore"} /\ op'.pc \in {"validate", "previous"}
  BY <1>1, OperatorStep DEF Migrate, Restore
<1>3. /\ UNCHANGED <<lock, install, enabled, loaded, plist, proc, served>>
      /\ schema' \in [DB -> {"none", "old", "new"}] /\ data' \in [DB -> 0..MaxWrites]
  BY <1>1 DEF Migrate, Restore, Launchd, TypeOK, Journal
<1>4. /\ journal' \in Journal /\ journal'.permitted = journal.permitted
      /\ journal'.phase \in {"migrating", "restored_database"}
      /\ journal'.snapshot = journal.snapshot /\ journal'.release = journal.release
  BY <1>1, OperatorStep DEF Migrate, Restore, Phase
<1>5. ~served /\ ~CopyInUse
  BY <1>1, <1>2 DEF Boundary, BeforeAdmission
<1>6. Leases' /\ ~CopyInUse'
  BY <1>1, <1>2, <1>3, <1>5 DEF Leases, CopyInUse, Live
<1>7. TypeOK'
  BY <1>1, <1>2, <1>3, <1>4 DEF TypeOK, Live
<1>8. Exclusive' /\ Down'
  BY <1>1, <1>2, <1>3, <1>4 DEF Exclusive, Down, Live
<1>9. Boundary'
  BY <1>2, <1>3, <1>4, <1>5, <1>6 DEF Boundary
<1>10. Restored'
  <2>1. op'.pc = "previous" => data'["copy"] = journal.snapshot
    BY <1>1, <1>2, OperatorStep DEF Migrate, Restore, TypeOK, DB
  <2> QED
    BY <1>2, <1>4, <2>1 DEF Restored
<1> QED
  BY <1>6, <1>7, <1>8, <1>9, <1>10 DEF IInv

\* The admitted release is installed, switched on and started.
LEMMA ActivateKeeps ==
    ASSUME IInv, Activate \/ Enable \/ Bootstrap
    PROVE  IInv'
<1>1. TypeOK /\ Exclusive /\ Down /\ Leases /\ Boundary /\ op \in Operator /\ journal \in Journal
  BY DEF IInv, TypeOK
<1>2. /\ op.pc \in {"activate", "enable", "bootstrap"} /\ op' \in Operator
      /\ op'.pc \in {"enable", "bootstrap", "ready"}
      /\ (op'.lease => op.lease) /\ (op'.target => op.target)
  <2>1. CASE Activate
    BY <1>1, <2>1 DEF Activate, Operator
  <2>2. CASE Enable \/ Bootstrap
    BY <1>1, <2>2, OperatorStep DEF Enable, Bootstrap
  <2> QED
    BY <2>1, <2>2
<1>3. /\ UNCHANGED <<journal, lock, install, proc, data, schema, served>>
      /\ enabled' \in BOOLEAN /\ loaded' \in BOOLEAN
  BY <1>1 DEF Activate, Enable, Bootstrap, TypeOK
<1>4. plist' \in Agent
  <2>1. CASE Activate
    BY <1>1, <2>1 DEF Activate, Journal, Agent, DB
  <2>2. CASE Enable \/ Bootstrap
    BY <1>1, <2>2 DEF Enable, Bootstrap, TypeOK
  <2> QED
    BY <2>1, <2>2
<1>5. ~journal.permitted /\ journal.phase # "none"
  BY <1>1, <1>2 DEF Boundary
<1>6. Leases'
  BY <1>1, <1>2, <1>3, UnchangedOwners, OwnersKeep
<1>7. TypeOK'
  BY <1>1, <1>2, <1>3, <1>4 DEF TypeOK, Live
<1>8. Exclusive' /\ Down'
  BY <1>1, <1>2, <1>3, <1>5 DEF Exclusive, Down
<1>9. Boundary' /\ Restored'
  <2>1. ~BeforeAdmission'
    BY <1>2 DEF BeforeAdmission
  <2> QED
    BY <1>2, <1>3, <1>5, <2>1 DEF Boundary, Restored
<1> QED
  BY <1>6, <1>7, <1>8, <1>9 DEF IInv

-----------------------------------------------------------------------------
(* The installer and the host *)

\* The installer's own progress, and the lock: nothing the invariant relates changes.
LEMMA LockKeeps ==
    ASSUME IInv, Install \/ Installed \/ InstallEnds \/ OperatorReview
    PROVE  IInv'
<1>1. TypeOK /\ Exclusive /\ Down /\ Leases /\ Boundary /\ Restored
  BY DEF IInv
<1>2. UNCHANGED <<journal, op, enabled, loaded, plist, proc, data, schema, served>> /\ op.pc = "off"
  BY <1>1 DEF Install, Installed, InstallEnds, OperatorReview, Bot, TypeOK, Exclusive
<1>3. /\ install' \in [pc: {"off", "switch", "load", "wait", "load_back", "end"}, release: Release]
      /\ lock' \in BOOLEAN /\ (install'.pc # "off" => lock')
  <2>1. CASE Install
    BY <1>1, <2>1 DEF Install, TypeOK, Agent
  <2>2. CASE Installed \/ InstallEnds
    BY <1>1, <2>2 DEF Installed, InstallEnds, TypeOK
  <2>3. CASE OperatorReview
    BY <1>1, <2>3 DEF OperatorReview, TypeOK
  <2> QED
    BY <2>1, <2>2, <2>3
<1>4. TypeOK'
  BY <1>1, <1>2, <1>3 DEF TypeOK, Live
<1>5. Exclusive' /\ Down' /\ Leases' /\ Restored'
  BY <1>1, <1>2 DEF Exclusive, Down, Leases, Restored, Live
<1>6. Boundary'
  BY <1>1, <1>2 DEF Boundary, CopyInUse, BeforeAdmission, Live
<1> QED
  BY <1>4, <1>5, <1>6 DEF IInv

\* The plist is exchanged, and the job loaded when launchd has not switched the service off.
LEMMA InstallerKeeps ==
    ASSUME IInv, (\E release \in Release : Switch(release)) \/ Load \/ RollBack
    PROVE  IInv'
<1>1. TypeOK /\ Exclusive /\ Down /\ Leases /\ Boundary /\ Restored
  BY DEF IInv
<1>2. /\ UNCHANGED <<journal, lock, op, enabled, data, schema, served>>
      /\ op = NoOperator /\ lock /\ install.pc # "off"
  BY <1>1 DEF Switch, Load, RollBack, TypeOK, Exclusive
<1>3. /\ install' \in [pc: {"off", "switch", "load", "wait", "load_back", "end"}, release: Release]
      /\ plist' \in Agent /\ (plist'.db = "copy" => plist.db = "copy")
  <2>1. ASSUME NEW release \in Release, Switch(release)
        PROVE  /\ plist' \in Agent /\ plist'.db = "source"
               /\ install' \in [pc: {"off", "switch", "load", "wait", "load_back", "end"}, release: Release]
    BY <1>1, <2>1 DEF Switch, TypeOK, Agent, DB
  <2>2. CASE Load
    BY <1>1, <2>2 DEF Load, TypeOK
  <2>3. CASE RollBack
    BY <1>1, <2>3 DEF RollBack, TypeOK, Agent, DB
  <2> QED
    BY <2>1, <2>2, <2>3
<1>4. SameOwners /\ loaded' \in BOOLEAN /\ (loaded' => enabled)
  <2>1. CASE (\E release \in Release : Switch(release)) \/ RollBack
    <3>1. Unload
      BY <2>1 DEF Switch, RollBack
    <3> QED
      BY <1>1, <3>1, UnloadProcess DEF SameOwners, Unload
  <2>2. CASE Load
    BY <1>1, <2>2, UnchangedOwners DEF Load, TypeOK
  <2> QED
    BY <2>1, <2>2
<1>5. Leases' /\ (CopyInUse' => CopyInUse)
  <2>1. plist'.db = "copy" => CopyInUse
    BY <1>3 DEF CopyInUse
  <2> QED
    BY <1>1, <1>2, <1>4, <2>1, OwnersKeep
<1>6. TypeOK'
  BY <1>1, <1>2, <1>3, <1>4, Nothing DEF TypeOK, SameOwners
<1>7. Exclusive' /\ Restored'
  BY <1>1, <1>2, Nothing DEF Exclusive, Restored
<1>8. Down'
  <2>1. Live("agent")' <=> Live("agent")
    BY <1>4 DEF SameOwners, Proc
  <2> QED
    BY <1>1, <1>2, <1>4, <2>1 DEF Down
<1>9. Boundary'
  BY <1>1, <1>2, <1>5 DEF Boundary, BeforeAdmission
<1> QED
  BY <1>5, <1>6, <1>7, <1>8, <1>9 DEF IInv

LEMMA RebootKeeps ==
    ASSUME IInv, Reboot
    PROVE  IInv'
<1>1. TypeOK /\ Down /\ Boundary
  BY DEF IInv
<1>2. /\ UNCHANGED <<journal, lock, enabled, plist, data, schema, served>>
      /\ op' = NoOperator /\ loaded' = enabled /\ proc' = [p \in Proc |-> NoProcess]
      /\ install' \in [pc: {"off", "switch", "load", "wait", "load_back", "end"}, release: Release]
      /\ install'.pc = "off"
  BY <1>1 DEF Reboot, TypeOK
<1>3. \A p \in Proc : proc'[p] = NoProcess /\ ~Live(p)'
  BY <1>2, Nothing DEF Live
<1>4. TypeOK'
  BY <1>1, <1>2, <1>3, Nothing DEF TypeOK
<1>5. Exclusive' /\ Restored'
  BY <1>2, Nothing DEF Exclusive, Restored
<1>6. Down' /\ Leases'
  BY <1>1, <1>2, <1>3, Nothing DEF Down, Leases, Proc
<1>7. Boundary'
  <2>1. CopyInUse' => CopyInUse
    BY <1>2, <1>3 DEF CopyInUse
  <2> QED
    BY <1>1, <1>2, <2>1, Nothing DEF Boundary, BeforeAdmission
<1> QED
  BY <1>4, <1>5, <1>6, <1>7 DEF IInv

-----------------------------------------------------------------------------
(* The invariant *)

LEMMA InitIInv == Init => IInv
<1> SUFFICES ASSUME Init PROVE IInv
  OBVIOUS
<1>1. \A p \in Proc : proc[p] = NoProcess /\ ~Live(p)
  BY Nothing DEF Init, Live
<1>2. plist \in Agent /\ plist.db = "source"
  BY DEF Init, Agent, Release, DB
<1>3. journal \in Journal /\ journal.phase = "none" /\ ~journal.permitted
  BY <1>2, DeployAssumption DEF Init, Journal, Phase, Release
<1>4. TypeOK
  <2>1. data \in [DB -> 0..MaxWrites] /\ schema \in [DB -> {"none", "old", "new"}]
    BY DeployAssumption DEF Init, DB
  <2>2. install.pc = "off" /\ install \in [pc: {"off", "switch", "load", "wait", "load_back", "end"},
                                           release: Release]
    BY DEF Init, Release
  <2>3. proc \in [Proc -> Process]
    BY Nothing DEF Init
  <2> QED
    BY <1>1, <1>2, <1>3, <2>1, <2>2, <2>3, Nothing DEF TypeOK, Init
<1>5. Exclusive /\ Restored /\ Down
  BY <1>3, Nothing DEF Init, Exclusive, Restored, Down
<1>6. Leases
  BY <1>1, Nothing DEF Leases
<1>7. Boundary
  BY <1>1, <1>2, <1>3, Nothing DEF Init, Boundary, CopyInUse, BeforeAdmission
<1> QED
  BY <1>4, <1>5, <1>6, <1>7 DEF IInv

LEMMA NextIInv == IInv /\ [Next]_vars => IInv'
<1> SUFFICES ASSUME IInv, [Next]_vars PROVE IInv'
  OBVIOUS
<1>1. CASE Runtime
  BY <1>1, RuntimeKeeps
<1>2. CASE Maintain
  BY <1>2, BeginKeeps, SnapshotKeeps, AdmitKeeps, FailureKeeps, HaltKeeps, DatabaseKeeps, ActivateKeeps
     DEF Maintain
<1>3. CASE Staged
  BY <1>3, LockKeeps, InstallerKeeps DEF Staged
<1>4. CASE Reboot \/ OperatorReview
  BY <1>4, RebootKeeps, LockKeeps
<1>5. CASE UNCHANGED vars
  BY <1>5 DEF vars, IInv, TypeOK, Exclusive, Down, Leases, Boundary, Restored, CopyInUse,
              BeforeAdmission, Live
<1> QED
  BY <1>1, <1>2, <1>3, <1>4, <1>5 DEF Next

\* Ownership, the launchd switch, the journal and the restored database agree in every
\* reachable state, whoever fails, loses its session or is killed, and whenever.
THEOREM Invariance == Spec => []IInv
<1> QED
  BY InitIInv, NextIInv, PTL DEF Spec

\* While the snapshot may still be restored launchd runs no bot: the downtime survives
\* reboots, interrupted operators and the installer.
THEOREM DowntimeKept == Spec => []DowntimeIsKept
<1>1. IInv => DowntimeIsKept
  BY DEF IInv, Down, DowntimeIsKept, DowntimeHolds
<1> QED
  BY <1>1, Invariance, PTL

\* Two processes that write to one database, or a process and the operator, overlap only
\* when a session has died under one of them.
THEOREM OneWriter == Spec => []TwoWritersOnlyByLoss
<1>1. IInv => TwoWritersOnlyByLoss
  BY DEF IInv, Leases, TwoWritersOnlyByLoss
<1> QED
  BY <1>1, Invariance, PTL

\* The bot moves to the restored database only while that holds every update the old
\* database has accepted.
THEOREM NothingLost == Spec => NothingAcceptedIsLost
<1>1. IInv /\ [Next]_vars => [plist'.db = "copy" /\ plist.db # "copy" => data["copy"] = data["source"]]_vars
  <2> SUFFICES ASSUME IInv, Next, plist'.db = "copy", plist.db # "copy"
               PROVE  data["copy"] = data["source"]
    BY DEF vars
  <2>1. Activate
    <3>1. CASE Runtime
      BY <3>1 DEF Runtime, Launch, StartByHand, Write, LoseSession, Watch, ShutDown, Exit, Killed, Rest
    <3>2. CASE Maintain
      BY <3>2 DEF Maintain, Start, Prepare, Reopen, Refuse, Disable, Bootout, Freeze, TakeSnapshot,
                  Verify, Migrate, Validate, Guard, Restore, ValidatePrevious, Admit, Enable,
                  Bootstrap, Ready, Finish, Fail, Halted, HaltFails, Interrupt, LoseLease, Bot, Launchd
    <3>3. CASE Staged
      BY <3>3 DEF Staged, Install, Switch, Load, Installed, RollBack, InstallEnds, Bot
    <3>4. CASE Reboot \/ OperatorReview
      BY <3>4 DEF Reboot, OperatorReview, Bot
    <3> QED
      BY <3>1, <3>2, <3>3, <3>4 DEF Next
  <2>2. journal.release = "previous" /\ op.pc = "activate" /\ data["source"] = journal.snapshot
    BY <2>1 DEF Activate, Unchanged
  <2> QED
    BY <2>2 DEF IInv, Restored
<1> QED
  BY <1>1, Invariance, PTL DEF Spec, NothingAcceptedIsLost

\* Once the admitted release may have run, no operation goes back to the snapshot.
THEOREM NoWayBack == Spec => NoWayBackAfterTraffic
<1>1. IInv /\ [Next]_vars => [journal'.phase = "restoring" /\ journal.phase # "restoring" => ~served]_vars
  <2> SUFFICES ASSUME IInv, Next, journal'.phase = "restoring", journal.phase # "restoring"
               PROVE  ~served
    BY DEF vars
  <2>1. Guard
    <3> TypeOK /\ journal \in Journal
      BY DEF IInv, TypeOK
    <3>1. CASE Runtime
      BY <3>1 DEF Runtime, Launch, StartByHand, Write, LoseSession, Watch, ShutDown, Exit, Killed, Rest
    <3>2. CASE Maintain
      <4>1. ASSUME NEW phase \in Phase, Save(phase) PROVE phase = "restoring"
        BY <4>1 DEF Save, Journal
      <4>2. CASE UNCHANGED journal
        BY <4>2
      <4>3. CASE Prepare \/ TakeSnapshot \/ Verify \/ Validate \/ ValidatePrevious \/ Admit
        BY <4>3 DEF Prepare, TakeSnapshot, Verify, Validate, ValidatePrevious, Admit, Journal
      <4>4. CASE Freeze \/ Migrate \/ Restore \/ Finish \/ Halted
        BY <4>1, <4>4 DEF Freeze, Migrate, Restore, Finish, Halted, Phase
      <4> QED
        BY <3>2, <4>2, <4>3, <4>4
        DEF Maintain, Start, Reopen, Refuse, Disable, Bootout, Activate, Enable, Bootstrap, Ready,
            Fail, HaltFails, Interrupt, LoseLease
    <3>3. CASE Staged
      BY <3>3 DEF Staged, Install, Switch, Load, Installed, RollBack, InstallEnds
    <3>4. CASE Reboot \/ OperatorReview
      BY <3>4 DEF Reboot, OperatorReview
    <3> QED
      BY <3>1, <3>2, <3>3, <3>4 DEF Next
  <2>2. journal.permitted
    BY <2>1 DEF Guard
  <2> QED
    BY <2>2 DEF IInv, Boundary
<1> QED
  BY <1>1, Invariance, PTL DEF Spec, NoWayBackAfterTraffic
===============================================================================
