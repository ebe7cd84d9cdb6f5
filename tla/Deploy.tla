--------------------------------- MODULE Deploy ---------------------------------
(***************************************************************************)
(* A maintenance deployment around the running bot: operations/*, the      *)
(* ordinary installer it shares deploy.lock with (install.sh), launchd,    *)
(* and the processes of the bot, which own a database by an advisory lock  *)
(* (runtime/singleton.py, main.py).                                        *)
(*                                                                         *)
(* The deployment stops the bot, takes and verifies a snapshot, migrates,  *)
(* and only then admits traffic; until that boundary it may go back to a   *)
(* database restored from the snapshot, after it never.  Every step may    *)
(* fail before or after its effect, be interrupted, or die with the host.  *)
(***************************************************************************)
EXTENDS Naturals

CONSTANTS MaxWrites     \* bound: updates of users a database accepts

ASSUME DeployAssumption == MaxWrites \in Nat

VARIABLES
    journal,    \* maintenance.json on disk
    lock,       \* the directory deploy.lock exists
    op,         \* the process of the maintenance operator
    install,    \* the process of install.sh
    enabled,    \* launchd: the persistent switch of the service
    loaded,     \* launchd: the job is loaded, and kept alive
    plist,      \* the installed LaunchAgent
    proc,       \* processes of the bot
    data,       \* how many updates a database has accepted
    schema,     \* its migrations
    served      \* history: the admitted release has run

vars == <<journal, lock, op, install, enabled, loaded, plist, proc, data, schema, served>>

DB == {"source", "copy"}            \* copy: the one restored from the snapshot
Release == {"previous", "candidate"}
Proc == {"agent", "stray"}          \* started by launchd; started by hand with the shared .env

\* direct: the embedded bootstrap starts bot.main; otherwise run.sh, which runs preflight first.
Agent == [release: Release, db: DB, direct: BOOLEAN]

Phase == {"none", "prepared", "freezing", "frozen", "snapshot_created", "snapshot_verified",
          "migrating", "validating_candidate", "restoring", "restored_database",
          "admission_started", "deployed", "restored_previous", "recovery_required"}

\* rollback_permitted and snapshot_verified are granted together; plist stands for the
\* identity that validate compares.
Journal == [phase: Phase, permitted: BOOLEAN, snapshot: 0..MaxWrites, release: Release, plist: Agent]

\* back: the snapshot is being restored.  err: an exception is being handled.
Operator == [kind: {"none", "deploy", "recover", "stopped"},
             pc: {"off", "begin", "disable", "bootout", "absent", "snapshot", "verify", "migrate",
                  "validate", "guard", "restore", "previous", "admit", "activate", "enable",
                  "bootstrap", "ready", "final"},
             lease: BOOLEAN, target: BOOLEAN, back: BOOLEAN, err: BOOLEAN]
NoOperator == [kind |-> "none", pc |-> "off", lease |-> FALSE, target |-> FALSE,
               back |-> FALSE, err |-> FALSE]

\* lease: the session that holds the advisory lock lives.  seen: the database lists a
\* connection of the process.  lost: history, its lock session died under it.
Process == [pc: {"off", "polling", "draining"}, lease: BOOLEAN, seen: BOOLEAN, lost: BOOLEAN,
            release: Release, db: DB]
NoProcess == [pc |-> "off", lease |-> FALSE, seen |-> FALSE, lost |-> FALSE,
              release |-> "previous", db |-> "source"]

Init ==
    /\ plist = [release |-> "previous", db |-> "source", direct |-> FALSE]
    /\ journal = [phase |-> "none", permitted |-> FALSE, snapshot |-> 0, release |-> "previous",
                  plist |-> plist]
    /\ lock = FALSE /\ op = NoOperator /\ install = [pc |-> "off", release |-> "previous"]
    /\ enabled = TRUE /\ loaded = TRUE /\ proc = [p \in Proc |-> NoProcess]
    /\ data = [d \in DB |-> 0] /\ schema = [source |-> "old", copy |-> "none"]
    /\ served = FALSE

-----------------------------------------------------------------------------
(* Ownership of a database *)

Live(p) == proc[p].pc # "off"
Free(d) == /\ \A p \in Proc : ~(proc[p].lease /\ proc[p].db = d)
           /\ ~(IF d = "source" THEN op.lease ELSE op.target)

NoClients(d) == \A p \in Proc : proc[p].db = d => ~proc[p].seen
Fits(release, d) == schema[d] = IF release = "previous" THEN "old" ELSE "new"

\* assert_frozen: persistently disabled, job and process gone, live lease, no other client.
Frozen == /\ ~enabled /\ ~loaded /\ ~Live("agent")
          /\ op.lease /\ NoClients("source")
          /\ op.target => NoClients("copy")

\* Mutant: the guard compares with nothing.
UnchangedAnyway == data["source"] >= journal.snapshot

\* assert_unchanged: the data guard of the snapshot, on the live database.
Unchanged == data["source"] = journal.snapshot

-----------------------------------------------------------------------------
(* The bot: main.py, runtime/* *)

Rest == <<journal, lock, op, install, enabled, plist>>

\* main takes the lease of its database or gives up before it polls.
Run(p, agent) ==
    /\ ~Live(p) /\ Free(agent.db)
    /\ agent.direct \/ Fits(agent.release, agent.db)
    /\ proc' = [proc EXCEPT ![p] = [NoProcess EXCEPT !.pc = "polling", !.lease = TRUE, !.seen = TRUE,
                                                     !.release = agent.release, !.db = agent.db]]

Launch == /\ loaded /\ Run("agent", plist)
          /\ served' = (served \/ journal.phase = "admission_started")
          /\ UNCHANGED <<Rest, loaded, data, schema>>

\* python -m bot.main, without run.sh and its preflight.
StartByHand ==
    /\ Run("stray", [release |-> "previous", db |-> "source", direct |-> TRUE])
    /\ UNCHANGED <<Rest, loaded, data, schema, served>>

\* An update or a background job writes; its connection stays in the pool.
Write(p) == /\ Live(p) /\ data[proc[p].db] < MaxWrites
            /\ data' = [data EXCEPT ![proc[p].db] = @ + 1]
            /\ proc' = [proc EXCEPT ![p].seen = TRUE]
            /\ UNCHANGED <<Rest, loaded, schema, served>>

\* The server drops the sessions of a process; the process goes on for now.
LoseSession(p) == /\ proc[p].lease
                  /\ proc' = [proc EXCEPT ![p].lease = FALSE, ![p].seen = FALSE, ![p].lost = TRUE]
                  /\ UNCHANGED <<Rest, loaded, data, schema, served>>

\* Mutant: the watcher trusts the flag of the process.
WatchFlag(p) == /\ proc[p].pc = "polling" /\ ~proc[p].lease /\ ~proc[p].lost
                /\ proc' = [proc EXCEPT ![p].pc = "draining"]
                /\ UNCHANGED <<Rest, loaded, data, schema, served>>

\* watch asks the server every few seconds whether the session still holds the lock.
Watch(p) == /\ proc[p].pc = "polling" /\ ~proc[p].lease
            /\ proc' = [proc EXCEPT ![p].pc = "draining"]
            /\ UNCHANGED <<Rest, loaded, data, schema, served>>

\* Mutant: the lease is released before polling and the jobs have stopped.
ShutDownEarly(p) == /\ proc[p].pc = "polling"
                    /\ proc' = [proc EXCEPT ![p].pc = "draining", ![p].lease = FALSE]
                    /\ UNCHANGED <<Rest, loaded, data, schema, served>>

\* A signal, or a lease that could not be confirmed in time.
ShutDown(p) == /\ proc[p].pc = "polling"
               /\ proc' = [proc EXCEPT ![p].pc = "draining"]
               /\ UNCHANGED <<Rest, loaded, data, schema, served>>

\* Polling and jobs are joined, then the resources are released, the lease among the last.
Exit(p) == /\ proc[p].pc = "draining"
           /\ proc' = [proc EXCEPT ![p] = NoProcess]
           /\ UNCHANGED <<Rest, loaded, data, schema, served>>

Killed(p) == /\ Live(p)
             /\ proc' = [proc EXCEPT ![p] = NoProcess]
             /\ UNCHANGED <<Rest, loaded, data, schema, served>>

\* The end of the process the job had; launchctl waits for it apart (_absent).
Unload == /\ loaded' = FALSE
          /\ proc' = [proc EXCEPT !["agent"].pc = IF @ = "polling" THEN "draining" ELSE @]

-----------------------------------------------------------------------------
(* The operator: maintenance.py with its port, maintenance_deploy.py *)

Save(phase) == journal' = [journal EXCEPT !.phase = phase]
Goto(pc) == op' = [op EXCEPT !.pc = pc]
Launchd == <<enabled, loaded, plist, proc>>
Bot == <<enabled, loaded, plist, proc, data, schema, served>>
Leave == op' = NoOperator /\ lock' = FALSE

Start(kind) ==
    /\ op.pc = "off" /\ ~lock
    /\ lock' = TRUE
    /\ op' = [NoOperator EXCEPT !.kind = kind, !.pc = "begin", !.back = kind = "recover"]
    /\ UNCHANGED <<journal, install, Bot>>

\* _deploy: never over an existing journal; the installed release is the previous one.
\* "prepared" is saved, and at once "freezing".
Prepare ==
    /\ op.pc = "begin" /\ op.kind = "deploy"
    /\ journal.phase = "none" /\ plist.release = "previous" /\ plist.db = "source"
    /\ journal' = [journal EXCEPT !.phase = "freezing", !.plist = plist]
    /\ Goto("disable") /\ UNCHANGED <<lock, install, Bot>>

\* _recover: while the snapshot may still be used, and nothing was exchanged since.
Reopen ==
    /\ op.pc = "begin" /\ op.kind = "recover"
    /\ journal.permitted /\ plist = journal.plist
    /\ Goto("disable") /\ UNCHANGED <<journal, lock, install, Bot>>

Refuse == op.pc = "begin" /\ Leave /\ UNCHANGED <<journal, install, Bot>>

\* halt: the persistent switch, the job, and proof that it is gone.
Disable == /\ op.pc = "disable"
           /\ enabled' = FALSE /\ Goto("bootout")
           /\ UNCHANGED <<journal, lock, install, loaded, plist, proc, data, schema, served>>

Bootout == /\ op.pc = "bootout"
           /\ Unload /\ Goto("absent")
           /\ UNCHANGED <<journal, lock, install, enabled, plist, data, schema, served>>

\* freeze: the lease of the source is waited for, then the first assert_frozen.
Freeze ==
    /\ op.pc = "absent" /\ ~op.err
    /\ ~enabled /\ ~loaded /\ ~Live("agent") /\ Free("source") /\ NoClients("source")
    /\ op' = [op EXCEPT !.lease = TRUE, !.pc = IF op.back THEN "guard" ELSE "snapshot"]
    /\ IF op.back THEN UNCHANGED journal ELSE Save("frozen")
    /\ UNCHANGED <<lock, install, Bot>>

TakeSnapshot ==
    /\ op.pc = "snapshot" /\ Frozen
    /\ journal' = [journal EXCEPT !.phase = "snapshot_created", !.snapshot = data["source"]]
    /\ Goto("verify") /\ UNCHANGED <<lock, install, Bot>>

\* verify_restore on a database of its own.
Verify ==
    /\ op.pc = "verify" /\ Frozen
    /\ journal' = [journal EXCEPT !.phase = "snapshot_verified", !.permitted = TRUE]
    /\ Goto("migrate") /\ UNCHANGED <<lock, install, Bot>>

Migrate ==
    /\ op.pc = "migrate" /\ Frozen
    /\ Save("migrating") /\ schema' = [schema EXCEPT !["source"] = "new"]
    /\ Goto("validate")
    /\ UNCHANGED <<lock, install, enabled, loaded, plist, proc, data, served>>

Validate ==
    /\ op.pc = "validate" /\ Fits("candidate", "source") /\ Frozen /\ Unchanged
    /\ journal' = [journal EXCEPT !.phase = "validating_candidate", !.release = "candidate"]
    /\ Goto("admit") /\ UNCHANGED <<lock, install, Bot>>

\* _restore
Guard ==
    /\ op.pc = "guard" /\ journal.permitted /\ Frozen /\ Unchanged
    /\ Save("restoring") /\ Goto("restore") /\ UNCHANGED <<lock, install, Bot>>

Restore ==
    /\ op.pc = "restore"
    /\ data' = [data EXCEPT !["copy"] = journal.snapshot]
    /\ schema' = [schema EXCEPT !["copy"] = "old"]
    /\ Save("restored_database") /\ Goto("previous")
    /\ UNCHANGED <<lock, install, Launchd, served>>

\* validate_previous takes the lease of the copy and keeps it.
ValidatePrevious ==
    /\ op.pc = "previous" /\ Free("copy") /\ Frozen
    /\ journal' = [journal EXCEPT !.release = "previous"]
    /\ op' = [op EXCEPT !.target = TRUE, !.pc = "admit"]
    /\ UNCHANGED <<lock, install, Bot>>

\* Mutant: the permission is only taken back when the release is known to run.
AdmitLate ==
    /\ op.pc = "admit"
    /\ journal' = [journal EXCEPT !.phase = "admission_started"]
    /\ Goto("activate") /\ UNCHANGED <<lock, install, Bot>>

\* _activate: durable before the service can start.
Admit ==
    /\ op.pc = "admit"
    /\ journal' = [journal EXCEPT !.phase = "admission_started", !.permitted = FALSE]
    /\ Goto("activate") /\ UNCHANGED <<lock, install, Bot>>

\* Everything is asserted once more; then the leases are released and the plist is replaced.
\* One step: between the two a process started by hand finds what it finds before "enable".
Activate ==
    /\ op.pc = "activate" /\ Frozen /\ Unchanged
    /\ plist' = [release |-> journal.release, direct |-> TRUE,
                 db |-> IF journal.release = "previous" THEN "copy" ELSE "source"]
    /\ op' = [op EXCEPT !.pc = "enable", !.lease = FALSE, !.target = FALSE]
    /\ UNCHANGED <<journal, lock, install, enabled, loaded, proc, data, schema, served>>

Enable == /\ op.pc = "enable"
          /\ enabled' = TRUE /\ Goto("bootstrap")
          /\ UNCHANGED <<journal, lock, install, loaded, plist, proc, data, schema, served>>

Bootstrap == /\ op.pc = "bootstrap"
             /\ loaded' = TRUE /\ Goto("ready")
             /\ UNCHANGED <<journal, lock, install, enabled, plist, proc, data, schema, served>>

\* _wait_ready: a heartbeat in this attempt's own file, from the exact release.
Ready == /\ op.pc = "ready" /\ proc["agent"].pc = "polling"
         /\ Goto("final") /\ UNCHANGED <<journal, lock, install, Bot>>

Finish == /\ op.pc = "final"
          /\ Save(IF journal.release = "candidate" THEN "deployed" ELSE "restored_previous")
          /\ Leave /\ UNCHANGED <<install, Bot>>

\* An exception before or after the effect of a step: halt first.
Fail == /\ op.pc \notin {"off", "begin", "final"} /\ ~op.err
        /\ op' = [op EXCEPT !.pc = "disable", !.err = TRUE]
        /\ UNCHANGED <<journal, lock, install, Bot>>

\* Mutant: a failed deployment switches the service on again.
HaltedAndEnabled ==
    /\ op.pc = "absent" /\ op.err /\ ~enabled /\ ~loaded /\ ~Live("agent")
    /\ Save("recovery_required") /\ Leave /\ enabled' = TRUE
    /\ UNCHANGED <<install, loaded, plist, proc, data, schema, served>>

\* The journal is read again: only it can permit the way back, and only once.
Halted ==
    /\ op.pc = "absent" /\ op.err /\ ~enabled /\ ~loaded /\ ~Live("agent")
    /\ IF op.kind = "deploy" /\ journal.permitted /\ ~op.back
       THEN /\ op' = [op EXCEPT !.pc = "guard", !.err = FALSE, !.back = TRUE]
            /\ UNCHANGED <<journal, lock>>
       ELSE /\ IF op.kind = "stopped" THEN UNCHANGED journal ELSE Save("recovery_required")
            /\ Leave
    /\ UNCHANGED <<install, Bot>>

\* halt itself fails: the operator ends, whatever the service is doing.
HaltFails == op.err /\ Leave /\ UNCHANGED <<journal, install, Bot>>

\* A cancellation is no Exception: only an activation under way is halted.
Interrupt ==
    /\ op.pc # "off"
    /\ IF op.pc \in {"enable", "bootstrap", "ready"} /\ ~op.err
       THEN op' = [op EXCEPT !.kind = "stopped", !.pc = "disable", !.err = TRUE] /\ UNCHANGED lock
       ELSE Leave
    /\ UNCHANGED <<journal, install, Bot>>

\* The session of the lease dies; the next assertion finds out.
LoseLease == /\ op.lease /\ op' = [op EXCEPT !.lease = FALSE]
             /\ UNCHANGED <<journal, lock, install, Bot>>

-----------------------------------------------------------------------------
(* The installer *)

Install == /\ install.pc = "off" /\ ~lock
           /\ install' = [pc |-> "switch", release |-> plist.release]
           /\ lock' = TRUE /\ UNCHANGED <<journal, op, Bot>>

\* The candidate passed preflight on the database of .env; a migration that is not
\* declared compatible has been refused.  The installer's own `alembic upgrade` and the head a
\* rolled back release may find are left out: what is compatible changes nothing here.
Switch(release) ==
    /\ install.pc = "switch" /\ Fits(release, "source")
    /\ Unload /\ plist' = [release |-> release, db |-> "source", direct |-> FALSE]
    /\ install' = [install EXCEPT !.pc = "load"]
    /\ UNCHANGED <<journal, lock, op, enabled, data, schema, served>>

\* launchctl load starts no disabled service.
Load == /\ install.pc \in {"load", "load_back"} /\ loaded' = enabled
        /\ install' = [install EXCEPT !.pc = IF @ = "load" THEN "wait" ELSE "end"]
        /\ UNCHANGED <<journal, lock, op, enabled, plist, proc, data, schema, served>>

Installed == /\ install.pc = "wait" /\ proc["agent"].pc = "polling"
             /\ install' = [install EXCEPT !.pc = "end"]
             /\ UNCHANGED <<journal, lock, op, Bot>>

RollBack == /\ install.pc = "wait"
            /\ Unload /\ plist' = [release |-> install.release, db |-> "source", direct |-> FALSE]
            /\ install' = [install EXCEPT !.pc = "load_back"]
            /\ UNCHANGED <<journal, lock, op, enabled, data, schema, served>>

\* The trap removes the lock, also after a failure before the switch.
InstallEnds == /\ install.pc \in {"switch", "end"}
               /\ install' = [install EXCEPT !.pc = "off"]
               /\ lock' = FALSE /\ UNCHANGED <<journal, op, Bot>>

-----------------------------------------------------------------------------
(* The host *)

\* Processes and sessions end, files and the persistent switch stay.
Reboot == /\ op' = NoOperator /\ install' = [install EXCEPT !.pc = "off"]
          /\ proc' = [p \in Proc |-> NoProcess] /\ loaded' = enabled
          /\ UNCHANGED <<journal, lock, enabled, plist, data, schema, served>>

\* A lock that was left behind is removed by a person only.
OperatorReview == /\ lock /\ op.pc = "off" /\ install.pc = "off"
                  /\ lock' = FALSE /\ UNCHANGED <<journal, op, install, Bot>>

Runtime == \/ Launch \/ StartByHand
           \/ \E p \in Proc : \/ Write(p) \/ LoseSession(p) \/ Watch(p)
                              \/ ShutDown(p) \/ Exit(p) \/ Killed(p)

Maintain == \/ \E kind \in {"deploy", "recover"} : Start(kind)
            \/ Prepare \/ Reopen \/ Refuse \/ Disable \/ Bootout \/ Freeze
            \/ TakeSnapshot \/ Verify \/ Migrate \/ Validate
            \/ Guard \/ Restore \/ ValidatePrevious
            \/ Admit \/ Activate \/ Enable \/ Bootstrap \/ Ready \/ Finish
            \/ Fail \/ Halted \/ HaltFails \/ Interrupt \/ LoseLease

Staged == \/ Install \/ \E r \in Release : Switch(r)
          \/ Load \/ Installed \/ RollBack \/ InstallEnds

Next == Runtime \/ Maintain \/ Staged \/ Reboot \/ OperatorReview

\* The watcher runs on a timer, and a shutdown is joined.
Fairness == \A p \in Proc : WF_vars(Watch(p)) /\ WF_vars(Exit(p))

Spec == Init /\ [][Next]_vars /\ Fairness

-----------------------------------------------------------------------------
(* Properties *)

TypeOK ==
    /\ journal \in Journal /\ lock \in BOOLEAN /\ op \in Operator
    /\ install \in [pc: {"off", "switch", "load", "wait", "load_back", "end"}, release: Release]
    /\ enabled \in BOOLEAN /\ loaded \in BOOLEAN /\ plist \in Agent
    /\ proc \in [Proc -> Process] /\ data \in [DB -> 0..MaxWrites]
    /\ schema \in [DB -> {"none", "old", "new"}] /\ served \in BOOLEAN
    /\ op.pc # "off" \/ install.pc # "off" => lock
    /\ \A p \in Proc : ~Live(p) => proc[p] = NoProcess

\* While the snapshot may still be restored, launchd runs no bot: neither a reboot,
\* nor an interrupted operator, nor the installer starts it (maintenance_launchd.py:131-141).
DowntimeHolds == journal.permitted => ~Live("agent")

\* The journal, the launchd switch and the processes agree on whether the bot may run.
DowntimeIsKept == TypeOK /\ DowntimeHolds

\* The bot moves to the restored database only when that has every update the old
\* one accepted, also updates taken by a process nobody expected (maintenance.py:113-116).
NothingAcceptedIsLost ==
    [][plist'.db = "copy" /\ plist.db # "copy" => data["copy"] = data["source"]]_vars

\* Once the admitted release may have run, no deployment and no later recovery goes
\* back to the snapshot (maintenance.py:100-104).
NoWayBackAfterTraffic ==
    [][journal'.phase = "restoring" /\ journal.phase # "restoring" => ~served]_vars

\* Two writers of one database, bot or operator, overlap only when a session died
\* under one of them: a shutdown keeps the lease until nothing writes (main.py:281-287).
TwoWritersOnlyByLoss ==
    \A p \in Proc : Live(p) /\ ~proc[p].lost =>
        /\ \A q \in Proc \ {p} : Live(q) /\ proc[q].db = proc[p].db => proc[q].lost
        /\ proc[p].db = "source" => ~op.lease
        /\ proc[p].db = "copy" => ~op.target

\* A process that lost its lease does not go on: the watcher stops it (singleton.py:71-77).
LostLeaseStops ==
    \A p \in Proc : Live(p) /\ ~proc[p].lease ~> ~Live(p)

===============================================================================
