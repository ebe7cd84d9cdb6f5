--------------------------------- MODULE MCHost ---------------------------------
(***************************************************************************)
(* The deployment, the backup and the indexer share no variable: one run   *)
(* explores each of them in full while the two others rest.                *)
(***************************************************************************)
EXTENDS Deploy, Backup, Indexer

VARIABLE part   \* the module that moves

hostVars == <<part, vars, backupVars, indexVars>>

\* The backup rests after the first one succeeded: before it, one is due.
BackupRests ==
    /\ day = 0 /\ archive = [f \in File |-> IF f = 1 THEN [state |-> "whole", day |-> 0]
                                            ELSE NoArchive]
    /\ marker = [file |-> 1, day |-> 0]
    /\ backup = NoBackup /\ succeeded = TRUE /\ torn = FALSE /\ faults = 0
    /\ alarm = FALSE /\ alerted = FALSE /\ busy = {}

\* The record rests with one text instead of any.
HostInit ==
    /\ part \in {"deploy", "backup", "indexer"} /\ Init /\ IndexInit
    /\ part # "indexer" => record.text = CHOOSE t \in Text : TRUE
    /\ IF part = "backup" THEN BackupInit ELSE BackupRests

HostNext ==
    /\ UNCHANGED part
    /\ \/ part = "deploy" /\ Next /\ UNCHANGED <<backupVars, indexVars>>
       \/ part = "backup" /\ BackupNext /\ UNCHANGED <<vars, indexVars>>
       \/ part = "indexer" /\ IndexNext /\ UNCHANGED <<vars, backupVars>>

\* Where a module rests, none of its fair actions is enabled.
HostSpec == HostInit /\ [][HostNext]_hostVars /\ Fairness /\ BackupFairness
================================================================================
