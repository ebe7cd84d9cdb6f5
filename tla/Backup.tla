--------------------------------- MODULE Backup ---------------------------------
(***************************************************************************)
(* The daily backup, the alarm about its age and its files, and the jobs   *)
(* beside them, indexing and retention, which may take for ever: a pass    *)
(* over hundreds of records with half a minute for each outlasts a day.    *)
(*                                                                         *)
(* Each job is a task of its own (runtime/background.py), so their awaits  *)
(* interleave.  The process may stop cleanly, which cancels the jobs and   *)
(* runs their cleanup, or be killed, which runs nothing and leaves on disk *)
(* what was there.  The backup of a day is several steps: the archive, its *)
(* checksum, the marker in the database and the rotation of old archives,  *)
(* which goes from file to file and may fail or be killed half way.        *)
(***************************************************************************)
EXTENDS Integers, FiniteSetsExt

CONSTANTS
    MaxDay,         \* bound: backup slots, one a day
    Retention,      \* days an archive is kept beside a newer one
    MaxFaults       \* bound: failures, stops and kills

ASSUME BackupAssumption == {MaxDay, Retention, MaxFaults} \subseteq Nat

VARIABLES
    day,        \* the last backup slot that has come
    archive,    \* by number, oldest first: the state on disk and the day it was written
    marker,     \* operational_state backup.last_success: archive and day, or file 0
    backup,     \* the running backup: its step, its archive and the day it began
    succeeded,  \* history: a backup has returned its archive
    torn,       \* history: since the last one that did, a rotation failed after it had begun
    alarm,      \* the admins were told of the loss that lasts now
    alerted,    \* operational_state slo.alert.backup is less than an hour old
    busy,       \* the other maintenance jobs at work
    faults      \* failures so far

diskVars == <<day, archive, marker, backup, succeeded, torn>>
backupVars == <<diskVars, alarm, alerted, busy, faults>>

\* Every published archive either moves the marker to its day or meets a fault.
File == 1..(MaxDay + 1 + MaxFaults)

\* gone: never published, or deleted; bare: without its checksum; whole: with it.
Archive == [state : {"gone", "bare", "whole"}, day : 0..MaxDay]

NoArchive == [state |-> "gone", day |-> 0]

NoBackup == [pc |-> "idle", file |-> 0, since |-> 0]

Neighbour == {"reindex", "retention"}

Present == {f \in File : archive[f].state # "gone"}

\* What a restore drill accepts: an archive without a checksum is skipped.
Verified == {f \in File : archive[f].state = "whole"}

Fault == faults < MaxFaults /\ faults' = faults + 1

----------------------------------------------------------------------------
(* The backup                                                              *)

\* The marker is older than the last slot.
Due == marker.file = 0 \/ marker.day < day

\* The marker is not older than a slot and the next, and names an archive that is whole.
Covered == /\ marker.file # 0 /\ marker.day + 1 >= day
           /\ archive[marker.file].state = "whole"

Lost == ~Covered

\* The alarm is about the loss that lasts, and is over when that is.
BackupStep == alarm' = (alarm /\ Lost') /\ UNCHANGED <<alerted, busy>>

\* A backup takes minutes, so at most one slot comes while it runs.
SlotComes ==
    /\ day < MaxDay /\ day' = day + 1
    /\ backup = NoBackup \/ backup.since = day
    /\ UNCHANGED <<archive, marker, backup, succeeded, torn, faults>> /\ BackupStep

\* Mutant: one maintenance job does all, and the backup waits for its turn.
StartBackupInTurn ==
    /\ Due /\ backup = NoBackup /\ busy = {}
    /\ backup' = [pc |-> "dump", file |-> 0, since |-> day]
    /\ UNCHANGED <<day, archive, marker, succeeded, torn, faults>> /\ BackupStep

StartBackup ==
    /\ Due /\ backup = NoBackup
    /\ backup' = [pc |-> "dump", file |-> 0, since |-> day]
    /\ UNCHANGED <<day, archive, marker, succeeded, torn, faults>> /\ BackupStep

\* The finished dump gets its name; until then nothing of it counts as an archive.
Publish ==
    /\ backup.pc = "dump"
    /\ LET f == 1 + Max(Present \cup {marker.file})
       IN /\ backup' = [backup EXCEPT !.pc = "published", !.file = f]
          /\ archive' = [archive EXCEPT ![f] = [state |-> "bare", day |-> day]]
    /\ UNCHANGED <<day, marker, succeeded, torn, faults>> /\ BackupStep

Checksum ==
    /\ backup.pc = "published" /\ backup' = [backup EXCEPT !.pc = "summed"]
    /\ archive' = [archive EXCEPT ![backup.file].state = "whole"]
    /\ UNCHANGED <<day, marker, succeeded, torn, faults>> /\ BackupStep

Mark ==
    /\ backup.pc = "summed" /\ backup' = [backup EXCEPT !.pc = "marked"]
    /\ marker' = [file |-> backup.file, day |-> day]
    /\ UNCHANGED <<day, archive, succeeded, torn, faults>> /\ BackupStep

\* A marker that cannot be saved is logged, and the backup counts as done.
MarkFails ==
    /\ backup.pc = "summed" /\ backup' = [backup EXCEPT !.pc = "marked"] /\ Fault
    /\ UNCHANGED <<day, archive, marker, succeeded, torn>> /\ BackupStep

\* The archive of a backup that fails or is cancelled is deleted with its checksum.
Dropped(disk) == IF backup.file = 0 THEN disk ELSE [disk EXCEPT ![backup.file] = NoArchive]

Expired(disk) ==
    LET there == {f \in File : disk[f].state # "gone"}
    IN {f \in there : f # Max(there) /\ disk[f].day + Retention < day}

Rotated(disk) == [f \in File |-> IF f \in Expired(disk) THEN NoArchive ELSE disk[f]]

\* The newest of the old archives goes first, and of each its checksum: a rotation that got
\* as far as archive g has deleted the newer ones and, it may be, the checksum of g.
CutShort(disk) ==
    {disk} \cup
    {[f \in File |-> IF f \in Expired(disk) /\ f > g THEN NoArchive
                     ELSE IF f = g /\ ~summed THEN [disk[g] EXCEPT !.state = "bare"]
                     ELSE disk[f]] :
        g \in Expired(disk), summed \in BOOLEAN}

\* Mutant: old archives go after every attempt.
BackupFailsAndRotates ==
    /\ backup.pc \in {"dump", "published"} /\ Fault
    /\ archive' = Rotated(Dropped(archive)) /\ backup' = NoBackup
    /\ UNCHANGED <<day, marker, succeeded, torn>> /\ BackupStep

\* The dump, its compression or the checksum fails, or the dump takes too long.
BackupFails ==
    /\ backup.pc \in {"dump", "published"} /\ Fault
    /\ archive' = Dropped(archive) /\ backup' = NoBackup
    /\ UNCHANGED <<day, marker, succeeded, torn>> /\ BackupStep

Rotate ==
    /\ backup.pc = "marked" /\ backup' = NoBackup
    /\ archive' = Rotated(archive) /\ succeeded' = TRUE /\ torn' = FALSE
    /\ UNCHANGED <<day, marker, faults>> /\ BackupStep

\* The rotation runs inside run_backup: when it cannot look at a file or delete it, the archive
\* just made is deleted like that of any failed backup.
RotateFails ==
    /\ backup.pc = "marked" /\ backup' = NoBackup /\ Fault
    /\ \E disk \in CutShort(archive) :
          archive' = Dropped(disk) /\ torn' = (torn \/ disk # archive)
    /\ UNCHANGED <<day, marker, succeeded>> /\ BackupStep

----------------------------------------------------------------------------
(* The alarm                                                               *)

\* Mutant: only the age of the marker is looked at.
TooOld == ~(marker.file # 0 /\ marker.day + 1 >= day)

Violated == Lost

\* The health job sends at most one alert an hour, and the hour counts from a delivered one.
Alert ==
    /\ Violated /\ ~alerted
    /\ alerted' = TRUE /\ alarm' = Lost
    /\ UNCHANGED <<diskVars, busy, faults>>

HourPasses ==
    /\ alerted /\ alerted' = FALSE
    /\ UNCHANGED <<diskVars, alarm, busy, faults>>

----------------------------------------------------------------------------
(* The other jobs                                                          *)

Begin(j) ==
    /\ j \notin busy /\ busy' = busy \cup {j}
    /\ UNCHANGED <<diskVars, alarm, alerted, faults>>

End(j) ==
    /\ j \in busy /\ busy' = busy \ {j}
    /\ UNCHANGED <<diskVars, alarm, alerted, faults>>

----------------------------------------------------------------------------
(* The process                                                             *)

\* Cancelling waits for the checksum's thread, then deletes the archive of this backup: also
\* when the marker was saved and only read back was still awaited.  The rotation has no await.
StopJobs ==
    /\ Fault /\ backup' = NoBackup /\ busy' = {} /\ archive' = Dropped(archive)
    /\ UNCHANGED <<day, marker, succeeded, torn, alerted>> /\ alarm' = (alarm /\ Lost')

\* It may be in the middle of a rotation.
KillJobs ==
    /\ Fault /\ backup' = NoBackup /\ busy' = {}
    /\ archive' \in IF backup.pc = "marked" THEN CutShort(archive) \cup {Rotated(archive)}
                   ELSE {archive}
    /\ UNCHANGED <<day, marker, succeeded, torn, alarm, alerted>>

BackupInit ==
    /\ day = 0 /\ archive = [f \in File |-> NoArchive] /\ marker = [file |-> 0, day |-> 0]
    /\ backup = NoBackup /\ succeeded = FALSE /\ torn = FALSE /\ faults = 0
    /\ alarm = FALSE /\ alerted = FALSE /\ busy = {}

BackupJob == StartBackup \/ Publish \/ Checksum \/ Mark \/ Rotate

BackupNext ==
    \/ BackupJob \/ BackupFails \/ MarkFails \/ RotateFails \/ SlotComes
    \/ Alert \/ HourPasses
    \/ \E j \in Neighbour : Begin(j) \/ End(j)
    \/ StopJobs \/ KillJobs

\* Every job is a task that sleeps and wakes; the others may be at work for ever.
BackupFairness == WF_backupVars(BackupJob) /\ WF_backupVars(Alert) /\ WF_backupVars(HourPasses)

BackupSpec == BackupInit /\ [][BackupNext]_backupVars /\ BackupFairness

----------------------------------------------------------------------------
(* Properties                                                              *)

BackupTypeOK ==
    /\ day \in 0..MaxDay /\ archive \in [File -> Archive] /\ faults \in 0..MaxFaults
    /\ marker \in [file : File \cup {0}, day : 0..MaxDay]
    /\ backup \in [pc : {"idle", "dump", "published", "summed", "marked"},
                   file : File \cup {0}, since : 0..MaxDay]
    /\ {alarm, alerted, succeeded, torn} \subseteq BOOLEAN /\ busy \subseteq Neighbour

\* Once a backup succeeded there is always an archive the restore drill accepts, whatever
\* fails, is cancelled or is killed later, also in the middle of a rotation.  Only a rotation
\* that raises after it began to delete can take the last one, and the next backup that
\* succeeds brings one back (backup.py:169-343, docs/OPERATIONS.md:28-29).
RecoveryPointKept == BackupTypeOK /\ (succeeded /\ ~torn => Verified # {})

\* What docs/OPERATIONS.md:28-29 says without that exception.
RecoveryPointAlways == succeeded => Verified # {}

\* A marker that is too old or names a missing archive is told to the admins, unless a later
\* backup repairs it first (observability.py:207-286).
LossIsNoticed == Lost ~> alarm \/ ~Lost

\* A missed slot is made good, also when indexing or retention never come to an end
\* (docs/REMEDIATION_2026-09-07.md:21).
BackupIsNotDelayed == Due ~> ~Due
================================================================================
