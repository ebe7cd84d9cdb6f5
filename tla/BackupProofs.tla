----------------------------- MODULE BackupProofs ------------------------------
(***************************************************************************)
(* The safety of Backup and of Indexer for every number of days, faults,   *)
(* records in a batch and texts.  RecoveryPointKept is not inductive: a    *)
(* kill may leave a newer archive without its checksum, and the rotation   *)
(* keeps the newest.  What makes it safe is that only a backup with a      *)
(* whole archive rotates, that its archive is the newest, and that all it  *)
(* can lose before it rotates is its own.                                  *)
(***************************************************************************)
EXTENDS Backup, Indexer, WellFoundedInduction, TLAPS

Top == MaxDay + 1 + MaxFaults

\* A backup past the dump has the newest archive, and later with its checksum.
Newest ==
    /\ backup.pc \in {"idle", "dump"} <=> backup.file = 0
    /\ backup.file # 0 => backup.file \in Present /\ \A f \in Present : f <= backup.file
    /\ backup.pc \in {"summed", "marked"} => archive[backup.file].state = "whole"

\* The recovery point that the running backup cannot lose.
KeptBeside == succeeded /\ ~torn => \E f \in File : f # backup.file /\ archive[f].state = "whole"

\* The days of the marker and the faults pay for the numbers of archives.
Marked == IF marker.file = 0 THEN 0 ELSE marker.day + 1

Owed == IF backup.pc \in {"published", "summed"} THEN 1 ELSE 0

Paid == Marked + faults + Owed

Counted == \A f \in Present \cup {marker.file} : f <= Paid

\* A backup that has not set the marker yet is still due.
StillDue == backup.pc \in {"dump", "published", "summed"} => Due

\* The types of the backup's own variables.
DiskType ==
    /\ day \in 0..MaxDay /\ archive \in [File -> Archive] /\ faults \in 0..MaxFaults
    /\ marker \in [file : File \cup {0}, day : 0..MaxDay]
    /\ backup \in [pc : {"idle", "dump", "published", "summed", "marked"},
                   file : File \cup {0}, since : 0..MaxDay]
    /\ succeeded \in BOOLEAN /\ torn \in BOOLEAN

Inv == BackupTypeOK /\ Newest /\ KeptBeside /\ Counted /\ StillDue

\* What only the backup and its archives are about.
DiskInv == DiskType /\ Newest /\ KeptBeside /\ Counted /\ StillDue

--------------------------------------------------------------------------------
(* Numbers                                                                      *)

\* A bounded set of numbers has a greatest element, and Max is that.
LEMMA Greatest ==
    ASSUME NEW K \in Nat, NEW T \in SUBSET (0..K), T # {}
    PROVE  Max(T) \in T /\ \A y \in T : y <= Max(T)
<1> DEFINE R == {ss \in Nat \X Nat : ss[1] < ss[2]}
           U == {u \in Nat : K - u \in T}
<1>1. PICK t \in T : TRUE
  OBVIOUS
<1>2. \A y \in T : y \in Int /\ K - y \in Nat /\ K - (K - y) = y
  OBVIOUS
<1>3. U \subseteq Nat /\ \A y \in T : K - y \in U
  BY <1>2
<1>4. U # {}
  BY <1>1, <1>3
<1> HIDE DEF U
<1>5. PICK x \in U : \A y \in U : ~(<<y, x>> \in R)
  <2>1. IsWellFoundedOn(R, Nat)
    BY NatLessThanWellFounded DEF OpToRel
  <2> QED
    BY <1>3, <1>4, <2>1, WFMin
<1>6. \A y \in U : x <= y
  <2>1. ASSUME NEW y \in U PROVE ~(y < x)
    <3>1. y < x => <<y, x>> \in R
      BY <1>3
    <3> HIDE DEF R
    <3> QED
      BY <1>5, <3>1
  <2>2. x \in Nat /\ \A y \in U : y \in Nat
    BY <1>3
  <2> QED
    BY <2>1, <2>2
<1>7. K - x \in T
  BY DEF U
<1>8. \A y \in T : K - x >= y
  <2>1. ASSUME NEW y \in T PROVE K - x >= y
    <3>1. x <= K - y /\ y \in Int /\ x \in Nat
      BY <1>2, <1>3, <1>6
    <3> QED
      BY <3>1
  <2> QED
    BY <2>1
<1>9. /\ Max(T) \in T
      /\ \A y \in T : Max(T) >= y
  BY <1>7, <1>8 DEF Max
<1> QED
  BY <1>9

\* The facts about the constants and the bounds that the steps use.
LEMMA Bounds == MaxDay \in Nat /\ Retention \in Nat /\ MaxFaults \in Nat
                /\ Top \in Nat /\ File = 1..Top
BY BackupAssumption DEF Top, File

--------------------------------------------------------------------------------
(* The backup                                                                   *)

\* The number of a new archive is free, newer than all and paid for.
LEMMA NewNumber ==
    ASSUME Inv, backup.pc = "dump"
    PROVE  LET f == 1 + Max(Present \cup {marker.file})
           IN  /\ f \in File /\ f <= Paid + 1
               /\ \A g \in Present \cup {marker.file} : g < f
<1> DEFINE T == Present \cup {marker.file}
<1>1. T \in SUBSET (0..Top) /\ T # {}
  BY Bounds DEF Inv, BackupTypeOK, Present
<1>2. Max(T) \in T /\ \A y \in T : y <= Max(T)
  BY <1>1, Bounds, Greatest
<1>3. Max(T) <= Paid
  BY <1>2 DEF Inv, Counted
<1>4. Paid <= MaxDay + MaxFaults /\ Paid \in Nat
  BY Bounds DEF Inv, BackupTypeOK, StillDue, Due, Paid, Marked, Owed
<1> DEFINE m == Max(T)
<1>5. m \in Nat /\ m <= Top - 1
  BY <1>1, <1>2, <1>3, <1>4, Bounds DEF Top
<1>6. \A g \in T : g \in Int /\ g <= m
  BY <1>1, <1>2
<1> HIDE DEF m, T
<1>7. 1 + m \in File /\ 1 + m <= Paid + 1 /\ \A g \in T : g < 1 + m
  <2>1. 1 + m \in File
    BY <1>5, Bounds
  <2>2. 1 + m <= Paid + 1
    BY <1>3, <1>4, <1>5 DEF m
  <2>3. \A g \in T : g < 1 + m
    BY <1>5, <1>6
  <2> QED
    BY <2>1, <2>2, <2>3
<1> QED
  BY <1>7 DEF m, T

\* What the steps of the backup start from.
LEMMA Disk == ASSUME Inv PROVE DiskInv
BY DEF Inv, DiskInv, DiskType, BackupTypeOK

\* A slot may make a backup due, never undue.
LEMMA SlotComesKeeps ==
    ASSUME DiskInv, SlotComes
    PROVE  DiskInv'
<1> USE DEF DiskInv
<1>1. /\ day' = day + 1 /\ day < MaxDay
      /\ UNCHANGED <<archive, marker, backup, succeeded, torn, faults>>
  BY DEF SlotComes
<1>2. DiskType'
  BY <1>1, Bounds DEF DiskType
<1>3. Newest' /\ KeptBeside' /\ Counted'
  BY <1>1 DEF Newest, KeptBeside, Counted, Present, Paid, Marked, Owed
<1>4. StillDue'
  BY <1>1 DEF StillDue, Due, DiskType
<1> QED
  BY <1>2, <1>3, <1>4

LEMMA StartBackupKeeps ==
    ASSUME DiskInv, StartBackup
    PROVE  DiskInv'
<1> USE DEF DiskInv
<1>1. /\ Due /\ backup = NoBackup /\ backup' = [pc |-> "dump", file |-> 0, since |-> day]
      /\ UNCHANGED <<day, archive, marker, succeeded, torn, faults>>
  BY DEF StartBackup
<1>2. backup.pc = "idle" /\ backup.file = 0 /\ backup'.pc = "dump" /\ backup'.file = 0
  BY <1>1 DEF NoBackup
<1>3. DiskType'
  BY <1>1 DEF DiskType
<1>4. Newest' /\ KeptBeside' /\ Counted' /\ StillDue'
  BY <1>1, <1>2 DEF Newest, KeptBeside, Counted, Present, Paid, Marked, Owed, StillDue, Due
<1> QED
  BY <1>3, <1>4

LEMMA PublishKeeps ==
    ASSUME Inv, Publish
    PROVE  DiskInv'
<1> DEFINE f == 1 + Max(Present \cup {marker.file})
<1>1. DiskInv /\ backup.pc = "dump" /\ UNCHANGED <<day, marker, succeeded, torn, faults>>
  BY Disk DEF Publish
<1>2. f \in File /\ f <= Paid + 1 /\ \A g \in Present \cup {marker.file} : g < f
  BY <1>1, NewNumber
<1>3. /\ backup' = [backup EXCEPT !.pc = "published", !.file = f]
      /\ archive' = [archive EXCEPT ![f] = [state |-> "bare", day |-> day]]
  BY DEF Publish
<1> HIDE DEF f
<1>4. /\ backup'.pc = "published" /\ backup'.file = f /\ backup'.since = backup.since
      /\ f # 0 /\ f \in Nat
  BY <1>1, <1>2, <1>3, Bounds DEF DiskInv, DiskType
<1>5. /\ archive'[f] = [state |-> "bare", day |-> day]
      /\ \A g \in File \ {f} : archive'[g] = archive[g]
  BY <1>1, <1>2, <1>3 DEF DiskInv, DiskType
<1>6. DiskType'
  BY <1>1, <1>2, <1>3 DEF DiskInv, DiskType, Archive
<1>7. Present' \subseteq Present \cup {f}
  BY <1>5 DEF Present
<1>8. \A g \in Present : g \in Nat
  BY Bounds DEF Present
<1>9. Newest'
  <2>1. f \in Present'
    BY <1>2, <1>5 DEF Present
  <2>2. \A g \in Present' : g <= f
    BY <1>2, <1>4, <1>7, <1>8
  <2> QED
    BY <1>4, <2>1, <2>2 DEF Newest
<1>10. KeptBeside'
  <2>1. ASSUME succeeded, ~torn
        PROVE  \E g \in File : g # f /\ archive'[g].state = "whole"
    <3>1. PICK g \in File : archive[g].state = "whole"
      BY <1>1, <2>1 DEF DiskInv, KeptBeside
    <3>2. g < f
      BY <1>2, <3>1 DEF Present
    <3> QED
      BY <1>4, <1>5, <3>1, <3>2
  <2> QED
    BY <1>1, <1>4, <2>1 DEF KeptBeside
<1>11. Counted'
  <2>1. Paid' = Paid + 1 /\ Paid \in Nat
    BY <1>1, <1>4, Bounds DEF Paid, Marked, Owed, DiskInv, DiskType
  <2>2. \A g \in Present' \cup {marker'.file} : g <= f
    BY <1>1, <1>2, <1>4, <1>7, <1>8, Bounds DEF DiskInv, DiskType
  <2>3. \A g \in Present' \cup {marker'.file} : g \in Nat
    BY <1>1, <1>4, <1>7, <1>8, Bounds DEF DiskInv, DiskType
  <2> QED
    BY <1>2, <1>4, <2>1, <2>2, <2>3 DEF Counted
<1>12. StillDue'
  BY <1>1 DEF DiskInv, StillDue, Due
<1> QED
  BY <1>6, <1>9, <1>10, <1>11, <1>12 DEF DiskInv

LEMMA ChecksumKeeps ==
    ASSUME DiskInv, Checksum
    PROVE  DiskInv'
<1> USE DEF DiskInv
<1>1. /\ backup.pc = "published" /\ backup' = [backup EXCEPT !.pc = "summed"]
      /\ archive' = [archive EXCEPT ![backup.file].state = "whole"]
      /\ UNCHANGED <<day, marker, succeeded, torn, faults>>
  BY DEF Checksum
<1>2. backup.file # 0 /\ backup.file \in File
  BY <1>1 DEF Newest, DiskType
<1>3. backup'.pc = "summed" /\ backup'.file = backup.file
  BY <1>1 DEF DiskType
<1>4. /\ archive' \in [File -> Archive] /\ archive'[backup.file].state = "whole"
      /\ \A g \in File \ {backup.file} : archive'[g] = archive[g]
  BY <1>1, <1>2 DEF DiskType, Archive
<1>5. DiskType'
  BY <1>1, <1>4 DEF DiskType
<1>6. Present' = Present
  BY <1>2, <1>4 DEF Newest, Present
<1>7. Newest'
  BY <1>2, <1>3, <1>4, <1>6 DEF Newest
<1>8. KeptBeside'
  BY <1>1, <1>3, <1>4 DEF KeptBeside
<1>9. Counted' /\ StillDue'
  BY <1>1, <1>3, <1>6 DEF Counted, Paid, Marked, Owed, StillDue, Due
<1> QED
  BY <1>5, <1>7, <1>8, <1>9

\* The marker moves to the day of the slot, which pays for the number of the archive.
LEMMA MarkKeeps ==
    ASSUME DiskInv, Mark
    PROVE  DiskInv'
<1> USE DEF DiskInv
<1>1. /\ backup.pc = "summed" /\ backup' = [backup EXCEPT !.pc = "marked"]
      /\ marker' = [file |-> backup.file, day |-> day]
      /\ UNCHANGED <<day, archive, succeeded, torn, faults>>
  BY DEF Mark
<1>2. /\ backup.file # 0 /\ backup.file \in File /\ backup.file \in Present
      /\ backup'.pc = "marked" /\ backup'.file = backup.file
      /\ marker'.file = backup.file /\ marker'.day = day
  BY <1>1 DEF Newest, DiskType
<1>3. DiskType'
  BY <1>1, <1>2 DEF DiskType
<1>4. Present' = Present
  BY <1>1 DEF Present
<1>5. Newest' /\ KeptBeside' /\ StillDue'
  BY <1>1, <1>2, <1>4 DEF Newest, KeptBeside, StillDue
<1>6. Counted'
  <2>3. Owed = 1 /\ Owed' = 0 /\ faults' = faults /\ faults \in Nat
    BY <1>1, <1>2, Bounds DEF Owed, DiskType
  <2>4. Marked' = day + 1 /\ day \in Nat
    BY <1>2, Bounds DEF Marked, DiskType
  <2>5. Marked \in Nat /\ Marked <= day
    BY <1>1, Bounds DEF Marked, DiskType, StillDue, Due
  <2>1. Paid <= Paid' /\ Paid \in Nat /\ Paid' \in Nat
    BY <2>3, <2>4, <2>5 DEF Paid
  <2>2. \A g \in Present' \cup {marker'.file} : g \in Nat /\ g <= Paid
    BY <1>2, <1>4, Bounds DEF Counted, Present
  <2> QED
    BY <2>1, <2>2 DEF Counted
<1> QED
  BY <1>3, <1>5, <1>6

LEMMA MarkFailsKeeps ==
    ASSUME DiskInv, MarkFails
    PROVE  DiskInv'
<1> USE DEF DiskInv
<1>1. /\ backup.pc = "summed" /\ backup' = [backup EXCEPT !.pc = "marked"]
      /\ faults < MaxFaults /\ faults' = faults + 1
      /\ UNCHANGED <<day, archive, marker, succeeded, torn>>
  BY DEF MarkFails, Fault
<1>2. backup'.pc = "marked" /\ backup'.file = backup.file
  BY <1>1 DEF DiskType
<1>3. DiskType'
  BY SMTT(30), <1>1, Bounds DEF DiskType
<1>4. Present' = Present
  BY <1>1 DEF Present
<1>5. Newest' /\ KeptBeside' /\ StillDue'
  BY <1>1, <1>2, <1>4 DEF Newest, KeptBeside, StillDue
<1>6. Paid' = Paid
  <2>1. Owed = 1 /\ Owed' = 0 /\ faults' = faults + 1 /\ faults \in Nat
    BY <1>1, <1>2, Bounds DEF Owed, DiskType
  <2>2. Marked' = Marked /\ Marked \in Nat
    BY <1>1, Bounds DEF Marked, DiskType
  <2> QED
    BY <2>1, <2>2 DEF Paid
<1>7. Counted'
  BY <1>1, <1>4, <1>6 DEF Counted
<1> QED
  BY <1>3, <1>5, <1>7

\* Dropping an archive takes nothing but the archive of the running backup.
LEMMA DroppingOwn ==
    ASSUME DiskInv
    PROVE  /\ Dropped(archive) \in [File -> Archive]
           /\ \A f \in File : f # backup.file => Dropped(archive)[f] = archive[f]
           /\ \A f \in File : Dropped(archive)[f].state # "gone" => f \in Present
<1>1. NoArchive \in Archive /\ NoArchive.state = "gone"
  BY Bounds DEF NoArchive, Archive
<1>2. CASE backup.file = 0
  BY <1>2 DEF Dropped, DiskInv, DiskType, Present
<1>3. CASE backup.file # 0
  BY <1>1, <1>3 DEF Dropped, DiskInv, DiskType, Present
<1> QED
  BY <1>2, <1>3

\* The newest archive is the one of the backup that has set its marker: it never expires.
LEMMA OwnIsNewest ==
    ASSUME DiskInv, backup.pc = "marked"
    PROVE  /\ backup.file # 0 /\ backup.file \in File /\ backup.file \notin Expired(archive)
           /\ archive[backup.file].state = "whole"
<1>1. /\ backup.file # 0 /\ backup.file \in File /\ backup.file \in Present
      /\ \A f \in Present : f <= backup.file
      /\ archive[backup.file].state = "whole"
  BY DEF DiskInv, Newest, DiskType
<1>2. Max(Present) = backup.file
  <2>1. Present \in SUBSET (0..Top) /\ Present # {}
    BY <1>1, Bounds DEF Present
  <2>2. Max(Present) \in Present /\ \A y \in Present : y <= Max(Present)
    BY <2>1, Bounds, Greatest
  <2>3. backup.file <= Max(Present) /\ Max(Present) <= backup.file
    BY Zenon, <1>1, <2>2
  <2>4. \A y \in Present : y \in Int
    BY <2>1, Bounds
  <2>5. backup.file \in Int /\ Max(Present) \in Int
    BY Zenon, <1>1, <2>2, <2>4
  <2>6. \A x, y \in Int : x <= y /\ y <= x => x = y
    OBVIOUS
  <2> QED
    BY Zenon, <2>3, <2>5, <2>6
<1> QED
  BY <1>1, <1>2 DEF Expired, Present

\* A rotation, whole or cut short, leaves the archive of the backup that runs it.
LEMMA RotationKeepsOwn ==
    ASSUME DiskInv, backup.pc = "marked",
           NEW disk \in CutShort(archive) \cup {Rotated(archive)}
    PROVE  /\ disk \in [File -> Archive]
           /\ disk[backup.file] = archive[backup.file]
           /\ \A f \in File : disk[f].state # "gone" => f \in Present
<1>1. backup.file \in File /\ backup.file \notin Expired(archive)
  BY OwnIsNewest
<1>2. NoArchive \in Archive /\ NoArchive.state = "gone"
  BY Bounds DEF NoArchive, Archive
<1>3. archive \in [File -> Archive]
  BY DEF DiskInv, DiskType
<1>4. Expired(archive) \subseteq Present
  BY DEF Expired, Present
<1>5. CASE disk = archive
  BY <1>3, <1>5 DEF Present
<1>6. CASE disk = Rotated(archive)
  <2>1. /\ disk \in [File -> Archive]
        /\ \A f \in File : disk[f] = IF f \in Expired(archive) THEN NoArchive ELSE archive[f]
    BY <1>2, <1>3, <1>6 DEF Rotated
  <2> QED
    BY <1>1, <1>2, <2>1 DEF Present
<1>7. ASSUME NEW g \in Expired(archive), NEW summed \in BOOLEAN,
             disk = [f \in File |->
                       IF f \in Expired(archive) /\ f > g THEN NoArchive
                       ELSE IF f = g /\ ~summed THEN [archive[g] EXCEPT !.state = "bare"]
                       ELSE archive[f]]
      PROVE  /\ disk \in [File -> Archive]
             /\ disk[backup.file] = archive[backup.file]
             /\ \A f \in File : disk[f].state # "gone" => f \in Present
  <2> DEFINE h == [archive[g] EXCEPT !.state = "bare"]
  <2>1. g \in File /\ g \in Present
    BY <1>4 DEF Present
  <2>2. h \in Archive
    BY <1>3, <2>1 DEF Archive
  <2>3. \A f \in File : disk[f] = IF f \in Expired(archive) /\ f > g THEN NoArchive
                                 ELSE IF f = g /\ ~summed THEN h ELSE archive[f]
    BY <1>7
  <2> HIDE DEF h
  <2>4. ASSUME NEW f \in File
        PROVE  /\ disk[f] \in {NoArchive, archive[f]} \/ (f = g /\ disk[f] = h)
               /\ f \notin Expired(archive) => disk[f] = archive[f]
    <3>1. g \in Expired(archive)
      BY <1>7
    <3>2. CASE f \in Expired(archive) /\ f > g
      BY <2>3, <3>2
    <3>3. CASE ~(f \in Expired(archive) /\ f > g) /\ f = g /\ ~summed
      BY <2>3, <3>1, <3>3
    <3>4. CASE ~(f \in Expired(archive) /\ f > g) /\ ~(f = g /\ ~summed)
      BY <2>3, <3>4
    <3> QED
      BY <3>2, <3>3, <3>4
  <2>5. disk \in [File -> Archive]
    <3>1. \A f \in File : disk[f] \in Archive
      BY <1>2, <1>3, <2>2, <2>4
    <3>2. disk = [f \in File |-> disk[f]]
      BY <1>7
    <3> QED
      BY <3>1, <3>2
  <2>6. disk[backup.file] = archive[backup.file]
    BY <1>1, <2>4
  <2>7. ASSUME NEW f \in File, disk[f].state # "gone" PROVE f \in Present
    BY <1>2, <2>1, <2>4, <2>7 DEF Present
  <2> QED
    BY <2>5, <2>6, <2>7
<1>8. \/ disk = archive \/ disk = Rotated(archive)
      \/ \E g \in Expired(archive), summed \in BOOLEAN :
           disk = [f \in File |->
                     IF f \in Expired(archive) /\ f > g THEN NoArchive
                     ELSE IF f = g /\ ~summed THEN [archive[g] EXCEPT !.state = "bare"]
                     ELSE archive[f]]
  BY DEF CutShort
<1> QED
  BY <1>5, <1>6, <1>7, <1>8

\* A backup that ends, in whatever way, and leaves no file that was not there, is paid for.
LEMMA EndIsCounted ==
    ASSUME DiskInv, backup' = NoBackup, UNCHANGED <<day, marker>>,
           (faults' = faults /\ backup.pc = "marked") \/ Fault,
           archive' \in [File -> Archive], Present' \subseteq Present,
           succeeded' \in BOOLEAN, torn' \in BOOLEAN
    PROVE  DiskType' /\ Newest' /\ Counted' /\ StillDue'
<1>1. backup'.pc = "idle" /\ backup'.file = 0 /\ backup'.since = 0
  BY DEF NoBackup
<1>2. DiskType'
  <2>1. faults' \in 0..MaxFaults
    BY Bounds DEF DiskInv, DiskType, Fault
  <2>2. NoBackup \in [pc : {"idle", "dump", "published", "summed", "marked"},
                      file : File \cup {0}, since : 0..MaxDay]
    BY Bounds DEF NoBackup
  <2>3. backup' \in [pc : {"idle", "dump", "published", "summed", "marked"},
                     file : File \cup {0}, since : 0..MaxDay]
    BY <2>2
  <2> QED
    BY <2>1, <2>3 DEF DiskInv, DiskType
<1>3. Newest' /\ StillDue'
  BY <1>1 DEF Newest, StillDue
<1>4. Paid <= Paid' /\ Paid \in Nat /\ Paid' \in Nat
  <2>1. Marked' = Marked /\ Marked \in Nat /\ Owed' = 0 /\ Owed \in {0, 1}
    BY SMTT(30), <1>1, Bounds DEF Marked, Owed, DiskInv, DiskType
  <2>2. faults \in Nat /\ faults' \in Nat
        /\ ((faults' = faults /\ Owed = 0) \/ faults' = faults + 1)
    BY Bounds DEF Fault, Owed, DiskInv, DiskType
  <2>3. Paid = Marked + faults + Owed /\ Paid' = Marked + faults'
    BY <2>1, <2>2 DEF Paid
  <2>4. Paid \in Nat /\ Paid' \in Nat
    <3>1. \A x, y, z \in Nat : x + y + z \in Nat /\ x + y \in Nat
      OBVIOUS
    <3>2. Owed \in Nat
      BY <2>1
    <3> QED
      BY <2>1, <2>2, <2>3, <3>1, <3>2
  <2>5. Paid <= Paid'
    <3>1. CASE faults' = faults /\ Owed = 0
      BY <2>1, <2>2, <2>3, <3>1
    <3>2. CASE faults' = faults + 1
      BY <2>1, <2>2, <2>3, <3>2
    <3> QED
      BY <2>2, <3>1, <3>2
  <2> QED
    BY <2>4, <2>5
<1>5. Counted'
  <2>1. \A g \in Present' \cup {marker'.file} : g \in Nat /\ g <= Paid
    BY Bounds DEF DiskInv, DiskType, Counted, Present
  <2> QED
    BY <1>4, <2>1 DEF Counted
<1> QED
  BY <1>2, <1>3, <1>5

\* A backup that ends with a fault, and with its archive dropped or left, keeps the rest.
LEMMA EndingKeeps ==
    ASSUME DiskInv, Fault, backup' = NoBackup, UNCHANGED <<day, marker, succeeded, torn>>,
           archive' = archive \/ archive' = Dropped(archive)
    PROVE  DiskInv'
<1>1. /\ archive' \in [File -> Archive]
      /\ \A f \in File : f # backup.file => archive'[f] = archive[f]
      /\ Present' \subseteq Present
  BY DroppingOwn DEF DiskInv, DiskType, Present
<1>2. KeptBeside'
  BY <1>1, Bounds DEF DiskInv, KeptBeside, NoBackup
<1>3. succeeded' \in BOOLEAN /\ torn' \in BOOLEAN
  BY DEF DiskInv, DiskType
<1> QED
  BY <1>1, <1>2, <1>3, EndIsCounted DEF DiskInv

LEMMA RotateKeeps ==
    ASSUME DiskInv, Rotate
    PROVE  DiskInv'
<1>1. /\ backup.pc = "marked" /\ backup' = NoBackup /\ archive' = Rotated(archive)
      /\ UNCHANGED <<day, marker, faults>>
  BY DEF Rotate
<1>2. /\ archive' \in [File -> Archive] /\ archive'[backup.file] = archive[backup.file]
      /\ Present' \subseteq Present
  BY <1>1, RotationKeepsOwn DEF Present
<1>3. KeptBeside'
  BY <1>1, <1>2, OwnIsNewest DEF KeptBeside, NoBackup
<1>4. succeeded' \in BOOLEAN /\ torn' \in BOOLEAN
  BY DEF Rotate
<1> QED
  BY <1>1, <1>2, <1>3, <1>4, EndIsCounted DEF DiskInv

\* A rotation that fails drops its own archive; when it has touched nothing, the recovery
\* point beside it is still there.
LEMMA RotateFailsKeeps ==
    ASSUME DiskInv, RotateFails
    PROVE  DiskInv'
<1>1. /\ backup.pc = "marked" /\ backup' = NoBackup /\ Fault
      /\ UNCHANGED <<day, marker, succeeded>>
  BY DEF RotateFails
<1>2. PICK disk \in CutShort(archive) :
        archive' = Dropped(disk) /\ torn' = (torn \/ disk # archive)
  BY DEF RotateFails
<1>3. CASE disk = archive
  <2>1. torn' = torn
    <3>1. torn \in BOOLEAN
      BY DEF DiskInv, DiskType
    <3> QED
      BY <1>2, <1>3, <3>1
  <2> QED
    BY <1>1, <1>2, <1>3, <2>1, EndingKeeps
<1>4. CASE disk # archive
  <2>1. /\ disk \in [File -> Archive]
        /\ \A f \in File : disk[f].state # "gone" => f \in Present
    BY <1>1, RotationKeepsOwn
  <2>2. /\ Dropped(disk) \in [File -> Archive]
        /\ \A f \in File : Dropped(disk)[f].state # "gone" => disk[f].state # "gone"
    <3>1. NoArchive \in Archive /\ NoArchive.state = "gone"
      BY Bounds DEF NoArchive, Archive
    <3>2. backup.file \in File /\ backup.file # 0
      BY <1>1, OwnIsNewest
    <3> QED
      BY <2>1, <3>1, <3>2 DEF Dropped
  <2>3. archive' \in [File -> Archive] /\ Present' \subseteq Present
    BY <1>2, <2>1, <2>2 DEF Present
  <2>4. KeptBeside'
    BY <1>2, <1>4 DEF KeptBeside
  <2>5. succeeded' \in BOOLEAN /\ torn' \in BOOLEAN
    BY <1>1, <1>2 DEF DiskInv, DiskType
  <2> QED
    BY <1>1, <2>3, <2>4, <2>5, EndIsCounted DEF DiskInv
<1> QED
  BY <1>3, <1>4

\* A kill in a rotation leaves at least the archive of the backup that ran it.
LEMMA KillKeeps ==
    ASSUME DiskInv, KillJobs
    PROVE  DiskInv'
<1>1. Fault /\ backup' = NoBackup /\ UNCHANGED <<day, marker, succeeded, torn>>
  BY DEF KillJobs
<1>2. CASE backup.pc = "marked"
  <2>1. archive' \in CutShort(archive) \cup {Rotated(archive)}
    BY <1>2 DEF KillJobs
  <2>2. /\ archive' \in [File -> Archive] /\ archive'[backup.file] = archive[backup.file]
        /\ Present' \subseteq Present
    BY <1>2, <2>1, RotationKeepsOwn DEF Present
  <2>3. KeptBeside'
    BY <1>1, <1>2, <2>2, OwnIsNewest DEF KeptBeside, NoBackup
  <2>4. succeeded' \in BOOLEAN /\ torn' \in BOOLEAN
    BY <1>1 DEF DiskInv, DiskType
  <2> QED
    BY <1>1, <2>2, <2>3, <2>4, EndIsCounted DEF DiskInv
<1>3. CASE backup.pc # "marked"
  BY <1>1, <1>3, EndingKeeps DEF KillJobs
<1> QED
  BY <1>2, <1>3

--------------------------------------------------------------------------------
(* All steps                                                                    *)

DiskAndFaults == <<diskVars, faults>>

LEMMA DiskStutters ==
    ASSUME DiskInv, UNCHANGED DiskAndFaults
    PROVE  DiskInv'
BY DEF DiskInv, DiskAndFaults, diskVars, DiskType, Newest, KeptBeside, Counted, Present, Paid,
       Marked, Owed, StillDue, Due

LEMMA DiskStep ==
    ASSUME Inv, [BackupNext]_backupVars
    PROVE  DiskInv'
<1>1. DiskInv
  BY Disk
<1>2. CASE BackupJob
  BY <1>1, <1>2, StartBackupKeeps, PublishKeeps, ChecksumKeeps, MarkKeeps, RotateKeeps
     DEF BackupJob
<1>3. CASE BackupFails
  BY <1>1, <1>3, EndingKeeps DEF BackupFails
<1>4. CASE MarkFails \/ RotateFails
  BY <1>1, <1>4, MarkFailsKeeps, RotateFailsKeeps
<1>5. CASE SlotComes
  BY <1>1, <1>5, SlotComesKeeps
<1>6. CASE Alert \/ HourPasses \/ \E j \in Neighbour : Begin(j) \/ End(j)
  <2>1. UNCHANGED DiskAndFaults
    BY <1>6 DEF Alert, HourPasses, Begin, End, DiskAndFaults
  <2> QED
    BY <1>1, <2>1, DiskStutters
<1>7. CASE StopJobs
  BY <1>1, <1>7, EndingKeeps DEF StopJobs
<1>8. CASE KillJobs
  BY <1>1, <1>8, KillKeeps
<1>9. CASE UNCHANGED backupVars
  <2>1. UNCHANGED DiskAndFaults
    BY <1>9 DEF backupVars, DiskAndFaults
  <2> QED
    BY <1>1, <2>1, DiskStutters
<1> QED
  BY <1>2, <1>3, <1>4, <1>5, <1>6, <1>7, <1>8, <1>9 DEF BackupNext

\* The flags of the alarm and the set of the other jobs.
FlagType == alarm \in BOOLEAN /\ alerted \in BOOLEAN /\ busy \subseteq Neighbour

LEMMA FlagsKeep ==
    ASSUME FlagType, [BackupNext]_backupVars
    PROVE  FlagType'
<1>1. alarm' \in BOOLEAN
  BY DEF FlagType, BackupNext, BackupJob, StartBackup, Publish, Checksum, Mark, Rotate,
         BackupFails, MarkFails, RotateFails, SlotComes, BackupStep, Alert, HourPasses, Begin, End,
         StopJobs, KillJobs, backupVars, Lost
<1>2. alerted' \in BOOLEAN
  BY DEF FlagType, BackupNext, BackupJob, StartBackup, Publish, Checksum, Mark, Rotate,
         BackupFails, MarkFails, RotateFails, SlotComes, BackupStep, Alert, HourPasses, Begin, End,
         StopJobs, KillJobs, backupVars
<1>3. busy' \subseteq Neighbour
  BY DEF FlagType, BackupNext, BackupJob, StartBackup, Publish, Checksum, Mark, Rotate,
         BackupFails, MarkFails, RotateFails, SlotComes, BackupStep, Alert, HourPasses, Begin, End,
         StopJobs, KillJobs, backupVars
<1> QED
  BY <1>1, <1>2, <1>3 DEF FlagType

LEMMA Parts == BackupTypeOK <=> DiskType /\ FlagType
<1>1. {alarm, alerted, succeeded, torn} \subseteq BOOLEAN
      <=> /\ alarm \in BOOLEAN /\ alerted \in BOOLEAN
          /\ succeeded \in BOOLEAN /\ torn \in BOOLEAN
  BY Zenon
<1> QED
  BY <1>1 DEF BackupTypeOK, DiskType, FlagType

LEMMA InitInv == BackupInit => Inv
<1> SUFFICES ASSUME BackupInit PROVE Inv
  OBVIOUS
<1>1. NoArchive \in Archive /\ NoArchive.state = "gone"
  BY Bounds DEF NoArchive, Archive
<1>2. DiskType
  <2>1. succeeded \in BOOLEAN /\ torn \in BOOLEAN
    BY DEF BackupInit
  <2>2. /\ day \in 0..MaxDay /\ archive \in [File -> Archive] /\ faults \in 0..MaxFaults
        /\ marker \in [file : File \cup {0}, day : 0..MaxDay]
        /\ backup \in [pc : {"idle", "dump", "published", "summed", "marked"},
                       file : File \cup {0}, since : 0..MaxDay]
    BY <1>1, Bounds DEF BackupInit, NoBackup
  <2> QED
    BY <2>1, <2>2 DEF DiskType
<1>3. FlagType
  BY DEF BackupInit, FlagType
<1>4. Present = {}
  BY <1>1 DEF BackupInit, Present
<1>5. Newest /\ KeptBeside /\ StillDue
  BY <1>1 DEF BackupInit, NoBackup, Newest, KeptBeside, StillDue
<1>6. Counted
  BY <1>4 DEF BackupInit, NoBackup, Counted, Paid, Marked, Owed
<1> QED
  BY <1>2, <1>3, <1>5, <1>6, Parts DEF Inv

LEMMA InvStep == Inv /\ [BackupNext]_backupVars => Inv'
<1> SUFFICES ASSUME Inv, [BackupNext]_backupVars PROVE Inv'
  OBVIOUS
<1>1. DiskInv'
  BY DiskStep
<1>2. FlagType'
  BY Parts, FlagsKeep DEF Inv
<1>3. BackupTypeOK' <=> DiskType' /\ FlagType'
  BY Parts, PTL
<1> QED
  BY <1>1, <1>2, <1>3 DEF Inv, DiskInv

--------------------------------------------------------------------------------
(* The indexer and the editor                                                   *)

\* While its vector is written and not committed, the record has the text that was sent.
Locked == batch.saved => record.text = batch.copy

\* A copy without a vector is the truth, unless a vector was committed after it was read.
Copied == editor.pc = "read" /\ editor.blank /\ record.vector # None => overtaken

\* After the withdrawal one record at most was past its check.
OneLate == late = 0 \/ (late = 1 /\ ~consent /\ batch.pc # "checked")

\* A handler past its read has a text to write.
Reading == editor.pc = "read" => editor.text \in Text

RecordInv == Locked /\ Copied /\ LateVectorIsDropped

IndexInv == IndexTypeOK /\ Reading /\ RecordInv /\ OneLate

\* The batch or the editor may give up: what they had is not needed.
LEMMA LettingGo ==
    ASSUME IndexInv, UNCHANGED <<record, consent, late, overtaken>>,
           batch' \in Batch, batch' = NoBatch \/ (batch'.saved => batch.saved),
           batch'.saved => batch'.copy = batch.copy,
           batch'.pc = "checked" => batch.pc = "checked" \/ consent,
           editor' = editor \/ editor' = NoEditor
    PROVE  IndexInv'
<1>1. NoEditor \in Editor /\ NoEditor.pc = "idle"
  BY DEF NoEditor, Editor
<1>2. NoBatch.saved = FALSE /\ NoBatch.pc = "idle"
  BY DEF NoBatch
<1>3. IndexTypeOK' /\ Reading'
  BY <1>1 DEF IndexInv, IndexTypeOK, Reading
<1>4. Locked' /\ LateVectorIsDropped'
  BY <1>2 DEF IndexInv, RecordInv, Locked, LateVectorIsDropped, Outdated
<1>5. Copied'
  BY <1>1 DEF IndexInv, RecordInv, Copied
<1>6. OneLate'
  BY DEF IndexInv, OneLate
<1> QED
  BY <1>3, <1>4, <1>5, <1>6 DEF IndexInv, RecordInv

LEMMA NoBatchType == NoBatch \in Batch /\ NoBatch.saved = FALSE /\ NoBatch.pc = "idle"
BY IndexerAssumption DEF NoBatch, Batch

LEMMA ReadBatchKeeps ==
    ASSUME IndexInv, ReadBatch
    PROVE  IndexInv'
<1>1. PICK n \in 1..Limit, ours \in BOOLEAN :
         batch' = [NoBatch EXCEPT !.pc = "next", !.todo = n, !.ahead = ours,
                                  !.copy = IF ours THEN record.text ELSE None]
  BY DEF ReadBatch
<1>2. batch' = [pc |-> "next", todo |-> n, ahead |-> ours, at |-> FALSE,
                copy |-> IF ours THEN record.text ELSE None, saved |-> FALSE]
  BY <1>1 DEF NoBatch
<1>3. batch' \in Batch
  BY <1>2, IndexerAssumption DEF Batch, IndexInv, IndexTypeOK, Record
<1> QED
  BY <1>2, <1>3, LettingGo DEF ReadBatch

LEMMA CheckKeeps ==
    ASSUME IndexInv, CheckConsent
    PROVE  IndexInv'
<1>1. PICK pc \in {"checked", "next"}, ours \in BOOLEAN :
         /\ batch' = [batch EXCEPT !.pc = pc, !.todo = @ - 1, !.at = ours,
                                   !.ahead = batch.ahead /\ ~ours]
         /\ pc = "checked" => consent
  BY DEF CheckConsent, Taken
<1>2. batch \in Batch /\ batch.todo > 0 /\ batch.todo - 1 \in 0..Limit
  BY IndexerAssumption DEF IndexInv, IndexTypeOK, Batch, CheckConsent
<1>3. batch' = [pc |-> pc, todo |-> batch.todo - 1, ahead |-> (batch.ahead /\ ~ours), at |-> ours,
                copy |-> batch.copy, saved |-> batch.saved]
  BY <1>1, <1>2 DEF Batch
<1>4. batch' \in Batch
  BY <1>2, <1>3 DEF Batch
<1> QED
  BY <1>1, <1>3, <1>4, LettingGo DEF CheckConsent

\* A record is only past its check under a consent, and then none was late.
LEMMA SendKeeps ==
    ASSUME IndexInv, SendText
    PROVE  IndexInv'
<1>1. /\ batch.pc = "checked" /\ batch' = [batch EXCEPT !.pc = "sent"]
      /\ UNCHANGED <<record, editor, consent, overtaken>>
      /\ late' = IF consent THEN late ELSE late + 1
  BY DEF SendText
<1>2. late = 0
  BY <1>1 DEF IndexInv, OneLate
<1>3. batch' \in Batch /\ batch'.pc = "sent" /\ batch'.copy = batch.copy
      /\ batch'.saved = batch.saved
  BY <1>1 DEF IndexInv, IndexTypeOK, Batch
<1>4. late' \in Nat /\ OneLate'
  BY <1>1, <1>2, <1>3 DEF OneLate
<1> QED
  BY <1>1, <1>3, <1>4
     DEF IndexInv, IndexTypeOK, Reading, RecordInv, Locked, Copied, LateVectorIsDropped, Outdated

\* A vector is written only where the text is the one that was sent; the lock keeps it so.
LEMMA EmbeddedKeeps ==
    ASSUME IndexInv, Embedded
    PROVE  IndexInv'
<1>1. /\ batch' = [batch EXCEPT !.pc = "answered", !.saved = @ \/ Saved]
      /\ UNCHANGED <<record, editor, consent, late, overtaken>>
  BY DEF Embedded
<1>2. Saved \in BOOLEAN /\ batch \in Batch
  BY DEF Saved, IndexInv, IndexTypeOK, Batch
<1>3. batch' = [pc |-> "answered", todo |-> batch.todo, ahead |-> batch.ahead, at |-> batch.at,
                copy |-> batch.copy, saved |-> (batch.saved \/ Saved)]
  BY <1>1, <1>2 DEF Batch
<1>4. batch' \in Batch
  BY <1>2, <1>3 DEF Batch
<1>5. Locked'
  BY <1>1, <1>3 DEF IndexInv, RecordInv, Locked, Saved
<1>6. OneLate'
  BY <1>1, <1>3 DEF IndexInv, OneLate
<1> QED
  BY <1>1, <1>4, <1>5, <1>6
     DEF IndexInv, IndexTypeOK, Reading, RecordInv, Copied, LateVectorIsDropped, Outdated

LEMMA WithoutAnswerKeeps ==
    ASSUME IndexInv, EmbeddingFails \/ GoOn
    PROVE  IndexInv'
<1>1. PICK pc \in {"answered", "next"}, kept \in {batch.saved, FALSE} :
        batch' = [batch EXCEPT !.pc = pc, !.saved = kept]
  <2>1. CASE EmbeddingFails
    BY <2>1 DEF EmbeddingFails
  <2>2. CASE GoOn
    <3>1. batch' = [batch EXCEPT !.pc = "next", !.saved = batch.saved]
      BY <2>2 DEF GoOn, IndexInv, IndexTypeOK, Batch
    <3> QED
      BY <3>1
  <2> QED
    BY <2>1, <2>2
<1>2. batch' = [pc |-> pc, todo |-> batch.todo, ahead |-> batch.ahead, at |-> batch.at,
                copy |-> batch.copy, saved |-> kept]
  BY <1>1 DEF IndexInv, IndexTypeOK, Batch
<1>3. batch' \in Batch
  BY <1>2 DEF IndexInv, IndexTypeOK, Batch
<1>4. UNCHANGED <<record, editor, consent, late, overtaken>>
  BY DEF EmbeddingFails, GoOn
<1> QED
  BY <1>2, <1>3, <1>4, LettingGo

\* What is committed is the vector of the text the record has now; an edit that has read
\* before is remembered.
LEMMA CommitKeeps ==
    ASSUME IndexInv, Commit, UNCHANGED <<editor, consent, late>>,
           batch' \in Batch, batch'.saved = FALSE, batch'.pc # "checked"
    PROVE  IndexInv'
<1>1. Locked' /\ OneLate' /\ Reading'
  BY DEF IndexInv, Locked, OneLate, Reading
<1>2. CASE ~batch.saved
  <2>1. UNCHANGED <<record, overtaken>>
    BY <1>2 DEF Commit
  <2> QED
    BY <1>1, <2>1
       DEF IndexInv, IndexTypeOK, RecordInv, Copied, LateVectorIsDropped, Outdated
<1>3. CASE batch.saved
  <2>1. /\ record' = [record EXCEPT !.vector = batch.copy]
        /\ overtaken' = (editor.pc = "read") /\ record.text = batch.copy
    BY <1>3 DEF Commit, IndexInv, RecordInv, Locked
  <2>2. record' = [text |-> record.text, vector |-> record.text] /\ record' \in Record
    BY <2>1 DEF IndexInv, IndexTypeOK, Record
  <2>3. IndexTypeOK'
    BY <2>1, <2>2 DEF IndexInv, IndexTypeOK
  <2>4. LateVectorIsDropped' /\ Copied'
    BY <2>1, <2>2 DEF LateVectorIsDropped, Outdated, Copied
  <2> QED
    BY <1>1, <2>3, <2>4 DEF IndexInv, RecordInv
<1>4. batch.saved \in BOOLEAN
  BY DEF IndexInv, IndexTypeOK, Batch
<1> QED
  BY <1>2, <1>3, <1>4

LEMMA CommittingKeeps ==
    ASSUME IndexInv, CommitTenth \/ EndBatch
    PROVE  IndexInv'
<1>1. CASE CommitTenth
  <2>1. batch' = [batch EXCEPT !.pc = "next", !.saved = FALSE]
    BY <1>1 DEF CommitTenth
  <2>2. batch' \in Batch /\ batch'.saved = FALSE /\ batch'.pc = "next"
    BY <2>1 DEF IndexInv, IndexTypeOK, Batch
  <2> QED
    BY <1>1, <2>2, CommitKeeps DEF CommitTenth
<1>2. CASE EndBatch
  BY <1>2, NoBatchType, CommitKeeps DEF EndBatch
<1> QED
  BY <1>1, <1>2

LEMMA ReadEntryKeeps ==
    ASSUME IndexInv, ReadEntry
    PROVE  IndexInv'
<1>1. PICK t \in Text \ {record.text} :
        editor' = [pc |-> "read", text |-> t, blank |-> (record.vector = None)]
  BY DEF ReadEntry
<1>2. editor' \in Editor /\ editor'.text = t /\ editor'.blank = (record.vector = None)
  BY <1>1 DEF Editor
<1>3. UNCHANGED <<record, batch, consent, late, overtaken>>
  BY DEF ReadEntry
<1>4. Copied' /\ Reading'
  BY <1>2, <1>3 DEF Copied, Reading
<1> QED
  BY <1>2, <1>3, <1>4
     DEF IndexInv, IndexTypeOK, RecordInv, Locked, OneLate, LateVectorIsDropped, Outdated

\* The lock keeps an edit out between a vector that is written and its commit; after it, an
\* edit that read before leaves the vector, and has been remembered.
LEMMA WriteEntryKeeps ==
    ASSUME IndexInv, WriteEntry
    PROVE  IndexInv'
<1>1. /\ editor.pc = "read" /\ ~batch.saved /\ editor' = NoEditor
      /\ record' = [text |-> editor.text,
                    vector |-> IF editor.blank THEN record.vector ELSE None]
      /\ UNCHANGED <<batch, consent, late, overtaken>>
  BY DEF WriteEntry
<1>2. NoEditor \in Editor /\ NoEditor.pc = "idle"
  BY DEF NoEditor, Editor
<1>3. record' \in Record /\ record'.vector = IF editor.blank THEN record.vector ELSE None
  BY <1>1 DEF IndexInv, IndexTypeOK, Reading, Record
<1>4. IndexTypeOK'
  BY <1>1, <1>2, <1>3 DEF IndexInv, IndexTypeOK
<1>5. Locked' /\ OneLate' /\ Reading' /\ Copied'
  BY <1>1, <1>2 DEF IndexInv, Locked, OneLate, Reading, Copied
<1>6. LateVectorIsDropped'
  BY <1>1, <1>3 DEF IndexInv, RecordInv, Copied, LateVectorIsDropped, Outdated
<1> QED
  BY <1>4, <1>5, <1>6 DEF IndexInv, RecordInv

LEMMA WithdrawKeeps ==
    ASSUME IndexInv, Withdraw
    PROVE  IndexInv'
BY DEF Withdraw, IndexInv, IndexTypeOK, Reading, RecordInv, Locked, Copied, OneLate,
       LateVectorIsDropped, Outdated

LEMMA GivingUpKeeps ==
    ASSUME IndexInv, BatchFails \/ EditFails \/ ProcessEnds
    PROVE  IndexInv'
<1>1. UNCHANGED <<record, consent, late, overtaken>>
  BY DEF BatchFails, EditFails, ProcessEnds
<1>2. batch' = batch \/ batch' = NoBatch
  BY DEF BatchFails, EditFails, ProcessEnds
<1>3. editor' = editor \/ editor' = NoEditor
  BY DEF BatchFails, EditFails, ProcessEnds
<1>4. batch' \in Batch
  BY <1>2, NoBatchType DEF IndexInv, IndexTypeOK
<1>5. batch'.saved => batch.saved /\ batch'.copy = batch.copy
  BY <1>2, NoBatchType
<1>6. batch'.pc = "checked" => batch.pc = "checked"
  BY <1>2, NoBatchType
<1> QED
  BY <1>1, <1>3, <1>4, <1>5, <1>6, LettingGo

LEMMA IndexStep == IndexInv /\ [IndexNext]_indexVars => IndexInv'
<1> SUFFICES ASSUME IndexInv, [IndexNext]_indexVars PROVE IndexInv'
  OBVIOUS
<1>1. CASE IndexJob
  <2>1. CASE ReadBatch \/ CheckConsent \/ SendText \/ Embedded
    BY <2>1, ReadBatchKeeps, CheckKeeps, SendKeeps, EmbeddedKeeps
  <2>2. CASE EmbeddingFails \/ GoOn \/ CommitTenth \/ EndBatch \/ BatchFails
    BY <2>2, WithoutAnswerKeeps, CommittingKeeps, GivingUpKeeps
  <2> QED
    BY <1>1, <2>1, <2>2 DEF IndexJob
<1>2. CASE ReadEntry \/ WriteEntry \/ EditFails \/ Withdraw \/ ProcessEnds
  BY <1>2, ReadEntryKeeps, WriteEntryKeeps, WithdrawKeeps, GivingUpKeeps
<1>3. CASE UNCHANGED indexVars
  BY <1>3 DEF indexVars, IndexInv, IndexTypeOK, Reading, RecordInv, Locked, Copied, OneLate,
              LateVectorIsDropped, Outdated
<1> QED
  BY <1>1, <1>2, <1>3 DEF IndexNext

LEMMA IndexInitInv == IndexInit => IndexInv
<1> SUFFICES ASSUME IndexInit PROVE IndexInv
  OBVIOUS
<1>1. NoEditor \in Editor /\ NoEditor.pc = "idle"
  BY DEF NoEditor, Editor
<1>2. record \in Record /\ record.vector = None
  BY DEF IndexInit, Record
<1>3. IndexTypeOK
  <2>1. consent \in BOOLEAN /\ overtaken \in BOOLEAN /\ late \in Nat
    BY DEF IndexInit
  <2> QED
    BY <1>1, <1>2, <2>1, NoBatchType DEF IndexInit, IndexTypeOK
<1> QED
  BY <1>1, <1>2, <1>3, NoBatchType
     DEF IndexInit, IndexInv, Reading, RecordInv, Locked, Copied, OneLate, LateVectorIsDropped,
         Outdated

--------------------------------------------------------------------------------
(* The theorems                                                                 *)

\* The backup's invariant holds for every number of slots and faults and every retention.
THEOREM Invariance == BackupSpec => []Inv
BY InitInv, InvStep, PTL DEF BackupSpec

\* Once a backup succeeded, failures, stops, kills at any point and rotations never leave the
\* disk without a whole archive, unless a rotation raised after it had begun to delete, and
\* then only until the next backup succeeds (scheduler/backup.py:169-343).
THEOREM RecoveryPointStays == BackupSpec => []RecoveryPointKept
<1>1. Inv => RecoveryPointKept
  BY DEF Inv, KeptBeside, RecoveryPointKept, Verified
<1> QED
  BY <1>1, Invariance, PTL

THEOREM IndexInvariance == IndexSpec => []IndexInv
BY IndexInitInv, IndexStep, PTL DEF IndexSpec

\* A record has the vector of an older text only when that vector was committed while the
\* edit had read the row and not written it: neither a late answer nor a batch that was read
\* long ago does it (scheduler/reindex.py:38-66, db/crud/memoir.py:23-37).
THEOREM LateVectorsAreDropped == IndexSpec => []VectorsAreExplained
<1>1. IndexInv => VectorsAreExplained
  BY DEF IndexInv, RecordInv, VectorsAreExplained
<1> QED
  BY <1>1, IndexInvariance, PTL

\* However long the batch is, at most one record goes out after the withdrawal
\* (scheduler/reindex.py:47-53).
THEOREM WithdrawalStops == IndexSpec => []WithdrawalStopsTheBatch
<1>1. IndexInv => WithdrawalStopsTheBatch
  BY DEF IndexInv, OneLate, WithdrawalStopsTheBatch
<1> QED
  BY <1>1, IndexInvariance, PTL
================================================================================
