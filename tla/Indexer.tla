-------------------------------- MODULE Indexer ---------------------------------
(***************************************************************************)
(* The indexer, which sends records that have no vector to the embedding   *)
(* provider in batches, and the person who answers the memoir question     *)
(* again and so edits one of those records.                                *)
(*                                                                         *)
(* The two meet in the database.  The indexer saves a vector where the     *)
(* text is still the one it sent, and commits after every tenth record and *)
(* at the end: until then the row is locked and the vector is visible to   *)
(* nobody else.  The editor reads the row without a lock, changes its copy *)
(* and has the ORM write the columns that differ from the copy.            *)
(***************************************************************************)
EXTENDS Naturals

CONSTANTS
    Limit,      \* records the indexer reads into one batch
    Text,       \* the texts the record can have
    None        \* no vector

ASSUME IndexerAssumption == Limit \in Nat /\ None \notin Text

VARIABLES
    record,     \* the edited record as committed: its text, and the text its vector was made of
    batch,      \* the batch: its step, the records left, and what it knows of the record
    editor,     \* the handler of an edit: the new text, and whether its copy has no vector
    consent,    \* the person allows the cloud
    late,       \* history: records sent after the person withdrew
    overtaken   \* history: the vector was committed while an edit had read and not written

indexVars == <<record, batch, editor, consent, late, overtaken>>

Record == [text : Text, vector : Text \cup {None}]

\* ahead: the record is among those left.  at: it is the one at work.  copy: its text when
\* the batch was read.  saved: its vector is written and not committed.
Batch == [pc : {"idle", "next", "checked", "sent", "answered"}, todo : 0..Limit,
          ahead : BOOLEAN, at : BOOLEAN, copy : Text \cup {None}, saved : BOOLEAN]

NoBatch == [pc |-> "idle", todo |-> 0, ahead |-> FALSE, at |-> FALSE, copy |-> None,
            saved |-> FALSE]

Editor == [pc : {"idle", "read"}, text : Text \cup {None}, blank : BOOLEAN]

NoEditor == [pc |-> "idle", text |-> None, blank |-> FALSE]

IndexInit ==
    /\ record \in [text : Text, vector : {None}]
    /\ batch = NoBatch /\ editor = NoEditor
    /\ consent = TRUE /\ late = 0 /\ overtaken = FALSE

----------------------------------------------------------------------------
(* The indexer                                                             *)

\* At most Limit records without a vector, of people who allow the cloud.
ReadBatch ==
    /\ batch = NoBatch /\ consent
    /\ \E n \in 1..Limit, ours \in BOOLEAN :
          /\ ours => record.vector = None
          /\ batch' = [NoBatch EXCEPT !.pc = "next", !.todo = n, !.ahead = ours,
                                      !.copy = IF ours THEN record.text ELSE None]
    /\ UNCHANGED <<record, editor, consent, late, overtaken>>

\* The next record; the batch may have the one that is edited at any place.
Taken(pc) ==
    {[batch EXCEPT !.pc = pc, !.todo = @ - 1, !.at = ours, !.ahead = batch.ahead /\ ~ours] :
        ours \in {x \in BOOLEAN : /\ x => batch.ahead
                                  /\ batch.ahead /\ batch.todo = 1 => x}}

\* Mutant: the consent the batch was read under is good for all of it.
CheckBatchOnly ==
    /\ batch.pc = "next" /\ batch.todo > 0
    /\ batch' \in Taken("checked")
    /\ UNCHANGED <<record, editor, consent, late, overtaken>>

\* The consent is read again for each record, and a record without it is skipped.
CheckConsent ==
    /\ batch.pc = "next" /\ batch.todo > 0
    /\ batch' \in Taken(IF consent THEN "checked" ELSE "next")
    /\ UNCHANGED <<record, editor, consent, late, overtaken>>

\* The answer to that read was on its way while the person withdrew.
SendText ==
    /\ batch.pc = "checked" /\ batch' = [batch EXCEPT !.pc = "sent"]
    /\ late' = IF consent THEN late ELSE late + 1
    /\ UNCHANGED <<record, editor, consent, overtaken>>

\* Mutant: the vector is saved whatever the text is now.
SavedAnyway == batch.at

\* The vector is written where the text is still the one that was sent.
Saved == batch.at /\ record.text = batch.copy

\* The provider answers, and the row with its vector stays locked.
Embedded ==
    /\ batch.pc = "sent" /\ batch' = [batch EXCEPT !.pc = "answered", !.saved = @ \/ Saved]
    /\ UNCHANGED <<record, editor, consent, late, overtaken>>

\* The provider refuses, or the statement fails and takes back what was written since the
\* last commit: the record is left for a later batch.
EmbeddingFails ==
    /\ batch.pc = "sent"
    /\ \E kept \in {batch.saved, FALSE} : batch' = [batch EXCEPT !.pc = "answered", !.saved = kept]
    /\ UNCHANGED <<record, editor, consent, late, overtaken>>

\* What was written becomes visible.
Commit ==
    /\ record' = IF batch.saved THEN [record EXCEPT !.vector = batch.copy] ELSE record
    /\ overtaken' = IF batch.saved THEN editor.pc = "read" ELSE overtaken

\* After a record: every tenth ends with a commit, the others do not.
GoOn ==
    /\ batch.pc = "answered" /\ batch' = [batch EXCEPT !.pc = "next"]
    /\ UNCHANGED <<record, editor, consent, late, overtaken>>

CommitTenth ==
    /\ batch.pc = "answered" /\ batch' = [batch EXCEPT !.pc = "next", !.saved = FALSE]
    /\ Commit
    /\ UNCHANGED <<editor, consent, late>>

EndBatch ==
    /\ batch.pc = "next" /\ batch.todo = 0 /\ batch' = NoBatch
    /\ Commit
    /\ UNCHANGED <<editor, consent, late>>

\* A commit fails: what was written since the last one is rolled back.
BatchFails ==
    /\ batch # NoBatch /\ batch' = NoBatch
    /\ UNCHANGED <<record, editor, consent, late, overtaken>>

----------------------------------------------------------------------------
(* The person                                                              *)

\* create_memoir_entry reads the row as committed; the same text changes nothing.
ReadEntry ==
    /\ editor = NoEditor
    /\ \E t \in Text \ {record.text} :
          editor' = [pc |-> "read", text |-> t, blank |-> record.vector = None]
    /\ UNCHANGED <<record, batch, consent, late, overtaken>>

\* The ORM writes what differs from the copy: the text, and that there is no vector only when
\* the copy had one.  A row that the indexer has written is waited for.
WriteEntry ==
    /\ editor.pc = "read" /\ ~batch.saved
    /\ record' = [text |-> editor.text, vector |-> IF editor.blank THEN record.vector ELSE None]
    /\ editor' = NoEditor
    /\ UNCHANGED <<batch, consent, late, overtaken>>

\* The diary entry or the dialogue beside it cannot be written, and all is rolled back.
EditFails ==
    /\ editor.pc = "read" /\ editor' = NoEditor
    /\ UNCHANGED <<record, batch, consent, late, overtaken>>

Withdraw ==
    /\ consent /\ consent' = FALSE
    /\ UNCHANGED <<record, batch, editor, late, overtaken>>

\* The process stops or is killed: neither transaction is committed.
ProcessEnds ==
    /\ batch' = NoBatch /\ editor' = NoEditor
    /\ UNCHANGED <<record, consent, late, overtaken>>

----------------------------------------------------------------------------
IndexJob == ReadBatch \/ CheckConsent \/ SendText \/ Embedded \/ EmbeddingFails
            \/ GoOn \/ CommitTenth \/ EndBatch \/ BatchFails

IndexNext == IndexJob \/ ReadEntry \/ WriteEntry \/ EditFails \/ Withdraw \/ ProcessEnds

IndexSpec == IndexInit /\ [][IndexNext]_indexVars

----------------------------------------------------------------------------
(* Properties                                                              *)

IndexTypeOK ==
    /\ record \in Record /\ batch \in Batch /\ editor \in Editor
    /\ consent \in BOOLEAN /\ late \in Nat /\ overtaken \in BOOLEAN

Outdated == record.vector \notin {None, record.text}

\* A vector that reached the database after its text was edited is never there: a record has
\* the vector of an older text only when the vector was committed between the read and the
\* write of that one edit (reindex.py:54-61 against db/crud/memoir.py:23-37).
LateVectorIsDropped == Outdated => overtaken

VectorsAreExplained == IndexTypeOK /\ LateVectorIsDropped

\* What the documents say without the exception: an edit takes the old vector away
\* (docs/REMEDIATION_2026-09-07.md:44).
VectorMatchesText == ~Outdated

\* After the person withdrew, at most the record whose check was under way still goes out
\* (docs/PRIVACY.md:32-34).
WithdrawalStopsTheBatch == late <= 1
================================================================================
