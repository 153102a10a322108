------------------------------ MODULE Install ------------------------------
(***************************************************************************)
(* How subsyncd publishes, replaces and removes one managed subtitle:      *)
(* Installer.Install and Installer.RemoveManaged (internal/workflow), the  *)
(* installations and pending_installs rows they write (internal/store) and *)
(* the startup sweep that settles what a crash interrupted.                *)
(*                                                                         *)
(* The model has one media file and language, so one destination, one      *)
(* installations row and any number of pending_installs rows.  Each run    *)
(* owns three hidden names beside the destination: its staged subtitle,    *)
(* its rollback copy of the subtitle it replaces and the name a removal    *)
(* moves the subtitle to.  A filesystem call or a database statement is    *)
(* one action; the owner of the library, other runs and a crash come in    *)
(* between.  A checksum is the text it stands for, an inode the run whose  *)
(* staging created it.                                                     *)
(*                                                                         *)
(* A failed check, call or statement is a fault a run may take at any      *)
(* point: a media file that changed, a full disk, an injected stage        *)
(* failure.  Contents are validated before any of this and are not         *)
(* modelled; nor are notifications.                                        *)
(***************************************************************************)
EXTENDS Integers, FiniteSets

CONSTANTS
    Runs,           \* installs and removals, each at most once
    Texts,          \* subtitle texts that providers offer
    OwnText,        \* what the owner of the library writes
    NoRun,          \* an empty rollback_path
    HardLinks,      \* the filesystem has hard links
    Overlap,        \* a run may begin while an abandoned one is going on
    QuietOwner,     \* the owner leaves a subtitle alone while it is published
    RemovalLingers, \* a removal may end, or the sweep pass, with its row left over
    MaxOwner,       \* bound: writes and deletions by the owner
    MaxFaults       \* bound: crashes, abandoned jobs and failed calls

ASSUME RunAssumption == NoRun \notin Runs

ASSUME TextAssumption == OwnText \notin Texts

ASSUME FlagAssumption ==
    /\ HardLinks \in BOOLEAN /\ Overlap \in BOOLEAN /\ QuietOwner \in BOOLEAN
    /\ RemovalLingers \in BOOLEAN
    /\ MaxOwner \in Nat /\ MaxFaults \in Nat

VARIABLES
    dest,           \* the file at the destination
    staged,         \* .subsyncd-stage-*, for each run
    copy,           \* .subsyncd-rollback-*, for each run
    aside,          \* .subsyncd-removing-*, for each run
    record,         \* the installations row
    pending,        \* the pending_installs row of each run
    nextRow,        \* the next pending_installs id
    run,            \* what each run holds in memory
    mode,           \* the daemon is "up" or "starting"
    acts,           \* writes and deletions by the owner so far
    lost,           \* history: the owner deleted the subtitle, none was recorded since
    faults          \* faults so far

vars == <<dest, staged, copy, aside, record, pending, nextRow, run, mode, acts, lost, faults>>

hidden == <<staged, copy, aside>>

-----------------------------------------------------------------------------
(* Files, rows and runs *)

AllTexts == Texts \cup {OwnText}

\* "none" as the kind of a file or a row means that there is none.
NoFile == [node |-> NoRun, kind |-> "none", text |-> OwnText]

FileType == {NoFile} \cup [node : Runs \cup {NoRun}, kind : {"stage", "copy", "own"},
                           text : AllTexts]

File(r, kind, text) == [node |-> r, kind |-> kind, text |-> text]

\* A row names the checksum, the candidate (the run that first offered it) and
\* the rollback copy.
RecordType == [found : BOOLEAN, text : AllTexts, candidate : Runs \cup {NoRun},
               rollback : Runs \cup {NoRun}]

NoRecord == [found |-> FALSE, text |-> OwnText, candidate |-> NoRun, rollback |-> NoRun]

RowType == [kind : {"none", "install", "remove"}, id : Nat, text : AllTexts,
            copied : BOOLEAN, old : Runs \cup {NoRun}]

NoRow == [kind |-> "none", id |-> 0, text |-> OwnText, copied |-> FALSE, old |-> NoRun]

Phases == {"new", "read", "checked", "identical", "staged", "copied", "pending",
           "verified", "published", "recorded", "discarded",
           "undo", "undoing", "kept", "settling",
           "removing", "listed", "moved", "removed", "returning",
           "done", "dead", "swept", "skipped"}

Finished == {"new", "done", "dead"}

RunType == [phase : Phases, text : AllTexts, existing : RecordType, replacing : BOOLEAN,
            published : BOOLEAN, cancelled : BOOLEAN]

NewRun == [phase |-> "new", text |-> OwnText, existing |-> NoRecord, replacing |-> FALSE,
           published |-> FALSE, cancelled |-> FALSE]

\* The sidecar is subsyncd's while its checksum matches the row.
Matches(file, row) == file # NoFile /\ row.found /\ file.text = row.text

\* A run is going on.
Active(r) == run[r].phase \notin Finished

Quiescent ==
    /\ mode = "up"
    /\ \A r \in Runs : ~Active(r) /\ pending[r] = NoRow

\* A run goes on to a phase; at its end it forgets what it holds.
GoTo(r, phase) ==
    run' = [run EXCEPT ![r] = IF phase = "done" THEN [NewRun EXCEPT !.phase = "done"]
                                                ELSE [@ EXCEPT !.phase = phase]]

-----------------------------------------------------------------------------
(* Initial state: nothing installed, or a subtitle of an earlier process *)

Init ==
    /\ \/ dest = NoFile /\ record = NoRecord
       \/ \E t \in Texts : /\ dest = File(NoRun, "stage", t)
                           /\ record = [NoRecord EXCEPT !.found = TRUE, !.text = t]
    /\ staged = [r \in Runs |-> NoFile]
    /\ copy = [r \in Runs |-> NoFile]
    /\ aside = [r \in Runs |-> NoFile]
    /\ pending = [r \in Runs |-> NoRow]
    /\ nextRow = 1
    /\ run = [r \in Runs |-> NewRun]
    /\ mode = "up"
    /\ acts = 0
    /\ lost = FALSE
    /\ faults = 0

-----------------------------------------------------------------------------
(* Installing *)

\* A run begins once the run before it has ended, or was abandoned.
MayBegin(r) ==
    /\ mode = "up" /\ run[r].phase = "new"
    /\ \A o \in Runs \ {r} : Active(o) => Overlap /\ run[o].cancelled

\* GetInstallation, with the subtitle already validated.
GetInstallation(r, text) ==
    /\ MayBegin(r)
    /\ run' = [run EXCEPT ![r] = [NewRun EXCEPT !.phase = "read", !.text = text,
                                                !.existing = record]]
    /\ UNCHANGED <<dest, hidden, record, pending, nextRow, mode, acts, lost, faults>>

\* replacementState: an absent destination is a first install, the recorded
\* subtitle a replacement, anything else the owner's.
ReplacementState(r) ==
    /\ run[r].phase = "read"
    /\ \/ /\ dest = NoFile
          /\ GoTo(r, "checked")
       \/ /\ dest # NoFile /\ ~Matches(dest, run[r].existing)
          /\ GoTo(r, "done")
       \/ /\ Matches(dest, run[r].existing)
          /\ run' = [run EXCEPT ![r].phase = IF run[r].text = run[r].existing.text
                                             THEN "identical" ELSE "checked",
                                ![r].replacing = TRUE]
    /\ UNCHANGED <<dest, hidden, record, pending, nextRow, mode, acts, lost, faults>>

\* refreshIdenticalInstallation: the same bytes from a better candidate only
\* rewrite the record, once the file and the context were checked again.
RefreshIdentical(r) ==
    /\ run[r].phase = "identical"
    /\ GoTo(r, "done")
    /\ IF Matches(dest, run[r].existing) /\ ~run[r].cancelled
       THEN record' = [run[r].existing EXCEPT !.candidate = r]
       ELSE UNCHANGED record
    /\ UNCHANGED <<dest, hidden, pending, nextRow, mode, acts, lost, faults>>

\* CreateTemp, write, fsync, chmod and stat of the staged subtitle.
StageSubtitle(r) ==
    /\ run[r].phase = "checked"
    /\ staged' = [staged EXCEPT ![r] = File(r, "stage", run[r].text)]
    /\ GoTo(r, IF run[r].replacing THEN "staged" ELSE "copied")
    /\ UNCHANGED <<dest, copy, aside, record, pending, nextRow, mode, acts, lost, faults>>

\* copyRollback keeps the text found at the destination; a missing file fails.
CopyRollback(r) ==
    /\ run[r].phase = "staged"
    /\ IF dest = NoFile
       THEN /\ staged' = [staged EXCEPT ![r] = NoFile]
            /\ GoTo(r, "done")
            /\ UNCHANGED copy
       ELSE /\ copy' = [copy EXCEPT ![r] = File(r, "copy", dest.text)]
            /\ GoTo(r, "copied")
            /\ UNCHANGED staged
    /\ UNCHANGED <<dest, aside, record, pending, nextRow, mode, acts, lost, faults>>

\* BeginPendingInstall; a cancelled context fails it and staging is removed.
BeginPendingInstall(r) ==
    /\ run[r].phase = "copied"
    /\ IF run[r].cancelled
       THEN /\ staged' = [staged EXCEPT ![r] = NoFile]
            /\ copy' = [copy EXCEPT ![r] = NoFile]
            /\ GoTo(r, "done")
            /\ UNCHANGED <<pending, nextRow>>
       ELSE /\ pending' = [pending EXCEPT ![r] =
                    [kind |-> "install", id |-> nextRow, text |-> run[r].text,
                     copied |-> run[r].replacing, old |-> NoRun]]
            /\ nextRow' = nextRow + 1
            /\ GoTo(r, "pending")
            /\ UNCHANGED <<staged, copy>>
    /\ UNCHANGED <<dest, aside, record, mode, acts, lost, faults>>

\* verifyReplacementUnchanged.
ReplacementUnchanged(r) ==
    IF run[r].replacing THEN Matches(dest, run[r].existing) ELSE dest = NoFile

\* The last checks before publication: the destination, then the context.
VerifyUnchanged(r) ==
    /\ run[r].phase = "pending"
    /\ GoTo(r, IF ReplacementUnchanged(r) /\ ~run[r].cancelled THEN "verified" ELSE "undo")
    /\ UNCHANGED <<dest, hidden, record, pending, nextRow, mode, acts, lost, faults>>

\* The hard link of a first install fails on a file that appeared meanwhile.
PublicationBlocked(r) == ~run[r].replacing /\ HardLinks /\ dest # NoFile

\* publishStaged: a link for a first install, a rename otherwise.
PublishStaged(r) ==
    /\ run[r].phase = "verified"
    /\ IF PublicationBlocked(r)
       THEN /\ GoTo(r, "undo")
            /\ UNCHANGED <<dest, staged>>
       ELSE /\ dest' = staged[r]
            /\ run' = [run EXCEPT ![r].phase = "published", ![r].published = TRUE]
            /\ \/ staged' = [staged EXCEPT ![r] = NoFile]
               \/ ~run[r].replacing /\ HardLinks /\ UNCHANGED staged
    /\ UNCHANGED <<copy, aside, record, pending, nextRow, mode, acts, lost, faults>>

\* RecordInstallationWithNotifications: the row is written over any other and
\* the pending row goes in the same transaction.  A cancelled context fails it.
RecordInstallation(r) ==
    /\ run[r].phase = "published"
    /\ IF run[r].cancelled
       THEN GoTo(r, "undo") /\ UNCHANGED <<record, pending>>
       ELSE /\ \E c \in {r, run[r].existing.candidate} :
                   record' = [found |-> TRUE, text |-> run[r].text, candidate |-> c,
                              rollback |-> IF run[r].replacing THEN r ELSE NoRun]
            /\ pending' = [pending EXCEPT ![r] = NoRow]
            /\ GoTo(r, "recorded")
    /\ lost' = (lost /\ run[r].cancelled)
    /\ UNCHANGED <<dest, hidden, nextRow, mode, acts, faults>>

\* After the commit: the copy an older install kept, this run's own copy and a
\* leftover staging name are deleted.
DiscardCopies(r) ==
    /\ run[r].phase = "recorded"
    /\ copy' = [o \in Runs |-> IF o \in {r, run[r].existing.rollback} THEN NoFile ELSE copy[o]]
    /\ staged' = [staged EXCEPT ![r] = NoFile]
    /\ GoTo(r, "discarded")
    /\ UNCHANGED <<dest, aside, record, pending, nextRow, mode, acts, lost, faults>>

\* ClearInstallationRollback: only while the record still names that copy.
ClearInstallationRollback(r) ==
    /\ run[r].phase = "discarded"
    /\ record' = IF record.rollback = r THEN [record EXCEPT !.rollback = NoRun] ELSE record
    /\ GoTo(r, "done")
    /\ UNCHANGED <<dest, hidden, pending, nextRow, mode, acts, lost, faults>>

-----------------------------------------------------------------------------
(* Undoing a failed install *)

\* Faulty variant: the file a run published is recognised by its name alone.
OwnsAnyPublication(r) == dest # NoFile

\* ownsPublication: the destination is still the file this run published, by
\* inode, and no other installation was recorded since a replacement began.
OwnsPublication(r) ==
    /\ dest.node = r /\ dest.kind = "stage"
    /\ run[r].replacing => record = run[r].existing

\* restore: decides whether there is a publication to take back.
CheckOwned(r) ==
    /\ run[r].phase = "undo"
    /\ GoTo(r, IF run[r].published /\ OwnsPublication(r) THEN "undoing" ELSE "kept")
    /\ UNCHANGED <<dest, hidden, record, pending, nextRow, mode, acts, lost, faults>>

\* Faulty variant: the copy is deleted with the publication.
UndoneWithoutCopy(r) == NoFile

\* Faulty variant: the record is written back in place of the file.
UndoneFromRecord(r) == run[r].existing

\* What the destination holds once the publication is taken back.
Undone(r) == IF run[r].replacing THEN copy[r] ELSE NoFile

\* restore takes the publication back: it removes a new sidecar or renames the
\* rollback copy over it.  What cannot be undone keeps its pending row.
UndoPublication(r) ==
    /\ run[r].phase = "undoing"
    /\ staged' = [staged EXCEPT ![r] = NoFile]
    /\ IF (IF run[r].replacing THEN copy[r] = NoFile ELSE dest = NoFile)
       THEN GoTo(r, "done") /\ UNCHANGED <<dest, copy>>
       ELSE /\ dest' = Undone(r)
            /\ copy' = [copy EXCEPT ![r] = NoFile]
            /\ GoTo(r, "settling")
    /\ UNCHANGED <<aside, record, pending, nextRow, mode, acts, lost, faults>>

\* restore leaves a destination that is not this run's: only its own hidden
\* files go.
KeepDestination(r) ==
    /\ run[r].phase = "kept"
    /\ staged' = [staged EXCEPT ![r] = NoFile]
    /\ copy' = [copy EXCEPT ![r] = NoFile]
    /\ GoTo(r, "settling")
    /\ UNCHANGED <<dest, aside, record, pending, nextRow, mode, acts, lost, faults>>

\* FinishPendingInstall, which a cancelled context does not stop.
FinishPendingInstall(r) ==
    /\ run[r].phase = "settling"
    /\ pending' = [pending EXCEPT ![r] = NoRow]
    /\ GoTo(r, "done")
    /\ UNCHANGED <<dest, hidden, record, nextRow, mode, acts, lost, faults>>

-----------------------------------------------------------------------------
(* Removing a managed subtitle *)

\* RemoveManaged of the installation that its caller read.
BeginRemoval(r) ==
    /\ MayBegin(r)
    /\ record.found
    /\ run' = [run EXCEPT ![r] = [NewRun EXCEPT !.phase = "removing", !.existing = record]]
    /\ UNCHANGED <<dest, hidden, record, pending, nextRow, mode, acts, lost, faults>>

\* An unedited subtitle and a live context: the removal's pending row names
\* the hidden file and the old rollback copy.
ListRemoval(r) ==
    /\ run[r].phase = "removing"
    /\ IF Matches(dest, run[r].existing) /\ ~run[r].cancelled
       THEN /\ pending' = [pending EXCEPT ![r] =
                    [kind |-> "remove", id |-> nextRow, text |-> run[r].existing.text,
                     copied |-> FALSE, old |-> run[r].existing.rollback]]
            /\ nextRow' = nextRow + 1
            /\ GoTo(r, "listed")
       ELSE GoTo(r, "done") /\ UNCHANGED <<pending, nextRow>>
    /\ UNCHANGED <<dest, hidden, record, mode, acts, lost, faults>>

\* The rename to the hidden name takes whatever is at the destination.
MoveAside(r) ==
    /\ run[r].phase = "listed"
    /\ IF dest = NoFile
       THEN /\ pending' = [pending EXCEPT ![r] = NoRow]
            /\ GoTo(r, "done")
            /\ UNCHANGED <<dest, aside>>
       ELSE /\ aside' = [aside EXCEPT ![r] = dest]
            /\ dest' = NoFile
            /\ GoTo(r, "moved")
            /\ UNCHANGED pending
    /\ UNCHANGED <<staged, copy, record, nextRow, mode, acts, lost, faults>>

\* Faulty variant: the file that was moved is not compared again.
RemovalAppliesUnchecked(r) == ~run[r].cancelled /\ record = run[r].existing

\* The moved file is still the recorded one and the guarded DELETE finds the
\* record that was read.
RemovalApplies(r) ==
    /\ Matches(aside[r], run[r].existing)
    /\ ~run[r].cancelled
    /\ record = run[r].existing

\* RemoveInstallation.
CommitRemoval(r) ==
    /\ run[r].phase = "moved"
    /\ IF RemovalApplies(r) THEN record' = NoRecord /\ GoTo(r, "removed")
                            ELSE UNCHANGED record /\ GoTo(r, "returning")
    /\ UNCHANGED <<dest, hidden, pending, nextRow, mode, acts, lost, faults>>

\* The record is gone: the hidden file and the old rollback copy go too.
CleanUpRemoval(r) ==
    /\ run[r].phase = "removed"
    /\ aside' = [aside EXCEPT ![r] = NoFile]
    /\ copy' = [o \in Runs |-> IF o = run[r].existing.rollback THEN NoFile ELSE copy[o]]
    /\ GoTo(r, "settling")
    /\ UNCHANGED <<dest, staged, record, pending, nextRow, mode, acts, lost, faults>>

\* restoreRemoved links the subtitle back, never over a new file; otherwise
\* the removal ends with its pending row left over.
RestoreRemoved(r) ==
    /\ run[r].phase = "returning"
    /\ dest # NoFile => RemovalLingers
    /\ IF dest = NoFile
       THEN /\ dest' = aside[r]
            /\ aside' = [aside EXCEPT ![r] = NoFile]
            /\ GoTo(r, "settling")
       ELSE GoTo(r, "done") /\ UNCHANGED <<dest, aside>>
    /\ UNCHANGED <<staged, copy, record, pending, nextRow, mode, acts, lost, faults>>

-----------------------------------------------------------------------------
(* Faults *)

Fault == faults < MaxFaults /\ faults' = faults + 1

\* A failure before the pending row is written removes what was staged.
FailStaging(r) ==
    /\ Fault
    /\ run[r].phase \in {"checked", "staged", "copied", "identical", "removing"}
    /\ staged' = [staged EXCEPT ![r] = NoFile]
    /\ copy' = [copy EXCEPT ![r] = NoFile]
    /\ GoTo(r, "done")
    /\ UNCHANGED <<dest, aside, record, pending, nextRow, mode, acts, lost>>

\* A failure after it is undone.
FailInstall(r) ==
    /\ Fault
    /\ \/ run[r].phase \in {"pending", "verified", "published"} /\ GoTo(r, "undo")
       \/ run[r].phase = "moved" /\ GoTo(r, "returning")
    /\ UNCHANGED <<dest, hidden, record, pending, nextRow, mode, acts, lost>>

\* A destination that cannot be inspected: a first install is taken back all
\* the same, a replacement keeps the destination, its copy and its row.  The
\* code accepts that an outside writer's file then goes too; a quiet owner has
\* not put one there.
UnknownDestination(r) ==
    /\ Fault
    /\ run[r].phase = "undo" /\ run[r].published
    /\ QuietOwner => run[r].replacing \/ OwnsPublication(r)
    /\ IF run[r].replacing
       THEN GoTo(r, "done") /\ staged' = [staged EXCEPT ![r] = NoFile]
       ELSE GoTo(r, "undoing") /\ UNCHANGED staged
    /\ UNCHANGED <<dest, copy, aside, record, pending, nextRow, mode, acts, lost>>

\* Undoing, returning or cleaning up fails: what is left is for the next start.
FailCleanup(r) ==
    /\ Fault
    /\ run[r].phase \in {"undoing", "kept", "settling", "recorded", "discarded",
                          "removed", "returning"}
    /\ pending[r].kind = "remove" => RemovalLingers
    /\ staged' = [staged EXCEPT ![r] = NoFile]
    /\ GoTo(r, "done")
    /\ UNCHANGED <<dest, copy, aside, record, pending, nextRow, mode, acts, lost>>

\* The job passes its time limit or loses its lease: its context ends, and the
\* run goes on for as long as a filesystem call blocks it.
Abandon(r) ==
    /\ Fault
    /\ Active(r) /\ mode = "up" /\ ~run[r].cancelled
    /\ run' = [run EXCEPT ![r].cancelled = TRUE]
    /\ UNCHANGED <<dest, hidden, record, pending, nextRow, mode, acts, lost>>

\* The process dies: the files and the rows are what is left.
Crash ==
    /\ Fault
    /\ run' = [r \in Runs |-> IF Active(r) THEN [NewRun EXCEPT !.phase = "dead"] ELSE run[r]]
    /\ mode' = "starting"
    /\ UNCHANGED <<dest, hidden, record, pending, nextRow, acts, lost>>

-----------------------------------------------------------------------------
(* The startup sweep *)

\* RecoverPendingInstalls settles the rows in the order of their ids.
Sweeping(r) ==
    /\ mode = "starting"
    /\ pending[r] # NoRow /\ run[r].phase \notin {"swept", "skipped"}
    /\ \A o \in Runs : pending[o] # NoRow /\ pending[o].id < pending[r].id
                        => run[o].phase = "skipped"

\* pendingPublicationOwned: the same inode and checksum.
PendingPublicationOwned(r) ==
    dest.node = r /\ dest.kind = "stage" /\ dest.text = pending[r].text

\* recoverPendingInstall of an install: a recorded one is kept, an unrecorded
\* publication is undone, and hidden files go.
RecoverInstall(r) ==
    LET row == pending[r]
        recorded == record.found /\ record.text = row.text
        owned == ~recorded /\ PendingPublicationOwned(r)
    IN
    /\ Sweeping(r) /\ row.kind = "install"
    /\ dest' = IF ~owned THEN dest ELSE IF row.copied THEN copy[r] ELSE NoFile
    /\ staged' = [staged EXCEPT ![r] = NoFile]
    /\ copy' = [copy EXCEPT ![r] = IF recorded THEN @ ELSE NoFile]
    /\ run' = [run EXCEPT ![r].phase = "swept"]
    /\ UNCHANGED <<aside, record, pending, nextRow, mode, acts, lost, faults>>

\* Whether the record that a removal deletes is gone.
RemovalCommitted(r) == ~record.found \/ record.text # pending[r].text

\* recoverPendingRemoval: the subtitle comes back while its record is there and
\* the destination is free; otherwise the hidden file goes.
RecoverRemoval(r) ==
    LET row == pending[r]
        committed == RemovalCommitted(r)
        back == ~committed /\ aside[r] # NoFile /\ dest = NoFile
    IN
    /\ Sweeping(r) /\ row.kind = "remove"
    /\ dest' = IF back THEN aside[r] ELSE dest
    /\ aside' = [aside EXCEPT ![r] = NoFile]
    /\ copy' = [o \in Runs |-> IF committed /\ o = row.old THEN NoFile ELSE copy[o]]
    /\ run' = [run EXCEPT ![r].phase = "swept"]
    /\ UNCHANGED <<staged, record, pending, nextRow, mode, acts, lost, faults>>

\* The settled row is deleted.
FinishRecovered(r) ==
    /\ mode = "starting" /\ run[r].phase = "swept"
    /\ pending' = [pending EXCEPT ![r] = NoRow]
    /\ run' = [run EXCEPT ![r].phase = "dead"]
    /\ UNCHANGED <<dest, hidden, record, nextRow, mode, acts, lost, faults>>

\* A row that cannot be settled, or that a hung mount leaves over, is kept.
SkipRow(r) ==
    /\ Fault
    /\ Sweeping(r)
    /\ pending[r].kind = "remove" => RemovalLingers
    /\ run' = [run EXCEPT ![r].phase = "skipped"]
    /\ UNCHANGED <<dest, hidden, record, pending, nextRow, mode, acts, lost>>

\* DiscardRollbackCopies, then the worker starts: a recorded copy goes when no
\* row is left and the sidecar is there.
StartWorker ==
    LET discards == /\ \A r \in Runs : pending[r] = NoRow
                    /\ record.rollback # NoRun /\ dest # NoFile
    IN
    /\ mode = "starting"
    /\ \A r \in Runs : pending[r] # NoRow => run[r].phase = "skipped"
    /\ copy' = [o \in Runs |-> IF discards /\ o = record.rollback THEN NoFile ELSE copy[o]]
    /\ record' = IF discards THEN [record EXCEPT !.rollback = NoRun] ELSE record
    /\ run' = [r \in Runs |-> IF run[r].phase = "skipped" THEN [NewRun EXCEPT !.phase = "dead"]
                                                          ELSE run[r]]
    /\ mode' = "up"
    /\ UNCHANGED <<dest, staged, aside, pending, nextRow, acts, lost, faults>>

-----------------------------------------------------------------------------
(* The owner of the library *)

\* A filesystem call is about to follow a check that nothing repeats.
Racing(r) ==
    \/ run[r].phase = "undoing"
    \/ run[r].phase = "verified" /\ (run[r].replacing \/ ~HardLinks)

OwnerActs ==
    /\ acts < MaxOwner /\ acts' = acts + 1
    /\ QuietOwner => \A r \in Runs : ~Racing(r)
    /\ UNCHANGED <<hidden, record, pending, nextRow, run, mode, faults>>

\* The owner, or Arr, puts a file at the destination.
OwnerWrites ==
    /\ OwnerActs
    /\ dest' = File(NoRun, "own", OwnText)
    /\ UNCHANGED lost

\* A publication that has no record yet.
Untracked(r) == run[r].phase \in {"published", "undo"}

\* The owner edits the file in place.
OwnerEdits ==
    /\ OwnerActs
    /\ QuietOwner => \A r \in Runs : ~Untracked(r)
    /\ dest # NoFile
    /\ dest' = [dest EXCEPT !.text = OwnText]
    /\ UNCHANGED lost

OwnerDeletes ==
    /\ OwnerActs
    /\ QuietOwner => \A r \in Runs : ~Untracked(r)
    /\ dest # NoFile
    /\ dest' = NoFile
    /\ lost' = TRUE

-----------------------------------------------------------------------------
(* Specification *)

InstallStep(r) ==
    \/ \E text \in Texts : GetInstallation(r, text)
    \/ ReplacementState(r) \/ RefreshIdentical(r) \/ StageSubtitle(r) \/ CopyRollback(r)
    \/ BeginPendingInstall(r) \/ VerifyUnchanged(r) \/ PublishStaged(r)
    \/ RecordInstallation(r) \/ DiscardCopies(r) \/ ClearInstallationRollback(r)

UndoStep(r) ==
    CheckOwned(r) \/ UndoPublication(r) \/ KeepDestination(r) \/ FinishPendingInstall(r)

RemoveStep(r) ==
    \/ BeginRemoval(r) \/ ListRemoval(r) \/ MoveAside(r) \/ CommitRemoval(r)
    \/ CleanUpRemoval(r) \/ RestoreRemoved(r)

FaultStep(r) ==
    \/ FailStaging(r) \/ FailInstall(r) \/ UnknownDestination(r) \/ FailCleanup(r)
    \/ Abandon(r)

SweepStep(r) ==
    RecoverInstall(r) \/ RecoverRemoval(r) \/ FinishRecovered(r) \/ SkipRow(r)

Next ==
    \/ \E r \in Runs : InstallStep(r) \/ UndoStep(r) \/ RemoveStep(r) \/ FaultStep(r)
                        \/ SweepStep(r)
    \/ Crash \/ StartWorker
    \/ OwnerWrites \/ OwnerEdits \/ OwnerDeletes

Spec == Init /\ [][Next]_vars

-----------------------------------------------------------------------------
(* Properties *)

\* Every variable keeps the shape of the files, rows and runs it stands for.
TypeOK ==
    /\ dest \in FileType
    /\ staged \in [Runs -> FileType]
    /\ copy \in [Runs -> FileType]
    /\ aside \in [Runs -> FileType]
    /\ record \in RecordType
    /\ pending \in [Runs -> RowType]
    /\ nextRow \in Nat \ {0}
    /\ run \in [Runs -> RunType]
    /\ mode \in {"up", "starting"}
    /\ acts \in 0..MaxOwner
    /\ lost \in BOOLEAN
    /\ faults \in 0..MaxFaults

\* Between runs, with no pending row left, the destination and the record
\* agree unless the owner took the sidecar over or deleted it: a failed or
\* interrupted install leaves no untracked subtitle and loses no managed one.
SettledAgrees ==
    Quiescent =>
        \/ dest # NoFile /\ dest.text = OwnText
        \/ dest = NoFile /\ (lost \/ ~record.found)
        \/ Matches(dest, record)

\* The state is well typed, and file and record agree once settled
\* (Install, RemoveManaged, RecoverPendingInstalls).
InstallInv == TypeOK /\ SettledAgrees

\* Between runs, a recorded subtitle that the owner did not delete is there,
\* whatever abandoned runs did meanwhile: the destination is never left empty
\* under a record.
RecordedHasFile == (Quiescent /\ record.found /\ ~lost) => dest # NoFile

OwnerHasFile ==
    \/ dest # NoFile /\ dest.text = OwnText
    \/ \E r \in Runs : aside[r] # NoFile /\ aside[r].text = OwnText

\* What the owner put at the destination, or edited there, survives every step
\* of subsyncd: it stays, or waits under the hidden name of a removal that will
\* put it back.
OwnerFileKept ==
    [][(acts' = acts /\ OwnerHasFile) => OwnerHasFile']_vars

\* What the sweep would leave at the destination if the process died now: an
\* unrecorded publication undone, an uncommitted removal put back.
Unrecorded(r) ==
    /\ pending[r].kind = "install"
    /\ PendingPublicationOwned(r)
    /\ ~(record.found /\ record.text = pending[r].text)

Undoable(r) == pending[r].kind = "remove" /\ ~RemovalCommitted(r) /\ aside[r] # NoFile

TextOf(file) == IF file = NoFile THEN {} ELSE {file.text}

Settled ==
    LET undone == UNION {IF pending[r].copied THEN TextOf(copy[r]) ELSE {} :
                            r \in {o \in Runs : Unrecorded(o)}}
        kept == IF \E r \in Runs : Unrecorded(r) THEN undone ELSE TextOf(dest)
    IN IF kept # {} THEN kept ELSE UNION {TextOf(aside[r]) : r \in {o \in Runs : Undoable(o)}}

Managed == INSTANCE ManagedSubtitle WITH
                subtitle <- Settled,
                managed <- IF record.found THEN {record.text} ELSE {}

\* Publishing and removing are atomic to anyone who looks after a restart:
\* every step of an install, a removal, an undo or the sweep changes the
\* settled subtitle and its record together or not at all, and never takes
\* away what the owner wrote.  Only what the owner really did, counted in acts,
\* passes as an act of the owner.
InstallIsAtomic == Managed!Spec

\* A hidden file is known to somebody who will delete it: the run that made
\* it, a pending row or the record.
NoLitter ==
    (mode = "up") => \A r \in Runs :
        /\ (staged[r] # NoFile \/ aside[r] # NoFile) => Active(r) \/ pending[r] # NoRow
        /\ copy[r] # NoFile => \/ Active(r) \/ pending[r] # NoRow \/ record.rollback = r
                               \/ \E o \in Runs : \/ Active(o) /\ run[o].existing.rollback = r
                                                  \/ pending[o].old = r

=============================================================================
