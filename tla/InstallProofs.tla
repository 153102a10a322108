--------------------------- MODULE InstallProofs ---------------------------
(***************************************************************************)
(* Proofs about Install, for any sets of runs and texts, any number of     *)
(* failures, crashes and acts of the owner, with or without hard links.    *)
(***************************************************************************)
EXTENDS Install, TLAPS

USE RunAssumption, TextAssumption, FlagAssumption
    DEF RunAssumption, TextAssumption, FlagAssumption

-----------------------------------------------------------------------------
(* Types.                                                                   *)

LEMMA Constants ==
    /\ NoFile \in FileType /\ NoRecord \in RecordType /\ NoRow \in RowType
    /\ \A p \in Phases : [NewRun EXCEPT !.phase = p] \in RunType
    /\ \A r \in Runs, k \in {"stage", "copy"}, t \in AllTexts : File(r, k, t) \in FileType
    /\ File(NoRun, "own", OwnText) \in FileType
  BY DEF NoFile, FileType, AllTexts, NoRecord, RecordType, NoRow, RowType, NewRun, RunType,
         Phases, File

LEMMA GoToTyped ==
    ASSUME run \in [Runs -> RunType], NEW r \in Runs, NEW p \in Phases, GoTo(r, p)
    PROVE  run' \in [Runs -> RunType]
  <1>1. [run[r] EXCEPT !.phase = p] \in RunType
    BY DEF RunType
  <1> QED  BY <1>1, Constants DEF GoTo, Phases

LEMMA Parts ==
    ASSUME TypeOK, NEW r \in Runs
    PROVE  /\ run[r] \in RunType /\ pending[r] \in RowType /\ staged[r] \in FileType
           /\ copy[r] \in FileType /\ aside[r] \in FileType
           /\ run[r].text \in AllTexts /\ run[r].existing \in RecordType
           /\ dest.text \in AllTexts
  BY DEF TypeOK, RunType, FileType, NoFile, AllTexts

LEMMA InitTyped == Init => TypeOK
  <1> SUFFICES ASSUME Init PROVE TypeOK
    OBVIOUS
  <1>1. dest \in FileType /\ record \in RecordType
    <2>1. \A t \in Texts : File(NoRun, "stage", t) \in FileType
      BY DEF File, FileType, AllTexts
    <2>2. \A t \in Texts : [NoRecord EXCEPT !.found = TRUE, !.text = t] \in RecordType
      BY DEF NoRecord, RecordType, AllTexts
    <2> QED  BY <2>1, <2>2, Constants DEF Init
  <1>2. NewRun \in RunType
    BY DEF NewRun, RunType, Phases, NoRecord, RecordType, AllTexts
  <1>3. [r \in Runs |-> NewRun] \in [Runs -> RunType]
    BY <1>2
  <1>4. acts = 0 /\ faults = 0 /\ nextRow = 1
    BY DEF Init
  <1>5. acts \in 0..MaxOwner /\ faults \in 0..MaxFaults /\ nextRow \in Nat \ {0}
    BY ONLY <1>4, FlagAssumption DEF FlagAssumption
  <1> QED  BY <1>1, <1>3, <1>5, Constants DEF Init, TypeOK

LEMMA InstallTypes ==
    ASSUME TypeOK, NEW r \in Runs, InstallStep(r)
    PROVE  TypeOK'
  <1> USE Parts DEF TypeOK
  <1>1. ASSUME NEW text \in Texts, GetInstallation(r, text) PROVE TypeOK'
    <2>1. [NewRun EXCEPT !.phase = "read", !.text = text, !.existing = record] \in RunType
      BY DEF NewRun, RunType, Phases, AllTexts
    <2> QED  BY <1>1, <2>1 DEF GetInstallation, hidden
  <1>2. CASE ReplacementState(r)
    <2>1. \A p \in Phases : [run[r] EXCEPT !.phase = p, !.replacing = TRUE] \in RunType
      BY DEF RunType
    <2>2. run' \in [Runs -> RunType]
      <3>1. CASE GoTo(r, "checked")
        BY <3>1, GoToTyped DEF Phases
      <3>2. CASE GoTo(r, "done")
        BY <3>2, GoToTyped DEF Phases
      <3>3. CASE ~GoTo(r, "checked") /\ ~GoTo(r, "done")
        BY <1>2, <2>1, <3>3 DEF ReplacementState, Phases
      <3> QED  BY <3>1, <3>2, <3>3
    <2> QED  BY <1>2, <2>2 DEF ReplacementState, hidden
  <1>3. CASE RefreshIdentical(r)
    <2>1. run' \in [Runs -> RunType]
      BY <1>3, GoToTyped DEF RefreshIdentical, Phases
    <2>2. [run[r].existing EXCEPT !.candidate = r] \in RecordType
      BY DEF RecordType
    <2> QED  BY <1>3, <2>1, <2>2 DEF RefreshIdentical, hidden
  <1>4. CASE StageSubtitle(r)
    <2>1. run' \in [Runs -> RunType]
      BY <1>4, GoToTyped DEF StageSubtitle, Phases
    <2> QED  BY <1>4, <2>1, Constants DEF StageSubtitle
  <1>5. CASE CopyRollback(r)
    <2>1. run' \in [Runs -> RunType]
      BY <1>5, GoToTyped DEF CopyRollback, Phases
    <2> QED  BY <1>5, <2>1, Constants DEF CopyRollback
  <1>6. CASE BeginPendingInstall(r)
    <2>1. run' \in [Runs -> RunType]
      BY <1>6, GoToTyped DEF BeginPendingInstall, Phases
    <2>2. [kind |-> "install", id |-> nextRow, text |-> run[r].text,
           copied |-> run[r].replacing, old |-> NoRun] \in RowType
      BY DEF RowType, RunType
    <2> QED  BY <1>6, <2>1, <2>2, Constants DEF BeginPendingInstall
  <1>7. CASE VerifyUnchanged(r)
    <2>1. run' \in [Runs -> RunType]
      BY <1>7, GoToTyped DEF VerifyUnchanged, Phases
    <2> QED  BY <1>7, <2>1 DEF VerifyUnchanged, hidden
  <1>8. CASE PublishStaged(r)
    <2>1. run' \in [Runs -> RunType]
      <3>1. CASE PublicationBlocked(r)
        BY <1>8, <3>1, GoToTyped DEF PublishStaged, Phases
      <3>2. CASE ~PublicationBlocked(r)
        BY <1>8, <3>2 DEF PublishStaged, Phases, RunType
      <3> QED  BY <3>1, <3>2
    <2> QED  BY <1>8, <2>1, Constants DEF PublishStaged
  <1>9. CASE RecordInstallation(r)
    <2>1. run' \in [Runs -> RunType]
      BY <1>9, GoToTyped DEF RecordInstallation, Phases
    <2>2. \A c \in {r, run[r].existing.candidate} :
             [found |-> TRUE, text |-> run[r].text, candidate |-> c,
              rollback |-> IF run[r].replacing THEN r ELSE NoRun] \in RecordType
      BY DEF RecordType
    <2>3. lost' \in BOOLEAN
      BY <1>9 DEF RecordInstallation, RunType
    <2>4. record' \in RecordType /\ pending' \in [Runs -> RowType]
      BY <1>9, <2>2, Constants DEF RecordInstallation
    <2> QED  BY <1>9, <2>1, <2>3, <2>4 DEF RecordInstallation, hidden
  <1>10. CASE DiscardCopies(r)
    <2>1. run' \in [Runs -> RunType]
      BY <1>10, GoToTyped DEF DiscardCopies, Phases
    <2> QED  BY <1>10, <2>1, Constants DEF DiscardCopies
  <1>11. CASE ClearInstallationRollback(r)
    <2>1. run' \in [Runs -> RunType]
      BY <1>11, GoToTyped DEF ClearInstallationRollback, Phases
    <2>2. [record EXCEPT !.rollback = NoRun] \in RecordType
      BY DEF RecordType
    <2> QED  BY <1>11, <2>1, <2>2 DEF ClearInstallationRollback, hidden
  <1> QED  BY <1>1, <1>2, <1>3, <1>4, <1>5, <1>6, <1>7, <1>8, <1>9, <1>10, <1>11 DEF InstallStep

LEMMA UndoTypes ==
    ASSUME TypeOK, NEW r \in Runs, UndoStep(r) \/ RemoveStep(r)
    PROVE  TypeOK'
  <1> USE Parts, Constants DEF TypeOK
  <1>1. CASE CheckOwned(r)
    <2>1. run' \in [Runs -> RunType]
      BY <1>1, GoToTyped DEF CheckOwned, Phases
    <2> QED  BY <1>1, <2>1 DEF CheckOwned, hidden
  <1>2. CASE UndoPublication(r)
    <2>1. run' \in [Runs -> RunType]
      BY <1>2, GoToTyped DEF UndoPublication, Phases
    <2> QED  BY <1>2, <2>1 DEF UndoPublication, Undone
  <1>3. CASE KeepDestination(r)
    <2>1. run' \in [Runs -> RunType]
      BY <1>3, GoToTyped DEF KeepDestination, Phases
    <2> QED  BY <1>3, <2>1 DEF KeepDestination
  <1>4. CASE FinishPendingInstall(r)
    <2>1. run' \in [Runs -> RunType]
      BY <1>4, GoToTyped DEF FinishPendingInstall, Phases
    <2> QED  BY <1>4, <2>1 DEF FinishPendingInstall, hidden
  <1>5. CASE BeginRemoval(r)
    <2>1. record \in RecordType /\ NewRun.text \in AllTexts
      BY DEF NewRun, AllTexts
    <2>2. [NewRun EXCEPT !.phase = "removing", !.existing = record] \in RunType
      BY ONLY <2>1 DEF NewRun, RunType, Phases
    <2> QED  BY <1>5, <2>2 DEF BeginRemoval, hidden
  <1>6. CASE ListRemoval(r)
    <2>1. run' \in [Runs -> RunType]
      BY <1>6, GoToTyped DEF ListRemoval, Phases
    <2>2. [kind |-> "remove", id |-> nextRow, text |-> run[r].existing.text,
           copied |-> FALSE, old |-> run[r].existing.rollback] \in RowType
      BY DEF RowType, RecordType
    <2>3. pending' \in [Runs -> RowType] /\ nextRow' \in Nat \ {0}
      <3>1. nextRow \in Nat /\ nextRow + 1 \in Nat /\ nextRow + 1 # 0
        OBVIOUS
      <3>2. \/ pending' = pending /\ nextRow' = nextRow
            \/ /\ nextRow' = nextRow + 1
               /\ pending' = [pending EXCEPT ![r] =
                    [kind |-> "remove", id |-> nextRow, text |-> run[r].existing.text,
                     copied |-> FALSE, old |-> run[r].existing.rollback]]
        BY <1>6 DEF ListRemoval
      <3> QED  BY <2>2, <3>1, <3>2
    <2>4. UNCHANGED <<dest, hidden, record, mode, acts, lost, faults>>
      BY <1>6 DEF ListRemoval
    <2> QED  BY <2>1, <2>3, <2>4 DEF hidden
  <1>7. CASE MoveAside(r)
    <2>1. run' \in [Runs -> RunType]
      BY <1>7, GoToTyped DEF MoveAside, Phases
    <2> QED  BY <1>7, <2>1 DEF MoveAside
  <1>8. CASE CommitRemoval(r)
    <2>1. run' \in [Runs -> RunType]
      BY <1>8, GoToTyped DEF CommitRemoval, Phases
    <2> QED  BY <1>8, <2>1 DEF CommitRemoval, hidden
  <1>9. CASE CleanUpRemoval(r)
    <2>1. run' \in [Runs -> RunType]
      BY <1>9, GoToTyped DEF CleanUpRemoval, Phases
    <2> QED  BY <1>9, <2>1 DEF CleanUpRemoval
  <1>10. CASE RestoreRemoved(r)
    <2>1. run' \in [Runs -> RunType]
      BY <1>10, GoToTyped DEF RestoreRemoved, Phases
    <2> QED  BY <1>10, <2>1 DEF RestoreRemoved
  <1> QED  BY <1>1, <1>2, <1>3, <1>4, <1>5, <1>6, <1>7, <1>8, <1>9, <1>10 DEF UndoStep, RemoveStep

LEMMA FaultTypes ==
    ASSUME TypeOK, NEW r \in Runs, FaultStep(r) \/ SweepStep(r)
    PROVE  TypeOK'
  <1> USE Parts, Constants DEF TypeOK
  <1>0. ASSUME Fault PROVE faults' \in 0..MaxFaults
    BY <1>0 DEF Fault
  <1>12. \A p \in Phases : [run[r] EXCEPT !.phase = p] \in RunType
    BY DEF RunType
  <1>1. CASE FailStaging(r)
    <2>1. run' \in [Runs -> RunType]
      BY <1>1, GoToTyped DEF FailStaging, Phases
    <2> QED  BY <1>0, <1>1, <2>1 DEF FailStaging
  <1>2. CASE FailInstall(r)
    <2>1. run' \in [Runs -> RunType]
      BY <1>2, GoToTyped DEF FailInstall, Phases
    <2> QED  BY <1>0, <1>2, <2>1 DEF FailInstall, hidden
  <1>3. CASE UnknownDestination(r)
    <2>1. run' \in [Runs -> RunType]
      BY <1>3, GoToTyped DEF UnknownDestination, Phases
    <2> QED  BY <1>0, <1>3, <2>1 DEF UnknownDestination
  <1>4. CASE FailCleanup(r)
    <2>1. run' \in [Runs -> RunType]
      BY <1>4, GoToTyped DEF FailCleanup, Phases
    <2> QED  BY <1>0, <1>4, <2>1 DEF FailCleanup
  <1>5. CASE Abandon(r)
    <2>1. [run[r] EXCEPT !.cancelled = TRUE] \in RunType
      BY DEF RunType
    <2> QED  BY <1>0, <1>5, <2>1 DEF Abandon, hidden
  <1>6. CASE RecoverInstall(r)
    <2>1. [run[r] EXCEPT !.phase = "swept"] \in RunType
      BY <1>12 DEF Phases
    <2> QED  BY <1>6, <2>1 DEF RecoverInstall
  <1>7. CASE RecoverRemoval(r)
    <2>1. [run[r] EXCEPT !.phase = "swept"] \in RunType
      BY <1>12 DEF Phases
    <2> QED  BY <1>7, <2>1 DEF RecoverRemoval
  <1>8. CASE FinishRecovered(r)
    <2>1. [run[r] EXCEPT !.phase = "dead"] \in RunType
      BY <1>12 DEF Phases
    <2> QED  BY <1>8, <2>1 DEF FinishRecovered, hidden
  <1>9. CASE SkipRow(r)
    <2>1. [run[r] EXCEPT !.phase = "skipped"] \in RunType
      BY <1>12 DEF Phases
    <2> QED  BY <1>0, <1>9, <2>1 DEF SkipRow, hidden
  <1> QED  BY <1>1, <1>2, <1>3, <1>4, <1>5, <1>6, <1>7, <1>8, <1>9 DEF FaultStep, SweepStep

LEMMA RestartTypes ==
    ASSUME TypeOK, Crash \/ StartWorker
    PROVE  TypeOK'
  <1> USE Constants DEF TypeOK
  <1>1. [NewRun EXCEPT !.phase = "dead"] \in RunType
    BY DEF Phases
  <1>2. CASE Crash
    <2>1. faults' \in 0..MaxFaults
      BY <1>2 DEF Crash, Fault
    <2> QED  BY <1>1, <1>2, <2>1 DEF Crash, hidden
  <1>3. CASE StartWorker
    <2>1. [record EXCEPT !.rollback = NoRun] \in RecordType
      BY DEF RecordType
    <2> QED  BY <1>1, <1>3, <2>1 DEF StartWorker
  <1> QED  BY <1>2, <1>3

LEMMA OwnerTypes ==
    ASSUME TypeOK, OwnerWrites \/ OwnerEdits \/ OwnerDeletes
    PROVE  TypeOK'
  <1>1. acts' \in 0..MaxOwner
    BY DEF OwnerWrites, OwnerEdits, OwnerDeletes, OwnerActs, TypeOK
  <1>2. dest # NoFile => [dest EXCEPT !.text = OwnText] \in FileType
    BY DEF TypeOK, FileType, AllTexts
  <1>3. dest' \in FileType /\ lost' \in BOOLEAN
    BY <1>2, Constants DEF OwnerWrites, OwnerEdits, OwnerDeletes, TypeOK
  <1>4. UNCHANGED <<hidden, record, pending, nextRow, run, mode, faults>>
    BY DEF OwnerWrites, OwnerEdits, OwnerDeletes, OwnerActs
  <1> QED  BY <1>1, <1>3, <1>4 DEF TypeOK, hidden

LEMMA NextTyped == TypeOK /\ [Next]_vars => TypeOK'
  <1> SUFFICES ASSUME TypeOK, [Next]_vars PROVE TypeOK'
    OBVIOUS
  <1>1. ASSUME NEW r \in Runs, InstallStep(r) \/ UndoStep(r) \/ RemoveStep(r) \/ FaultStep(r) \/ SweepStep(r)
        PROVE  TypeOK'
    BY <1>1, InstallTypes, UndoTypes, FaultTypes
  <1>2. ASSUME Crash \/ StartWorker PROVE TypeOK'
    BY <1>2, RestartTypes
  <1>3. CASE OwnerWrites \/ OwnerEdits \/ OwnerDeletes
    BY <1>3, OwnerTypes
  <1>4. CASE UNCHANGED vars
    BY <1>4 DEF vars, hidden, TypeOK
  <1> QED  BY <1>1, <1>2, <1>3, <1>4 DEF Next

\* The state is well typed, for every setting of the flags.
THEOREM InstallTyped == Spec => []TypeOK
  <1> QED  BY InitTyped, NextTyped, PTL DEF Spec

-----------------------------------------------------------------------------
(* The inductive invariant.                                                 *)

\* The environment that the properties of Install are about: runs do not
\* overlap, the owner does not write between a check and the call it guards,
\* and every removal settles its row.
Orderly == ~Overlap /\ QuietOwner /\ ~RemovalLingers

\* Where a run is: it has no row yet or any more, it has staged nothing or not
\* published, its install's row is written, or its removal's row is.
Rowless == {"new", "read", "checked", "identical", "staged", "copied", "recorded",
            "discarded", "removing"}
Preparing == {"checked", "staged", "copied", "pending", "verified"}
Installing == {"pending", "verified", "published", "undo", "undoing", "kept"}
Taking == {"listed", "moved", "removed", "returning"}

\* Runs do not overlap, and none goes on while the daemon starts.
Alone ==
    /\ mode = "up" => \A r, o \in Runs : Active(r) /\ Active(o) => r = o
    /\ \A r \in Runs : Active(r) => (run[r].phase \in {"swept", "skipped"} <=> mode = "starting")

\* What the pending row of r says about where r is.
RowKept(r) ==
    /\ pending[r] # NoRow => pending[r].kind # "none" /\ pending[r].text \in Texts
    /\ run[r].phase \in Rowless => pending[r] = NoRow
    /\ run[r].phase \in Installing =>
         /\ pending[r].kind = "install" /\ pending[r].text = run[r].text
         /\ pending[r].copied = run[r].replacing
    /\ run[r].phase \in Taking => pending[r].kind = "remove" /\ pending[r].text = run[r].existing.text
    /\ run[r].phase \in {"settling", "swept", "skipped"} => pending[r] # NoRow
    /\ run[r].phase \in {"settling", "swept"} => ~Unrecorded(r) /\ aside[r] = NoFile
    /\ pending[r].kind = "remove" =>
         run[r].phase \in IF mode = "up" THEN Taking \cup {"settling"} ELSE {"dead", "swept"}

\* A rollback copy that a record names belongs to a run whose row is settled.
Held(o) == o # NoRun => pending[o] = NoRow /\ run[o].phase \in {"recorded", "discarded", "done", "dead"}

CopiesHeld ==
    /\ Held(record.rollback)
    /\ \A r \in Runs : Held(run[r].existing.rollback) /\ Held(pending[r].old)

OneRemoval == \A r, o \in Runs : pending[r].kind = "remove" /\ pending[o].kind = "remove" => r = o

RecordOK == record.found => record.text \in Texts

\* An unrecorded publication can be undone.
UndoReady ==
    \A r \in Runs : Unrecorded(r) =>
        IF pending[r].copied THEN record.found /\ copy[r] # NoFile /\ copy[r].text = record.text
        ELSE lost \/ ~record.found

\* A subtitle that was moved aside can be put back, or went with its record.
AsideReady ==
    \A r \in Runs : aside[r] # NoFile =>
        /\ pending[r].kind = "remove"
        /\ dest.text = OwnText
        /\ aside[r].text = pending[r].text \/ (aside[r].text = OwnText /\ ~RemovalCommitted(r))

\* Without an unrecorded publication file and record agree, or the subtitle
\* waits aside.
Agree ==
    (\A r \in Runs : ~Unrecorded(r)) =>
        \/ dest # NoFile /\ dest.text = OwnText
        \/ dest = NoFile /\ (lost \/ ~record.found \/ \E r \in Runs : Undoable(r))
        \/ Matches(dest, record)

StoreInv == OneRemoval /\ RecordOK /\ UndoReady /\ AsideReady /\ Agree

\* What the run r knows and has prepared.
Knows(r) ==
    /\ run[r].phase \in {"read", "identical", "removing"} \cup Preparing \cup Installing
                          \cup (Taking \ {"removed"}) => run[r].existing = record
    /\ run[r].phase \in {"read", "identical"} \cup Preparing \cup Installing => run[r].text \in Texts
    /\ run[r].phase \in Preparing \cup Installing /\ run[r].replacing =>
         record.found /\ record.text # run[r].text
    /\ run[r].phase \in {"read", "identical"} \cup Preparing => ~run[r].published
    /\ run[r].phase = "read" => ~run[r].replacing
    /\ run[r].phase = "staged" => run[r].replacing
    /\ run[r].phase \in {"published", "undoing"} => run[r].published
    /\ run[r].phase \in {"staged", "copied", "pending", "verified"} =>
         staged[r] = File(r, "stage", run[r].text)
    /\ run[r].phase \in {"copied", "pending", "verified"} /\ run[r].replacing =>
         copy[r] # NoFile /\ (Matches(dest, record) => copy[r].text = record.text)

\* What is at the destination while the run r works on it.
Sees(r) ==
    /\ run[r].phase \in Preparing \/ (run[r].phase \in {"undo", "kept"} /\ ~run[r].published) =>
         dest.text = OwnText \/ (run[r].replacing /\ dest.text = record.text)
    /\ run[r].phase = "verified" =>
         IF run[r].replacing THEN Matches(dest, record) ELSE HardLinks \/ dest = NoFile
    /\ run[r].phase = "published" \/ (run[r].phase = "undo" /\ run[r].published) =>
         dest \in {File(r, "stage", run[r].text), File(NoRun, "own", OwnText)}
    /\ run[r].phase = "undoing" => dest = File(r, "stage", run[r].text)
    /\ run[r].phase = "kept" /\ run[r].published => dest.text = OwnText
    /\ run[r].phase \in {"published", "undo", "undoing"} /\ run[r].published /\ ~run[r].replacing =>
         lost \/ ~record.found

\* ... and of a removal.
Takes(r) ==
    /\ run[r].phase \in {"removing"} \cup (Taking \ {"removed"}) => record.found
    /\ run[r].phase = "listed" => aside[r] = NoFile /\ dest.text \in {OwnText, record.text}
    /\ run[r].phase \in {"moved", "returning"} => aside[r] # NoFile
    /\ run[r].phase = "removed" => ~record.found

RunInv(r) == RowKept(r) /\ Knows(r) /\ Sees(r) /\ Takes(r)

Inv == TypeOK /\ Alone /\ CopiesHeld /\ StoreInv /\ \A r \in Runs : RunInv(r)

-----------------------------------------------------------------------------
(* Facts that many steps need.                                              *)

LEMMA Absent ==
    /\ NoFile.text = OwnText /\ NoRow.kind = "none" /\ NoRow.old = NoRun
    /\ NewRun.existing.rollback = NoRun /\ NoRecord.rollback = NoRun /\ ~NoRecord.found
    /\ \A r, k, t : k # "none" => File(r, k, t) # NoFile
    /\ \A r, k, t : /\ File(r, k, t).node = r /\ File(r, k, t).kind = k
                    /\ File(r, k, t).text = t
  BY DEF NoFile, NoRow, NewRun, NoRecord, File

\* Where a run goes.
LEMMA Goes ==
    ASSUME TypeOK, NEW r \in Runs, NEW p \in Phases, GoTo(r, p)
    PROVE  /\ run'[r].phase = p
           /\ p # "done" => /\ run'[r].text = run[r].text /\ run'[r].existing = run[r].existing
                            /\ run'[r].replacing = run[r].replacing
                            /\ run'[r].published = run[r].published
           /\ p = "done" => run'[r].existing.rollback = NoRun
           /\ \A o \in Runs \ {r} : run'[o] = run[o]
  <1>1. run \in [Runs -> RunType]
    BY DEF TypeOK
  <1>2. \A o \in Runs \ {r} : run'[o] = run[o]
    BY <1>1 DEF GoTo
  <1>3. CASE p = "done"
    BY <1>1, <1>2, <1>3, Absent DEF GoTo, NewRun
  <1>4. CASE p # "done"
    <2>1. run'[r] = [run[r] EXCEPT !.phase = p]
      BY <1>1, <1>4 DEF GoTo
    <2> QED  BY <1>1, <1>2, <1>4, <2>1 DEF RunType
  <1> QED  BY <1>3, <1>4

\* While the daemon is up one run is going on, and the others are at rest.
Solo(r) ==
    /\ mode = "up" /\ mode' = "up"
    /\ \A o \in Runs \ {r} : ~Active(o) /\ run'[o] = run[o] /\ pending'[o] = pending[o]

LEMMA Going ==
    ASSUME Inv, NEW r \in Runs, run[r].phase \notin Finished \cup {"swept", "skipped"}
    PROVE  mode = "up" /\ \A o \in Runs \ {r} : ~Active(o)
  <1>1. mode = "up"
    BY DEF Inv, Alone, Active, TypeOK
  <1> QED  BY <1>1 DEF Inv, Alone, Active

\* The copies that are named after a step of r were named before it, or are r's.
Names(r) ==
    /\ Held(r) => Held(r)'
    /\ record'.rollback \in {NoRun, record.rollback} \/ (record'.rollback = r /\ Held(r)')
    /\ run'[r].existing.rollback \in {NoRun, run[r].existing.rollback, record.rollback}
    /\ pending'[r].old \in {NoRun, pending[r].old, run[r].existing.rollback}

LEMMA HeldStep ==
    ASSUME Inv, NEW r \in Runs, Solo(r), Names(r)
    PROVE  CopiesHeld'
  <1>1. \A o \in Runs \cup {NoRun} : Held(o) => Held(o)'
    BY DEF Held, Solo, Names
  <1>2. /\ record.rollback \in Runs \cup {NoRun}
        /\ \A o \in Runs : run[o].existing.rollback \in Runs \cup {NoRun} /\ pending[o].old \in Runs \cup {NoRun}
    BY DEF Inv, TypeOK, RunType, RecordType, RowType
  <1>3. Held(NoRun)'
    BY DEF Held
  <1>4. Held(record.rollback)'
    BY <1>1, <1>2, <1>3 DEF Inv, CopiesHeld, Names
  <1>5. Held(run[r].existing.rollback)' /\ Held(pending[r].old)'
    BY <1>1, <1>2, <1>3 DEF Inv, CopiesHeld, Names
  <1>6. ASSUME NEW o \in Runs \ {r} PROVE Held(run[o].existing.rollback)' /\ Held(pending[o].old)'
    BY <1>1, <1>2 DEF Inv, CopiesHeld, Solo
  <1> QED  BY <1>4, <1>5, <1>6 DEF CopiesHeld

\* A step of one run while the daemon is up leaves the others as they were.
LEMMA SoloStep ==
    ASSUME Inv, TypeOK', NEW r \in Runs, Solo(r), run'[r].phase \notin {"swept", "skipped"},
           RunInv(r)', StoreInv', Names(r)
    PROVE  Inv'
  <1>1. ASSUME NEW o \in Runs \ {r} PROVE RunInv(o)'
    <2>1. run'[o] = run[o] /\ pending'[o] = pending[o] /\ run[o].phase \in Finished
      BY DEF Solo, Active
    <2>2. RowKept(o)
      BY DEF Inv, RunInv
    <2>3. RowKept(o)'
      BY <2>1, <2>2 DEF RowKept, Solo, Finished, Rowless, Installing, Taking
    <2>4. Knows(o)' /\ Sees(o)' /\ Takes(o)'
      BY <2>1 DEF Knows, Sees, Takes, Finished, Preparing, Installing, Taking
    <2> QED  BY <2>3, <2>4 DEF RunInv
  <1>2. Alone'
    BY DEF Solo, Alone, Active, Inv
  <1>3. CopiesHeld'
    BY HeldStep
  <1> QED  BY <1>1, <1>2, <1>3 DEF Inv

\* Only the copy of an unrecorded publication matters.
LEMMA StoreCopies ==
    ASSUME StoreInv, UNCHANGED <<dest, aside, pending, lost>>,
           record'.found = record.found, record'.text = record.text,
           \A r \in Runs : Unrecorded(r) => copy'[r] = copy[r]
    PROVE  StoreInv'
  <1>1. \A r \in Runs : Unrecorded(r)' = Unrecorded(r) /\ Undoable(r)' = Undoable(r)
    BY DEF Unrecorded, PendingPublicationOwned, Undoable, RemovalCommitted
  <1>2. OneRemoval' /\ RecordOK' /\ UndoReady'
    BY <1>1 DEF StoreInv, OneRemoval, RecordOK, UndoReady
  <1>3. AsideReady'
    BY DEF StoreInv, AsideReady, RemovalCommitted
  <1>4. Agree'
    BY <1>1 DEF StoreInv, Agree, Matches
  <1> QED  BY <1>2, <1>3, <1>4 DEF StoreInv

\* A row is written or deleted for a run that has no publication and nothing
\* aside.
LEMMA StoreRow ==
    ASSUME StoreInv, NEW r \in Runs, UNCHANGED <<dest, aside, lost>>,
           record'.found = record.found, record'.text = record.text,
           ~Unrecorded(r), ~Unrecorded(r)', aside[r] = NoFile,
           \A o \in Runs \ {r} : pending'[o] = pending[o] /\ (Unrecorded(o) => copy'[o] = copy[o]),
           pending'[r].kind = "remove" => \A o \in Runs \ {r} : pending[o].kind # "remove"
    PROVE  StoreInv'
  <1>1. \A o \in Runs : Unrecorded(o)' = Unrecorded(o) /\ Undoable(o)' = Undoable(o)
    BY DEF Unrecorded, PendingPublicationOwned, Undoable, RemovalCommitted
  <1>2. OneRemoval' /\ RecordOK' /\ UndoReady'
    BY <1>1 DEF StoreInv, OneRemoval, RecordOK, UndoReady
  <1>3. AsideReady'
    BY DEF StoreInv, AsideReady, RemovalCommitted
  <1>4. Agree'
    BY <1>1 DEF StoreInv, Agree, Matches
  <1> QED  BY <1>2, <1>3, <1>4 DEF StoreInv

\* A published file that nobody wrote since carries the text of its row.
LEMMA NotUnrecorded ==
    ASSUME TypeOK, NEW r \in Runs, RowKept(r),
           dest.text = OwnText \/ (record.found /\ dest.text = record.text)
    PROVE  ~Unrecorded(r)
  <1>1. pending[r].kind = "install" => pending[r].text \in Texts
    BY Absent DEF RowKept
  <1> QED  BY <1>1 DEF Unrecorded, PendingPublicationOwned

LEMMA NotUnrecordedNext ==
    ASSUME NEW r \in Runs, pending'[r].kind = "install" => pending'[r].text \in Texts,
           dest'.text = OwnText \/ (record'.found /\ dest'.text = record'.text)
    PROVE  ~Unrecorded(r)'
  BY DEF Unrecorded, PendingPublicationOwned

LEMMA RowTexts ==
    ASSUME Inv
    PROVE  \A r \in Runs : pending[r].kind \in {"install", "remove"} => pending[r].text \in Texts
  BY Absent DEF Inv, RunInv, RowKept

\* While an install goes on, and before a removal is listed, nothing is aside.
LEMMA NothingAside ==
    ASSUME Inv, NEW r \in Runs, mode = "up", \A o \in Runs \ {r} : ~Active(o)
    PROVE  \A o \in Runs \ {r} : pending[o].kind # "remove" /\ aside[o] = NoFile
  BY DEF Inv, RunInv, RowKept, Taking, Active, Finished, StoreInv, AsideReady

LEMMA Ended ==
    ASSUME Inv, NEW r \in Runs, mode' = "up", run'[r].phase = "done",
           pending'[r] = NoRow \/ (pending'[r] = pending[r] /\ pending[r].kind # "remove")
    PROVE  RunInv(r)'
  <1>1. RowKept(r)
    BY DEF Inv, RunInv
  <1>2. RowKept(r)'
    BY <1>1, Absent DEF RowKept, Rowless, Installing, Taking
  <1>3. Knows(r)' /\ Sees(r)' /\ Takes(r)'
    BY DEF Knows, Sees, Takes, Preparing, Installing, Taking
  <1> QED  BY <1>2, <1>3 DEF RunInv

\* What a run in a phase without a row, or with one, can rely on.
LEMMA Now ==
    ASSUME Inv, NEW r \in Runs
    PROVE  /\ TypeOK /\ RowKept(r) /\ Knows(r) /\ Sees(r) /\ Takes(r) /\ StoreInv
  BY DEF Inv, RunInv

-----------------------------------------------------------------------------
(* The steps of an install.                                                 *)

LEMMA BeginStep ==
    ASSUME Inv, TypeOK', Orderly, NEW r \in Runs,
           (\E text \in Texts : GetInstallation(r, text)) \/ BeginRemoval(r)
    PROVE  Inv'
  <1> USE Now
  <1>1. Solo(r) /\ UNCHANGED <<dest, hidden, record, pending, lost>> /\ run[r].phase = "new"
    BY DEF GetInstallation, BeginRemoval, MayBegin, Solo, Active, Orderly, TypeOK
  <1>2. /\ run'[r].phase \in {"read", "removing"} /\ run'[r].existing = record
        /\ run'[r].phase = "read" => run'[r].text \in Texts
        /\ run'[r].phase = "removing" => record.found
        /\ ~run'[r].replacing /\ ~run'[r].published
    <2>1. ASSUME NEW x, NEW t, run' = [run EXCEPT ![r] = [NewRun EXCEPT !.phase = x, !.text = t, !.existing = record]]
          PROVE  /\ run'[r].phase = x /\ run'[r].text = t /\ run'[r].existing = record
                 /\ ~run'[r].replacing /\ ~run'[r].published
      BY <2>1 DEF NewRun, TypeOK
    <2>2. ASSUME NEW text \in Texts, GetInstallation(r, text)
          PROVE  /\ run'[r].phase = "read" /\ run'[r].text = text /\ run'[r].existing = record
                 /\ ~run'[r].replacing /\ ~run'[r].published
      BY <2>1, <2>2 DEF GetInstallation
    <2>3. ASSUME BeginRemoval(r)
          PROVE  /\ run'[r].phase = "removing" /\ run'[r].existing = record /\ record.found
                 /\ ~run'[r].replacing /\ ~run'[r].published
      BY <2>3 DEF BeginRemoval, NewRun, TypeOK
    <2> QED  BY <2>2, <2>3
  <1>3. RowKept(r)'
    BY <1>1, <1>2, Absent DEF RowKept, Rowless, Installing, Taking
  <1>4. Knows(r)' /\ Sees(r)' /\ Takes(r)'
    BY <1>1, <1>2 DEF Knows, Sees, Takes, Preparing, Installing, Taking
  <1>5. StoreInv'
    BY <1>1, StoreCopies DEF hidden
  <1>6. Names(r)
    BY <1>1, <1>2 DEF Names, Held
  <1> QED  BY <1>1, <1>2, <1>3, <1>4, <1>5, <1>6, SoloStep DEF RunInv

LEMMA CheckStep ==
    ASSUME Inv, TypeOK', NEW r \in Runs, ReplacementState(r)
    PROVE  Inv'
  <1> USE Now
  <1>1. Solo(r) /\ UNCHANGED <<dest, hidden, record, pending, lost>> /\ run[r].phase = "read"
    BY Going DEF ReplacementState, Solo, GoTo, TypeOK, Finished
  <1>2. pending[r] = NoRow
    BY <1>1 DEF RowKept, Rowless
  <1>3. StoreInv'
    BY <1>1, StoreCopies DEF hidden
  <1>4. CASE GoTo(r, "done")
    <2>1. run'[r].phase = "done" /\ run'[r].existing.rollback = NoRun
      BY <1>4, Goes DEF Phases
    <2>2. Names(r)
      BY <1>1, <2>1 DEF Names, Held
    <2>3. RunInv(r)'
      BY <1>1, <1>2, <2>1, Ended DEF Solo
    <2> QED  BY <1>1, <1>3, <2>1, <2>2, <2>3, SoloStep
  <1>5. CASE ~GoTo(r, "done")
    <2>1. /\ run'[r].phase \in {"checked", "identical"}
          /\ run'[r].text = run[r].text /\ run'[r].existing = run[r].existing
          /\ run'[r].published = run[r].published
          /\ IF dest = NoFile THEN run'[r].phase = "checked" /\ run'[r].replacing = run[r].replacing
             ELSE /\ Matches(dest, run[r].existing) /\ run'[r].replacing
                  /\ run'[r].phase = "checked" => run[r].text # run[r].existing.text
      <3>1. CASE GoTo(r, "checked") /\ dest = NoFile
        BY <3>1, Goes DEF Phases
      <3>2. CASE ~(GoTo(r, "checked") /\ dest = NoFile)
        BY <1>5, <3>2 DEF ReplacementState, TypeOK, RunType, Matches
      <3> QED  BY <3>1, <3>2
    <2>2. Names(r)
      BY <1>1, <2>1 DEF Names, Held
    <2>3. RowKept(r)'
      BY <1>1, <1>2, <2>1, Absent DEF RowKept, Rowless, Installing, Taking
    <2>4. run[r].existing = record /\ run[r].text \in Texts /\ ~run[r].published /\ ~run[r].replacing
      BY <1>1 DEF Knows
    <2>5. Knows(r)'
      BY <1>1, <2>1, <2>4 DEF Knows, Preparing, Installing, Taking, Matches
    <2>6. Sees(r)' /\ Takes(r)'
      BY <1>1, <2>1, <2>4, Absent DEF Sees, Takes, Preparing, Installing, Taking, Matches
    <2> QED  BY <1>1, <1>3, <2>1, <2>2, <2>3, <2>5, <2>6, SoloStep DEF RunInv
  <1> QED  BY <1>4, <1>5

LEMMA RefreshStep ==
    ASSUME Inv, TypeOK', NEW r \in Runs, RefreshIdentical(r)
    PROVE  Inv'
  <1> USE Now
  <1>1. Solo(r) /\ UNCHANGED <<dest, hidden, pending, lost>> /\ run[r].phase = "identical"
    BY Going DEF RefreshIdentical, Solo, GoTo, TypeOK, Finished
  <1>2. pending[r] = NoRow /\ run[r].existing = record
    BY <1>1 DEF RowKept, Rowless, Knows
  <1>3. record'.found = record.found /\ record'.text = record.text /\ record'.rollback = record.rollback
    BY <1>2 DEF RefreshIdentical, TypeOK, RecordType
  <1>4. run'[r].phase = "done" /\ run'[r].existing.rollback = NoRun
    BY Goes DEF Phases, RefreshIdentical
  <1>5. StoreInv'
    BY <1>1, <1>3, StoreCopies DEF hidden
  <1>6. Names(r)
    BY <1>1, <1>3, <1>4 DEF Names, Held
  <1>7. RunInv(r)'
    BY <1>1, <1>2, <1>4, Ended DEF Solo
  <1> QED  BY <1>1, <1>4, <1>5, <1>6, <1>7, SoloStep

LEMMA StageStep ==
    ASSUME Inv, TypeOK', NEW r \in Runs, StageSubtitle(r)
    PROVE  Inv'
  <1> USE Now
  <1>1. Solo(r) /\ UNCHANGED <<dest, copy, aside, record, pending, lost>> /\ run[r].phase = "checked"
    BY Going DEF StageSubtitle, Solo, GoTo, TypeOK, Finished
  <1>2. /\ run'[r].phase = IF run[r].replacing THEN "staged" ELSE "copied"
        /\ run'[r].text = run[r].text /\ run'[r].existing = run[r].existing
        /\ run'[r].replacing = run[r].replacing /\ run'[r].published = run[r].published
        /\ staged'[r] = File(r, "stage", run[r].text)
    BY Goes DEF Phases, StageSubtitle, TypeOK
  <1>3. pending[r] = NoRow
    BY <1>1 DEF RowKept, Rowless
  <1>4. StoreInv'
    BY <1>1, StoreCopies
  <1>5. Names(r)
    BY <1>1, <1>2 DEF Names, Held
  <1>6. RowKept(r)'
    BY <1>1, <1>2, <1>3, Absent DEF RowKept, Rowless, Installing, Taking
  <1>7. Knows(r)'
    BY <1>1, <1>2 DEF Knows, Preparing, Installing, Taking
  <1>8. Sees(r)' /\ Takes(r)'
    BY <1>1, <1>2 DEF Sees, Takes, Preparing, Installing, Taking
  <1> QED  BY <1>1, <1>2, <1>4, <1>5, <1>6, <1>7, <1>8, SoloStep DEF RunInv

\* A run that ends, having written no row and changed no copy that matters.
LEMMA EndStep ==
    ASSUME Inv, TypeOK', NEW r \in Runs, Solo(r), GoTo(r, "done"),
           UNCHANGED <<dest, aside, record, pending, lost>>, pending[r].kind # "remove",
           \A o \in Runs : Unrecorded(o) => copy'[o] = copy[o]
    PROVE  Inv'
  <1> USE Now
  <1>1. run'[r].phase = "done" /\ run'[r].existing.rollback = NoRun
    BY Goes DEF Phases
  <1>2. StoreInv'
    BY StoreCopies
  <1>3. Names(r)
    BY <1>1 DEF Names, Held
  <1>4. RunInv(r)'
    BY <1>1, Ended DEF Solo
  <1> QED  BY <1>1, <1>2, <1>3, <1>4, SoloStep

LEMMA CopyStep ==
    ASSUME Inv, TypeOK', NEW r \in Runs, CopyRollback(r)
    PROVE  Inv'
  <1> USE Now
  <1>1. Solo(r) /\ UNCHANGED <<dest, aside, record, pending, lost>> /\ run[r].phase = "staged"
    BY Going DEF CopyRollback, Solo, GoTo, TypeOK, Finished
  <1>2. pending[r] = NoRow /\ ~Unrecorded(r)
    BY <1>1, Absent DEF RowKept, Rowless, Unrecorded
  <1>3. CASE dest = NoFile
    <2>1. GoTo(r, "done") /\ copy' = copy
      BY <1>3 DEF CopyRollback
    <2> QED  BY <1>1, <1>2, <2>1, EndStep, Absent
  <1>4. CASE dest # NoFile
    <2>1. GoTo(r, "copied") /\ staged' = staged
      BY <1>4 DEF CopyRollback
    <2>2. copy'[r] = File(r, "copy", dest.text) /\ \A o \in Runs \ {r} : copy'[o] = copy[o]
      BY <1>4 DEF CopyRollback, TypeOK
    <2>3. /\ run'[r].phase = "copied"
          /\ run'[r].text = run[r].text /\ run'[r].existing = run[r].existing
          /\ run'[r].replacing = run[r].replacing /\ run'[r].published = run[r].published
      BY <2>1, Goes DEF Phases
    <2>4. StoreInv'
      BY <1>1, <1>2, <2>2, StoreCopies
    <2>5. Names(r)
      BY <1>1, <2>3 DEF Names, Held
    <2>6. RowKept(r)'
      BY <1>1, <1>2, <2>3, Absent DEF RowKept, Rowless, Installing, Taking
    <2>7. copy'[r] # NoFile /\ (Matches(dest, record)' => copy'[r].text = record'.text)
      BY <1>1, <2>2, Absent DEF Matches
    <2>8. Knows(r)'
      BY <1>1, <2>1, <2>3, <2>7 DEF Knows, Preparing, Installing, Taking
    <2>9. Sees(r)' /\ Takes(r)'
      BY <1>1, <2>3 DEF Sees, Takes, Preparing, Installing, Taking
    <2> QED  BY <1>1, <2>3, <2>4, <2>5, <2>6, <2>8, <2>9, SoloStep DEF RunInv
  <1> QED  BY <1>3, <1>4

LEMMA RowStep ==
    ASSUME Inv, TypeOK', NEW r \in Runs, BeginPendingInstall(r)
    PROVE  Inv'
  <1> USE Now
  <1>1. Solo(r) /\ UNCHANGED <<dest, aside, record, lost>> /\ run[r].phase = "copied"
    <2>1. run[r].phase = "copied" /\ mode = "up" /\ \A o \in Runs \ {r} : ~Active(o)
      BY Going DEF BeginPendingInstall, Finished
    <2>2. \A o \in Runs \ {r} : run'[o] = run[o] /\ pending'[o] = pending[o]
      BY DEF BeginPendingInstall, GoTo, TypeOK
    <2> QED  BY <2>1, <2>2 DEF Solo, BeginPendingInstall
  <1>2. pending[r] = NoRow /\ ~Unrecorded(r) /\ pending[r].kind # "remove"
    BY <1>1, Absent DEF RowKept, Rowless, Unrecorded
  <1>3. aside[r] = NoFile
    BY <1>2 DEF StoreInv, AsideReady
  <1>4. CASE run[r].cancelled
    <2>1. GoTo(r, "done") /\ pending' = pending /\ \A o \in Runs \ {r} : copy'[o] = copy[o]
      BY <1>4 DEF BeginPendingInstall, TypeOK
    <2> QED  BY <1>1, <1>2, <2>1, EndStep
  <1>5. CASE ~run[r].cancelled
    <2>1. GoTo(r, "pending") /\ staged' = staged /\ copy' = copy
      BY <1>5 DEF BeginPendingInstall
    <2>2. /\ pending'[r].kind = "install" /\ pending'[r].text = run[r].text
          /\ pending'[r].copied = run[r].replacing /\ pending'[r].old = NoRun
      BY <1>5 DEF BeginPendingInstall, TypeOK
    <2>3. /\ run'[r].phase = "pending"
          /\ run'[r].text = run[r].text /\ run'[r].existing = run[r].existing
          /\ run'[r].replacing = run[r].replacing /\ run'[r].published = run[r].published
      BY <2>1, Goes DEF Phases
    <2>4. dest.text = OwnText \/ (record.found /\ dest.text = record.text)
      BY <1>1 DEF Sees, Knows, Preparing
    <2>5. run[r].text \in Texts
      BY <1>1 DEF Knows, Preparing
    <2>6. ~Unrecorded(r)'
      BY <1>1, <2>2, <2>4, <2>5, NotUnrecordedNext
    <2>7. StoreInv'
      BY <1>1, <1>2, <1>3, <2>1, <2>2, <2>6, StoreRow DEF Solo
    <2>8. Names(r)
      BY <1>1, <2>2, <2>3 DEF Names, Held
    <2>9. RowKept(r)'
      BY <1>1, <2>2, <2>3, <2>5, Absent DEF RowKept, Rowless, Installing, Taking
    <2>10. Knows(r)'
      BY <1>1, <2>1, <2>3 DEF Knows, Preparing, Installing, Taking, Matches
    <2>11. Sees(r)' /\ Takes(r)'
      BY <1>1, <2>3 DEF Sees, Takes, Preparing, Installing, Taking
    <2> QED  BY <1>1, <2>3, <2>7, <2>8, <2>9, <2>10, <2>11, SoloStep DEF RunInv
  <1> QED  BY <1>4, <1>5

LEMMA VerifyStep ==
    ASSUME Inv, TypeOK', NEW r \in Runs, VerifyUnchanged(r)
    PROVE  Inv'
  <1> USE Now
  <1>1. Solo(r) /\ UNCHANGED <<dest, hidden, record, pending, lost>> /\ run[r].phase = "pending"
    BY Going DEF VerifyUnchanged, Solo, GoTo, TypeOK, Finished
  <1>2. /\ run'[r].phase \in {"verified", "undo"}
        /\ run'[r].phase = "verified" => ReplacementUnchanged(r)
        /\ run'[r].text = run[r].text /\ run'[r].existing = run[r].existing
        /\ run'[r].replacing = run[r].replacing /\ run'[r].published = run[r].published
    BY Goes DEF Phases, VerifyUnchanged
  <1>3. StoreInv'
    BY <1>1, StoreCopies DEF hidden
  <1>4. Names(r)
    BY <1>1, <1>2 DEF Names, Held
  <1>5. RowKept(r)'
    BY <1>1, <1>2, Absent DEF RowKept, Rowless, Installing, Taking
  <1>6. Knows(r)'
    BY <1>1, <1>2 DEF Knows, Preparing, Installing, Taking, Matches, hidden
  <1>7. run[r].existing = record /\ ~run[r].published
    BY <1>1 DEF Knows, Preparing
  <1>8. Sees(r)' /\ Takes(r)'
    BY <1>1, <1>2, <1>7 DEF Sees, Takes, Preparing, Installing, Taking, ReplacementUnchanged, Matches
  <1> QED  BY <1>1, <1>2, <1>3, <1>4, <1>5, <1>6, <1>8, SoloStep DEF RunInv

\* An install publishes over the recorded subtitle or at a free destination.
LEMMA PublishStep ==
    ASSUME Inv, TypeOK', NEW r \in Runs, PublishStaged(r)
    PROVE  Inv'
  <1> USE Now
  <1>1. Solo(r) /\ UNCHANGED <<copy, aside, record, pending, lost>> /\ run[r].phase = "verified"
    <2>1. run[r].phase = "verified" /\ mode = "up" /\ \A o \in Runs \ {r} : ~Active(o)
      BY Going DEF PublishStaged, Finished
    <2>2. \A o \in Runs \ {r} : run'[o] = run[o]
      BY DEF PublishStaged, GoTo, TypeOK
    <2> QED  BY <2>1, <2>2 DEF Solo, PublishStaged
  <1>2. /\ run[r].existing = record /\ run[r].text \in Texts /\ ~run[r].published
        /\ staged[r] = File(r, "stage", run[r].text)
        /\ run[r].replacing => record.found /\ record.text # run[r].text
    BY <1>1 DEF Knows, Preparing
  <1>3. /\ pending[r].kind = "install" /\ pending[r].text = run[r].text
        /\ pending[r].copied = run[r].replacing
    BY <1>1 DEF RowKept, Installing
  <1>4. CASE PublicationBlocked(r)
    <2>1. GoTo(r, "undo") /\ UNCHANGED <<dest, staged>>
      BY <1>4 DEF PublishStaged
    <2>2. /\ run'[r].phase = "undo"
          /\ run'[r].text = run[r].text /\ run'[r].existing = run[r].existing
          /\ run'[r].replacing = run[r].replacing /\ run'[r].published = run[r].published
      BY <2>1, Goes DEF Phases
    <2>3. StoreInv'
      BY <1>1, <2>1, StoreCopies
    <2>4. Names(r)
      BY <1>1, <2>2 DEF Names, Held
    <2>5. RowKept(r)'
      BY <1>1, <2>1, <2>2, Absent DEF RowKept, Rowless, Installing, Taking
    <2>6. Knows(r)'
      BY <1>1, <2>1, <2>2 DEF Knows, Preparing, Installing, Taking
    <2>7. Sees(r)' /\ Takes(r)'
      BY <1>1, <1>2, <2>1, <2>2 DEF Sees, Takes, Preparing, Installing, Taking
    <2> QED  BY <1>1, <2>2, <2>3, <2>4, <2>5, <2>6, <2>7, SoloStep DEF RunInv
  <1>5. CASE ~PublicationBlocked(r)
    <2>1. dest' = File(r, "stage", run[r].text)
      BY <1>2, <1>5 DEF PublishStaged
    <2>2. /\ run'[r].phase = "published" /\ run'[r].published
          /\ run'[r].text = run[r].text /\ run'[r].existing = run[r].existing
          /\ run'[r].replacing = run[r].replacing
      BY <1>5 DEF PublishStaged, TypeOK, RunType
    <2>3. \A o \in Runs : aside[o] = NoFile /\ pending[o].kind # "remove"
      BY <1>1, <1>3, NothingAside DEF StoreInv, AsideReady, Solo
    <2>4. ~run[r].replacing => lost \/ ~record.found
      <3>1. SUFFICES ASSUME ~run[r].replacing PROVE lost \/ ~record.found
        OBVIOUS
      <3>2. dest = NoFile
        BY <1>1, <1>5, <3>1 DEF Sees, PublicationBlocked
      <3>3. \A o \in Runs : ~Unrecorded(o) /\ ~Undoable(o)
        BY <3>2, <2>3, Absent, NotUnrecorded DEF Undoable
      <3> QED  BY <3>2, <3>3 DEF StoreInv, Agree, Matches
    <2>5. \A o \in Runs \ {r} : ~Unrecorded(o)'
      BY <2>1, Absent DEF Unrecorded, PendingPublicationOwned
    <2>6. run[r].replacing => copy[r] # NoFile /\ copy[r].text = record.text
      BY <1>1 DEF Sees, Knows
    <2>7. UndoReady'
      BY <1>1, <1>2, <1>3, <2>4, <2>5, <2>6 DEF UndoReady
    <2>8. Agree'
      <3>1. Unrecorded(r)' \/ (record.found /\ record.text = run[r].text)
        BY <1>1, <1>3, <2>1, Absent DEF Unrecorded, PendingPublicationOwned
      <3> QED  BY <1>1, <2>1, <3>1, Absent DEF Agree, Matches
    <2>9. StoreInv'
      BY <1>1, <2>3, <2>7, <2>8 DEF StoreInv, OneRemoval, RecordOK, AsideReady
    <2>10. Names(r)
      BY <1>1, <2>2 DEF Names, Held
    <2>11. RowKept(r)'
      BY <1>1, <1>2, <1>3, <2>2 DEF RowKept, Rowless, Installing, Taking
    <2>12. Knows(r)'
      BY <1>1, <1>2, <2>2 DEF Knows, Preparing, Installing, Taking
    <2>13. Sees(r)' /\ Takes(r)'
      BY <1>1, <2>1, <2>2, <2>4 DEF Sees, Takes, Preparing, Installing, Taking
    <2> QED  BY <1>1, <2>2, <2>9, <2>10, <2>11, <2>12, <2>13, SoloStep DEF RunInv
  <1> QED  BY <1>4, <1>5

LEMMA RecordStep ==
    ASSUME Inv, TypeOK', NEW r \in Runs, RecordInstallation(r)
    PROVE  Inv'
  <1> USE Now
  <1>1. Solo(r) /\ UNCHANGED <<dest, hidden>> /\ run[r].phase = "published"
    <2>1. run[r].phase = "published" /\ mode = "up" /\ \A o \in Runs \ {r} : ~Active(o)
      BY Going DEF RecordInstallation, Finished
    <2>2. \A o \in Runs \ {r} : run'[o] = run[o] /\ pending'[o] = pending[o]
      BY DEF RecordInstallation, GoTo, TypeOK
    <2> QED  BY <2>1, <2>2 DEF Solo, RecordInstallation
  <1>2. run[r].text \in Texts /\ run[r].published
    BY <1>1 DEF Knows, Installing
  <1>3. pending[r].kind = "install" /\ pending[r].text = run[r].text
    BY <1>1 DEF RowKept, Installing
  <1>4. CASE run[r].cancelled
    <2>1. GoTo(r, "undo") /\ UNCHANGED <<record, pending, lost>>
      BY <1>4 DEF RecordInstallation, TypeOK
    <2>2. /\ run'[r].phase = "undo"
          /\ run'[r].text = run[r].text /\ run'[r].existing = run[r].existing
          /\ run'[r].replacing = run[r].replacing /\ run'[r].published = run[r].published
      BY <2>1, Goes DEF Phases
    <2>3. StoreInv'
      BY <1>1, <2>1, StoreCopies DEF hidden
    <2>4. Names(r)
      BY <1>1, <2>1, <2>2 DEF Names, Held
    <2>5. RowKept(r)'
      BY <1>1, <2>1, <2>2, Absent DEF RowKept, Rowless, Installing, Taking
    <2>6. Knows(r)'
      BY <1>1, <2>1, <2>2 DEF Knows, Preparing, Installing, Taking
    <2>7. Sees(r)' /\ Takes(r)'
      BY <1>1, <1>2, <2>1, <2>2 DEF Sees, Takes, Preparing, Installing, Taking
    <2> QED  BY <1>1, <2>2, <2>3, <2>4, <2>5, <2>6, <2>7, SoloStep DEF RunInv
  <1>5. CASE ~run[r].cancelled
    <2>1. GoTo(r, "recorded") /\ pending'[r] = NoRow
      BY <1>5 DEF RecordInstallation, TypeOK
    <2>2. /\ record'.found /\ record'.text = run[r].text
          /\ record'.rollback \in {r, NoRun}
      BY <1>5 DEF RecordInstallation
    <2>3. run'[r].phase = "recorded" /\ run'[r].existing = run[r].existing
      BY <2>1, Goes DEF Phases
    <2>4. \A o \in Runs : aside[o] = NoFile /\ pending[o].kind # "remove"
      BY <1>1, <1>3, NothingAside DEF StoreInv, AsideReady, Solo
    <2>5. dest # NoFile /\ dest.text \in {OwnText, run[r].text}
      BY <1>1, Absent DEF Sees
    <2>6. ASSUME NEW o \in Runs PROVE ~Unrecorded(o)'
      <3>1. pending'[o].kind = "install" => pending'[o].text \in Texts
        BY <1>1, <2>1, RowTexts, Absent DEF Solo
      <3> QED  BY <1>1, <2>2, <2>5, <3>1, NotUnrecordedNext
    <2>7. \A o \in Runs : aside'[o] = NoFile /\ pending'[o].kind # "remove"
      BY <1>1, <2>1, <2>4, Absent DEF Solo, hidden
    <2>8. Agree'
      BY <1>1, <2>2, <2>5 DEF Agree, Matches
    <2>9. StoreInv'
      BY <1>2, <2>2, <2>6, <2>7, <2>8 DEF StoreInv, OneRemoval, RecordOK, AsideReady, UndoReady
    <2>10. Names(r)
      BY <1>1, <2>1, <2>2, <2>3, Absent DEF Names, Held
    <2>11. RowKept(r)'
      BY <1>1, <2>1, <2>3, Absent DEF RowKept, Rowless, Installing, Taking
    <2>12. Knows(r)' /\ Sees(r)' /\ Takes(r)'
      BY <2>3 DEF Knows, Sees, Takes, Preparing, Installing, Taking
    <2> QED  BY <1>1, <2>3, <2>9, <2>10, <2>11, <2>12, SoloStep DEF RunInv
  <1> QED  BY <1>4, <1>5

\* A copy that a record or a run names belongs to no unrecorded publication.
LEMMA HeldCopy ==
    ASSUME NEW o \in Runs, Held(o)
    PROVE  ~Unrecorded(o)
  BY Absent DEF Held, Unrecorded

LEMMA DiscardStep ==
    ASSUME Inv, TypeOK', NEW r \in Runs, DiscardCopies(r)
    PROVE  Inv'
  <1> USE Now
  <1>1. Solo(r) /\ UNCHANGED <<dest, aside, record, pending, lost>> /\ run[r].phase = "recorded"
    BY Going DEF DiscardCopies, Solo, GoTo, TypeOK, Finished
  <1>2. run'[r].phase = "discarded" /\ run'[r].existing = run[r].existing
    BY Goes DEF Phases, DiscardCopies
  <1>3. pending[r] = NoRow /\ ~Unrecorded(r)
    BY <1>1, Absent DEF RowKept, Rowless, Unrecorded
  <1>4. ASSUME NEW o \in Runs, Unrecorded(o) PROVE copy'[o] = copy[o]
    <2>1. o # run[r].existing.rollback
      BY <1>4, HeldCopy DEF Inv, CopiesHeld
    <2> QED  BY <1>3, <1>4, <2>1 DEF DiscardCopies
  <1>5. StoreInv'
    BY <1>1, <1>4, StoreCopies
  <1>6. Names(r)
    BY <1>1, <1>2 DEF Names, Held
  <1>7. RowKept(r)'
    BY <1>1, <1>2, <1>3, Absent DEF RowKept, Rowless, Installing, Taking
  <1>8. Knows(r)' /\ Sees(r)' /\ Takes(r)'
    BY <1>2 DEF Knows, Sees, Takes, Preparing, Installing, Taking
  <1> QED  BY <1>1, <1>2, <1>5, <1>6, <1>7, <1>8, SoloStep DEF RunInv

LEMMA ClearStep ==
    ASSUME Inv, TypeOK', NEW r \in Runs, ClearInstallationRollback(r)
    PROVE  Inv'
  <1> USE Now
  <1>1. Solo(r) /\ UNCHANGED <<dest, hidden, pending, lost>> /\ run[r].phase = "discarded"
    BY Going DEF ClearInstallationRollback, Solo, GoTo, TypeOK, Finished
  <1>2. pending[r] = NoRow
    BY <1>1 DEF RowKept, Rowless
  <1>3. /\ record'.found = record.found /\ record'.text = record.text
        /\ record'.rollback \in {record.rollback, NoRun}
    BY DEF ClearInstallationRollback, TypeOK, RecordType
  <1>4. run'[r].phase = "done" /\ run'[r].existing.rollback = NoRun
    BY Goes DEF Phases, ClearInstallationRollback
  <1>5. StoreInv'
    BY <1>1, <1>3, StoreCopies DEF hidden
  <1>6. Names(r)
    BY <1>1, <1>3, <1>4 DEF Names, Held
  <1>7. RunInv(r)'
    BY <1>1, <1>2, <1>4, Ended DEF Solo
  <1> QED  BY <1>1, <1>4, <1>5, <1>6, <1>7, SoloStep

-----------------------------------------------------------------------------
(* Undoing a failed install.                                                *)

LEMMA OwnedStep ==
    ASSUME Inv, TypeOK', NEW r \in Runs, CheckOwned(r)
    PROVE  Inv'
  <1> USE Now
  <1>1. Solo(r) /\ UNCHANGED <<dest, hidden, record, pending, lost>> /\ run[r].phase = "undo"
    BY Going DEF CheckOwned, Solo, GoTo, TypeOK, Finished
  <1>2. /\ run'[r].phase = IF run[r].published /\ OwnsPublication(r) THEN "undoing" ELSE "kept"
        /\ run'[r].text = run[r].text /\ run'[r].existing = run[r].existing
        /\ run'[r].replacing = run[r].replacing /\ run'[r].published = run[r].published
    BY Goes DEF Phases, CheckOwned
  <1>3. StoreInv'
    BY <1>1, StoreCopies DEF hidden
  <1>4. Names(r)
    BY <1>1, <1>2 DEF Names, Held
  <1>5. RowKept(r)'
    BY <1>1, <1>2, Absent DEF RowKept, Rowless, Installing, Taking
  <1>6. Knows(r)'
    BY <1>1, <1>2 DEF Knows, Preparing, Installing, Taking
  <1>7. run[r].published =>
          IF OwnsPublication(r) THEN dest = File(r, "stage", run[r].text) ELSE dest.text = OwnText
    BY <1>1, Absent DEF Sees, Knows, OwnsPublication, Installing
  <1>8. Sees(r)' /\ Takes(r)'
    BY <1>1, <1>2, <1>7 DEF Sees, Takes, Preparing, Installing, Taking
  <1> QED  BY <1>1, <1>2, <1>3, <1>4, <1>5, <1>6, <1>8, SoloStep DEF RunInv

\* A run whose row only waits to be deleted.
LEMMA Settling ==
    ASSUME Inv, NEW r \in Runs, mode' = "up", run'[r].phase = "settling", pending'[r] = pending[r],
           pending[r].kind # "none", ~Unrecorded(r)', aside'[r] = NoFile
    PROVE  RunInv(r)'
  <1>1. RowKept(r)'
    BY Absent DEF Inv, RunInv, RowKept, Rowless, Installing, Taking
  <1>2. Knows(r)' /\ Sees(r)' /\ Takes(r)'
    BY DEF Knows, Sees, Takes, Preparing, Installing, Taking
  <1> QED  BY <1>1, <1>2 DEF RunInv

LEMMA UndoStepKeeps ==
    ASSUME Inv, TypeOK', NEW r \in Runs, UndoPublication(r)
    PROVE  Inv'
  <1> USE Now
  <1>1. Solo(r) /\ UNCHANGED <<aside, record, pending, lost>> /\ run[r].phase = "undoing"
    BY Going DEF UndoPublication, Solo, GoTo, TypeOK, Finished
  <1>2. /\ run[r].text \in Texts /\ dest = File(r, "stage", run[r].text)
        /\ run[r].replacing => record.found /\ record.text # run[r].text
        /\ ~run[r].replacing => lost \/ ~record.found
    BY <1>1 DEF Sees, Knows, Installing
  <1>3. /\ pending[r].kind = "install" /\ pending[r].text = run[r].text
        /\ pending[r].copied = run[r].replacing
    BY <1>1 DEF RowKept, Installing
  <1>4. run[r].replacing => copy[r] # NoFile /\ copy[r].text = record.text
    <2>1. run[r].replacing => Unrecorded(r)
      BY <1>2, <1>3, Absent DEF Unrecorded, PendingPublicationOwned
    <2> QED  BY <1>3, <2>1 DEF StoreInv, UndoReady
  <1>5. /\ dest' = Undone(r) /\ GoTo(r, "settling")
        /\ \A o \in Runs \ {r} : copy'[o] = copy[o]
    BY <1>2, <1>4, Absent DEF UndoPublication, TypeOK
  <1>6. /\ run[r].replacing => dest' # NoFile /\ dest'.text = record.text
        /\ ~run[r].replacing => dest' = NoFile
    BY <1>4, <1>5 DEF Undone
  <1>7. run'[r].phase = "settling" /\ run'[r].existing = run[r].existing
    BY <1>5, Goes DEF Phases
  <1>8. \A o \in Runs : aside[o] = NoFile /\ pending[o].kind # "remove"
    BY <1>1, <1>3, NothingAside DEF StoreInv, AsideReady, Solo
  <1>9. \A o \in Runs : ~Unrecorded(o)'
    BY <1>1, <1>2, <1>6, RowTexts, NotUnrecordedNext, Absent
  <1>10. Agree'
    BY <1>1, <1>2, <1>6 DEF Agree, Matches
  <1>11. StoreInv'
    BY <1>1, <1>8, <1>9, <1>10 DEF StoreInv, OneRemoval, RecordOK, AsideReady, UndoReady
  <1>12. Names(r)
    BY <1>1, <1>7 DEF Names, Held
  <1>13. RunInv(r)'
    BY <1>1, <1>3, <1>7, <1>8, <1>9, Settling DEF Solo
  <1> QED  BY <1>1, <1>7, <1>11, <1>12, <1>13, SoloStep

LEMMA KeepStep ==
    ASSUME Inv, TypeOK', NEW r \in Runs, KeepDestination(r)
    PROVE  Inv'
  <1> USE Now
  <1>1. Solo(r) /\ UNCHANGED <<dest, aside, record, pending, lost>> /\ run[r].phase = "kept"
    BY Going DEF KeepDestination, Solo, GoTo, TypeOK, Finished
  <1>2. dest.text = OwnText \/ (record.found /\ dest.text = record.text)
    BY <1>1 DEF Sees, Knows, Installing
  <1>3. pending[r].kind = "install" /\ aside[r] = NoFile
    BY <1>1 DEF RowKept, Installing, StoreInv, AsideReady
  <1>4. \A o \in Runs : ~Unrecorded(o)
    BY <1>2, NotUnrecorded
  <1>5. run'[r].phase = "settling" /\ run'[r].existing = run[r].existing
    BY Goes DEF KeepDestination, Phases
  <1>6. StoreInv'
    BY <1>1, <1>4, StoreCopies
  <1>7. Names(r)
    BY <1>1, <1>5 DEF Names, Held
  <1>8. ~Unrecorded(r)'
    BY <1>1, <1>4 DEF Unrecorded, PendingPublicationOwned
  <1>9. RunInv(r)'
    BY <1>1, <1>3, <1>5, <1>8, Settling DEF Solo
  <1> QED  BY <1>1, <1>5, <1>6, <1>7, <1>9, SoloStep

\* The row of r is deleted, and nothing else changes.
LEMMA RowGone ==
    ASSUME Inv, TypeOK', NEW r \in Runs, UNCHANGED <<dest, copy, aside, record, lost>>,
           \A o \in Runs \ {r} : pending'[o] = pending[o], pending'[r] = NoRow,
           ~Unrecorded(r), aside[r] = NoFile
    PROVE  StoreInv'
  <1>1. ~Unrecorded(r)' /\ pending'[r].kind # "remove"
    BY Absent DEF Unrecorded
  <1> QED  BY <1>1, StoreRow, Now

LEMMA FinishStep ==
    ASSUME Inv, TypeOK', NEW r \in Runs, FinishPendingInstall(r)
    PROVE  Inv'
  <1> USE Now
  <1>1. /\ Solo(r) /\ UNCHANGED <<dest, hidden, record, lost>> /\ run[r].phase = "settling"
        /\ pending'[r] = NoRow
    BY Going DEF FinishPendingInstall, Solo, GoTo, TypeOK, Finished
  <1>2. ~Unrecorded(r) /\ aside[r] = NoFile
    BY <1>1 DEF RowKept
  <1>3. run'[r].phase = "done" /\ run'[r].existing.rollback = NoRun
    BY Goes DEF FinishPendingInstall, Phases
  <1>4. StoreInv'
    BY <1>1, <1>2, RowGone DEF Solo, hidden
  <1>5. Names(r)
    BY <1>1, <1>3, Absent DEF Names, Held
  <1>6. RunInv(r)'
    BY <1>1, <1>3, Ended DEF Solo
  <1> QED  BY <1>1, <1>3, <1>4, <1>5, <1>6, SoloStep

-----------------------------------------------------------------------------
(* Removing.                                                                *)

LEMMA ListStep ==
    ASSUME Inv, TypeOK', NEW r \in Runs, ListRemoval(r)
    PROVE  Inv'
  <1> USE Now
  <1>1. Solo(r) /\ UNCHANGED <<dest, hidden, record, lost>> /\ run[r].phase = "removing"
    <2>1. run[r].phase = "removing" /\ mode = "up" /\ \A o \in Runs \ {r} : ~Active(o)
      BY Going DEF ListRemoval, Finished
    <2>2. \A o \in Runs \ {r} : run'[o] = run[o] /\ pending'[o] = pending[o]
      BY DEF ListRemoval, GoTo, TypeOK
    <2> QED  BY <2>1, <2>2 DEF Solo, ListRemoval
  <1>2. pending[r] = NoRow /\ ~Unrecorded(r) /\ pending[r].kind # "remove"
    BY <1>1, Absent DEF RowKept, Rowless, Unrecorded
  <1>3. aside[r] = NoFile /\ run[r].existing = record /\ record.found /\ record.text \in Texts
    BY <1>1, <1>2 DEF StoreInv, AsideReady, RecordOK, Knows, Takes
  <1>4. CASE ~(Matches(dest, run[r].existing) /\ ~run[r].cancelled)
    <2>1. GoTo(r, "done") /\ pending' = pending
      BY <1>4 DEF ListRemoval
    <2> QED  BY <1>1, <1>2, <2>1, EndStep DEF hidden
  <1>5. CASE Matches(dest, run[r].existing) /\ ~run[r].cancelled
    <2>1. /\ pending'[r].kind = "remove" /\ pending'[r].text = run[r].existing.text
          /\ pending'[r].old = run[r].existing.rollback /\ GoTo(r, "listed")
      BY <1>5 DEF ListRemoval, TypeOK
    <2>2. run'[r].phase = "listed" /\ run'[r].existing = run[r].existing
      BY <2>1, Goes DEF Phases
    <2>3. ~Unrecorded(r)'
      BY <2>1 DEF Unrecorded
    <2>4. \A o \in Runs \ {r} : pending[o].kind # "remove"
      BY <1>1, NothingAside DEF Solo
    <2>5. StoreInv'
      BY <1>1, <1>2, <1>3, <2>3, <2>4, StoreRow DEF Solo, hidden
    <2>6. Names(r)
      BY <1>1, <2>1, <2>2 DEF Names, Held
    <2>7. RowKept(r)'
      BY <1>1, <1>3, <2>1, <2>2 DEF RowKept, Rowless, Installing, Taking, Solo
    <2>8. Knows(r)' /\ Sees(r)'
      BY <1>1, <1>3, <2>2 DEF Knows, Sees, Preparing, Installing, Taking
    <2>9. Takes(r)'
      BY <1>1, <1>3, <1>5, <2>2 DEF Takes, Taking, Matches, hidden
    <2> QED  BY <1>1, <2>2, <2>5, <2>6, <2>7, <2>8, <2>9, SoloStep DEF RunInv
  <1> QED  BY <1>4, <1>5

\* What a removal knows once its row is written.
LEMMA Removing ==
    ASSUME Inv, NEW r \in Runs, run[r].phase \in Taking
    PROVE  /\ mode = "up" /\ \A o \in Runs \ {r} : ~Active(o)
           /\ pending[r].kind = "remove" /\ pending[r].text \in Texts
           /\ pending[r].text = run[r].existing.text
           /\ \A o \in Runs \ {r} : aside[o] = NoFile /\ pending[o].kind # "remove"
           /\ run[r].phase # "removed" => /\ run[r].existing = record /\ record.found
                                          /\ ~RemovalCommitted(r)
  <1> USE Now
  <1>1. mode = "up" /\ \A o \in Runs \ {r} : ~Active(o)
    BY Going DEF Taking, Finished
  <1>2. pending[r].kind = "remove" /\ pending[r].text = run[r].existing.text
    BY DEF RowKept
  <1>3. run[r].phase # "removed" => run[r].existing = record /\ record.found
    BY DEF Knows, Takes
  <1> QED  BY <1>1, <1>2, <1>3, RowTexts, NothingAside DEF RemovalCommitted

LEMMA MoveStep ==
    ASSUME Inv, TypeOK', NEW r \in Runs, MoveAside(r)
    PROVE  Inv'
  <1> USE Now
  <1>1. Solo(r) /\ UNCHANGED <<copy, record, lost>> /\ run[r].phase = "listed"
    <2>1. run[r].phase = "listed" /\ mode = "up" /\ \A o \in Runs \ {r} : ~Active(o)
      BY Going DEF MoveAside, Finished
    <2>2. \A o \in Runs \ {r} : run'[o] = run[o] /\ pending'[o] = pending[o]
      BY DEF MoveAside, GoTo, TypeOK
    <2> QED  BY <2>1, <2>2 DEF Solo, MoveAside
  <1>2. /\ pending[r].kind = "remove" /\ pending[r].text = record.text /\ record.found
        /\ run[r].existing = record /\ ~RemovalCommitted(r)
        /\ aside[r] = NoFile /\ dest.text \in {OwnText, record.text}
    BY <1>1, Removing DEF Takes, Taking
  <1>3. ~Unrecorded(r)
    BY <1>2 DEF Unrecorded
  <1>4. CASE dest = NoFile
    <2>1. pending'[r] = NoRow /\ GoTo(r, "done") /\ UNCHANGED <<dest, aside>>
      BY <1>4 DEF MoveAside, TypeOK
    <2>2. run'[r].phase = "done" /\ run'[r].existing.rollback = NoRun
      BY <2>1, Goes DEF Phases
    <2>3. StoreInv'
      BY <1>1, <1>2, <1>3, <2>1, RowGone DEF Solo
    <2>4. Names(r)
      BY <1>1, <2>1, <2>2, Absent DEF Names, Held
    <2>5. RunInv(r)'
      BY <1>1, <2>1, <2>2, Ended DEF Solo
    <2> QED  BY <1>1, <2>2, <2>3, <2>4, <2>5, SoloStep
  <1>5. CASE dest # NoFile
    <2>1. /\ aside'[r] = dest /\ dest' = NoFile /\ GoTo(r, "moved") /\ pending' = pending
          /\ \A o \in Runs \ {r} : aside'[o] = aside[o]
      BY <1>5 DEF MoveAside, TypeOK
    <2>2. run'[r].phase = "moved" /\ run'[r].existing = run[r].existing
      BY <2>1, Goes DEF Phases
    <2>3. \A o \in Runs : ~Unrecorded(o)'
      BY <2>1, RowTexts, NotUnrecordedNext, Absent
    <2>4. ~RemovalCommitted(r)'
      BY <1>1, <1>2, <2>1 DEF RemovalCommitted
    <2>5. \A o \in Runs \ {r} : aside'[o] = NoFile
      BY <1>1, <2>1, Removing DEF Taking
    <2>6. AsideReady'
      BY <1>2, <2>1, <2>4, <2>5, Absent DEF AsideReady
    <2>7. Undoable(r)'
      BY <1>2, <1>5, <2>1, <2>4 DEF Undoable
    <2>8. StoreInv'
      BY <1>1, <2>1, <2>3, <2>6, <2>7 DEF StoreInv, OneRemoval, RecordOK, UndoReady, Agree
    <2>9. Names(r)
      BY <1>1, <2>1, <2>2 DEF Names, Held
    <2>10. RowKept(r)'
      BY <1>1, <2>1, <2>2 DEF RowKept, Rowless, Installing, Taking, Solo
    <2>11. Knows(r)' /\ Sees(r)'
      BY <1>1, <1>2, <2>2 DEF Knows, Sees, Preparing, Installing, Taking
    <2>12. Takes(r)'
      BY <1>1, <1>2, <1>5, <2>1, <2>2 DEF Takes, Taking
    <2> QED  BY <1>1, <2>2, <2>8, <2>9, <2>10, <2>11, <2>12, SoloStep DEF RunInv
  <1> QED  BY <1>4, <1>5

LEMMA CommitStep ==
    ASSUME Inv, TypeOK', NEW r \in Runs, CommitRemoval(r)
    PROVE  Inv'
  <1> USE Now
  <1>1. Solo(r) /\ UNCHANGED <<dest, hidden, pending, lost>> /\ run[r].phase = "moved"
    BY Going DEF CommitRemoval, Solo, GoTo, TypeOK, Finished
  <1>2. /\ pending[r].kind = "remove" /\ pending[r].text = record.text /\ record.found
        /\ run[r].existing = record
        /\ aside[r] # NoFile /\ dest.text = OwnText
        /\ \A o \in Runs \ {r} : aside[o] = NoFile
    BY <1>1, Removing DEF Takes, Taking, StoreInv, AsideReady
  <1>3. CASE ~RemovalApplies(r)
    <2>1. GoTo(r, "returning") /\ record' = record
      BY <1>3 DEF CommitRemoval
    <2>2. run'[r].phase = "returning" /\ run'[r].existing = run[r].existing
      BY <2>1, Goes DEF Phases
    <2>3. StoreInv'
      BY <1>1, <2>1, StoreCopies DEF hidden
    <2>4. Names(r)
      BY <1>1, <2>1, <2>2 DEF Names, Held
    <2>5. RowKept(r)'
      BY <1>1, <2>2 DEF RowKept, Rowless, Installing, Taking, Solo
    <2>6. Knows(r)' /\ Sees(r)'
      BY <1>1, <1>2, <2>1, <2>2 DEF Knows, Sees, Preparing, Installing, Taking
    <2>7. Takes(r)'
      BY <1>1, <1>2, <2>1, <2>2 DEF Takes, Taking, hidden
    <2> QED  BY <1>1, <2>2, <2>3, <2>4, <2>5, <2>6, <2>7, SoloStep DEF RunInv
  <1>4. CASE RemovalApplies(r)
    <2>1. GoTo(r, "removed") /\ record' = NoRecord /\ aside[r].text = pending[r].text
      BY <1>2, <1>4 DEF CommitRemoval, RemovalApplies, Matches
    <2>2. run'[r].phase = "removed" /\ run'[r].existing = run[r].existing
      BY <2>1, Goes DEF Phases
    <2>3. \A o \in Runs : ~Unrecorded(o)'
      BY <1>1, <1>2, RowTexts, NotUnrecordedNext
    <2>4. ~record'.found /\ record'.rollback = NoRun
      BY <2>1, Absent
    <2>5. AsideReady'
      BY <1>1, <1>2, <2>1 DEF AsideReady, hidden
    <2>6. StoreInv'
      BY <1>1, <1>2, <2>3, <2>4, <2>5 DEF StoreInv, OneRemoval, RecordOK, UndoReady, Agree
    <2>7. Names(r)
      BY <1>1, <2>2, <2>4 DEF Names, Held
    <2>8. RowKept(r)'
      BY <1>1, <2>2 DEF RowKept, Rowless, Installing, Taking, Solo
    <2>9. Knows(r)' /\ Sees(r)' /\ Takes(r)'
      BY <2>2, <2>4 DEF Knows, Sees, Takes, Preparing, Installing, Taking
    <2> QED  BY <1>1, <2>2, <2>6, <2>7, <2>8, <2>9, SoloStep DEF RunInv
  <1> QED  BY <1>3, <1>4

LEMMA CleanUpStep ==
    ASSUME Inv, TypeOK', NEW r \in Runs, CleanUpRemoval(r)
    PROVE  Inv'
  <1> USE Now
  <1>1. Solo(r) /\ UNCHANGED <<dest, record, pending, lost>> /\ run[r].phase = "removed"
    BY Going DEF CleanUpRemoval, Solo, GoTo, TypeOK, Finished
  <1>2. run'[r].phase = "settling" /\ run'[r].existing = run[r].existing
    BY Goes DEF CleanUpRemoval, Phases
  <1>3. /\ pending[r].kind = "remove" /\ ~record.found
        /\ \A o \in Runs \ {r} : aside[o] = NoFile
    BY <1>1, Removing DEF Takes, Taking
  <1>4. \A o \in Runs : aside'[o] = NoFile
    BY <1>3 DEF CleanUpRemoval, TypeOK
  <1>5. ASSUME NEW o \in Runs, Unrecorded(o) PROVE copy'[o] = copy[o]
    BY <1>5, HeldCopy DEF Inv, CopiesHeld, CleanUpRemoval
  <1>6. \A o \in Runs : Unrecorded(o)' = Unrecorded(o) /\ ~Undoable(o)
    BY <1>1, <1>3 DEF Unrecorded, PendingPublicationOwned, Undoable, RemovalCommitted
  <1>7. StoreInv'
    <2>1. OneRemoval' /\ RecordOK' /\ AsideReady'
      BY <1>1, <1>4 DEF StoreInv, OneRemoval, RecordOK, AsideReady
    <2>2. UndoReady'
      BY <1>1, <1>5, <1>6 DEF StoreInv, UndoReady
    <2>3. Agree'
      BY <1>1, <1>6 DEF StoreInv, Agree, Matches
    <2> QED  BY <2>1, <2>2, <2>3 DEF StoreInv
  <1>8. Names(r)
    BY <1>1, <1>2 DEF Names, Held
  <1>9. ~Unrecorded(r)'
    BY <1>1, <1>3 DEF Unrecorded
  <1>10. RunInv(r)'
    BY <1>1, <1>2, <1>3, <1>4, <1>9, Settling DEF Solo
  <1> QED  BY <1>1, <1>2, <1>7, <1>8, <1>10, SoloStep

LEMMA RestoreStep ==
    ASSUME Inv, TypeOK', Orderly, NEW r \in Runs, RestoreRemoved(r)
    PROVE  Inv'
  <1> USE Now
  <1>1. Solo(r) /\ UNCHANGED <<copy, record, pending, lost>> /\ run[r].phase = "returning"
    BY Going DEF RestoreRemoved, Solo, GoTo, TypeOK, Finished
  <1>2. /\ dest' = aside[r] /\ GoTo(r, "settling") /\ aside'[r] = NoFile
        /\ \A o \in Runs \ {r} : aside'[o] = aside[o]
    BY DEF RestoreRemoved, Orderly, TypeOK
  <1>3. run'[r].phase = "settling" /\ run'[r].existing = run[r].existing
    BY <1>2, Goes DEF Phases
  <1>4. /\ pending[r].kind = "remove" /\ pending[r].text = record.text /\ record.found
        /\ aside[r] # NoFile
        /\ \A o \in Runs \ {r} : aside[o] = NoFile
    BY <1>1, Removing DEF Takes, Taking
  <1>5. aside[r].text \in {OwnText, record.text}
    BY <1>4 DEF StoreInv, AsideReady
  <1>6. \A o \in Runs : ~Unrecorded(o)'
    BY <1>1, <1>2, <1>4, <1>5, RowTexts, NotUnrecordedNext
  <1>7. Agree'
    BY <1>1, <1>2, <1>4, <1>5 DEF Agree, Matches
  <1>8. StoreInv'
    BY <1>1, <1>2, <1>4, <1>6, <1>7 DEF StoreInv, OneRemoval, RecordOK, UndoReady, AsideReady
  <1>9. Names(r)
    BY <1>1, <1>3 DEF Names, Held
  <1>10. RunInv(r)'
    BY <1>1, <1>2, <1>3, <1>4, <1>6, Settling DEF Solo
  <1> QED  BY <1>1, <1>3, <1>8, <1>9, <1>10, SoloStep

-----------------------------------------------------------------------------
(* Faults, a crash and the startup sweep.                                   *)

LEMMA FailStagingStep ==
    ASSUME Inv, TypeOK', NEW r \in Runs, FailStaging(r)
    PROVE  Inv'
  <1> USE Now
  <1>1. /\ Solo(r) /\ UNCHANGED <<dest, aside, record, pending, lost>> /\ run[r].phase \in Rowless
        /\ GoTo(r, "done")
    BY Going DEF FailStaging, Solo, GoTo, TypeOK, Finished, Rowless
  <1>2. pending[r].kind # "remove" /\ ~Unrecorded(r)
    BY <1>1, Absent DEF RowKept, Unrecorded
  <1>3. \A o \in Runs \ {r} : copy'[o] = copy[o]
    BY DEF FailStaging, TypeOK
  <1> QED  BY <1>1, <1>2, <1>3, EndStep

LEMMA FailInstallStep ==
    ASSUME Inv, TypeOK', NEW r \in Runs, FailInstall(r)
    PROVE  Inv'
  <1> USE Now
  <1>1. /\ Solo(r) /\ UNCHANGED <<dest, hidden, record, pending, lost>>
        /\ run[r].phase \in {"pending", "verified", "published", "moved"}
    BY Going DEF FailInstall, Solo, GoTo, TypeOK, Finished
  <1>2. /\ run'[r].phase = IF run[r].phase = "moved" THEN "returning" ELSE "undo"
        /\ run'[r].text = run[r].text /\ run'[r].existing = run[r].existing
        /\ run'[r].replacing = run[r].replacing /\ run'[r].published = run[r].published
    BY Goes DEF Phases, FailInstall
  <1>3. StoreInv'
    BY <1>1, StoreCopies DEF hidden
  <1>4. Names(r)
    BY <1>1, <1>2 DEF Names, Held
  <1>5. RowKept(r)'
    BY <1>1, <1>2, Absent DEF RowKept, Rowless, Installing, Taking, Solo
  <1>6. Knows(r)'
    BY <1>1, <1>2 DEF Knows, Preparing, Installing, Taking
  <1>7. run[r].phase \in {"pending", "verified"} => ~run[r].published
    BY DEF Knows, Preparing
  <1>8. Sees(r)'
    <2>1. run'[r].phase = "undo" /\ run'[r].published => run[r].phase = "published"
      BY <1>1, <1>2, <1>7
    <2>2. run'[r].phase = "undo" /\ ~run'[r].published => run[r].phase \in Preparing
      BY <1>1, <1>2 DEF Knows, Preparing
    <2> QED  BY <1>1, <1>2, <2>1, <2>2 DEF Sees, Preparing
  <1>9. Takes(r)'
    BY <1>1, <1>2 DEF Takes, Taking, hidden
  <1> QED  BY <1>1, <1>2, <1>3, <1>4, <1>5, <1>6, <1>8, <1>9, SoloStep DEF RunInv

LEMMA UnknownStep ==
    ASSUME Inv, TypeOK', Orderly, NEW r \in Runs, UnknownDestination(r)
    PROVE  Inv'
  <1> USE Now
  <1>1. /\ Solo(r) /\ UNCHANGED <<dest, copy, aside, record, pending, lost>> /\ run[r].phase = "undo"
        /\ run[r].published
    BY Going DEF UnknownDestination, Solo, GoTo, TypeOK, Finished
  <1>2. pending[r].kind = "install"
    BY <1>1 DEF RowKept, Installing
  <1>3. CASE run[r].replacing
    BY <1>1, <1>2, <1>3, EndStep DEF UnknownDestination
  <1>4. CASE ~run[r].replacing
    <2>1. GoTo(r, "undoing") /\ staged' = staged /\ OwnsPublication(r)
      BY <1>4 DEF UnknownDestination, Orderly
    <2>2. /\ run'[r].phase = "undoing"
          /\ run'[r].text = run[r].text /\ run'[r].existing = run[r].existing
          /\ run'[r].replacing = run[r].replacing /\ run'[r].published = run[r].published
      BY <2>1, Goes DEF Phases
    <2>3. StoreInv'
      BY <1>1, StoreCopies
    <2>4. Names(r)
      BY <1>1, <2>2 DEF Names, Held
    <2>5. RowKept(r)'
      BY <1>1, <2>2, Absent DEF RowKept, Rowless, Installing, Taking
    <2>6. Knows(r)'
      BY <1>1, <2>2 DEF Knows, Preparing, Installing, Taking
    <2>7. dest = File(r, "stage", run[r].text)
      BY <1>1, <2>1, Absent DEF Sees, OwnsPublication
    <2>8. Sees(r)' /\ Takes(r)'
      BY <1>1, <2>2, <2>7 DEF Sees, Takes, Preparing, Installing, Taking
    <2> QED  BY <1>1, <2>2, <2>3, <2>4, <2>5, <2>6, <2>8, SoloStep DEF RunInv
  <1> QED  BY <1>3, <1>4

LEMMA FailCleanupStep ==
    ASSUME Inv, TypeOK', Orderly, NEW r \in Runs, FailCleanup(r)
    PROVE  Inv'
  <1>1. /\ Solo(r) /\ UNCHANGED <<dest, copy, aside, record, pending, lost>> /\ GoTo(r, "done")
        /\ pending[r].kind # "remove"
    BY Going, Now DEF FailCleanup, Solo, GoTo, TypeOK, Finished, Orderly
  <1> QED  BY <1>1, EndStep

LEMMA AbandonStep ==
    ASSUME Inv, TypeOK', NEW r \in Runs, Abandon(r)
    PROVE  Inv'
  <1> USE Now
  <1>1. run[r].phase \notin Finished \cup {"swept", "skipped"}
    BY DEF Abandon, Active, Inv, Alone
  <1>2. Solo(r) /\ UNCHANGED <<dest, hidden, record, pending, lost>>
    BY <1>1, Going DEF Abandon, Solo, TypeOK
  <1>3. /\ run'[r].phase = run[r].phase
        /\ run'[r].text = run[r].text /\ run'[r].existing = run[r].existing
        /\ run'[r].replacing = run[r].replacing /\ run'[r].published = run[r].published
    BY DEF Abandon, TypeOK, RunType
  <1>4. StoreInv'
    BY <1>2, StoreCopies DEF hidden
  <1>5. Names(r)
    BY <1>2, <1>3 DEF Names, Held
  <1>6. RowKept(r)'
    BY <1>2, <1>3 DEF RowKept, Unrecorded, PendingPublicationOwned, hidden, Solo
  <1>7. Knows(r)' /\ Sees(r)' /\ Takes(r)'
    BY <1>2, <1>3 DEF Knows, Sees, Takes, hidden, Matches
  <1> QED  BY <1>1, <1>2, <1>3, <1>4, <1>5, <1>6, <1>7, SoloStep DEF RunInv

LEMMA CrashStep ==
    ASSUME Inv, TypeOK', Crash
    PROVE  Inv'
  <1> USE Now
  <1>1. mode' = "starting" /\ UNCHANGED <<dest, hidden, record, pending, lost>>
    BY DEF Crash
  <1>2. \A r \in Runs : /\ run'[r].phase \in {"new", "done", "dead"}
                        /\ run[r].phase \in Finished => run'[r] = run[r]
                        /\ run[r].phase \notin Finished =>
                             run'[r].phase = "dead" /\ run'[r].existing.rollback = NoRun
    BY Absent DEF Crash, Active, Finished, NewRun
  <1>3. Alone'
    BY <1>1, <1>2 DEF Alone, Active, Finished
  <1>4. StoreInv'
    <2>1. StoreInv
      BY DEF Inv
    <2> QED  BY <1>1, <2>1, StoreCopies DEF hidden
  <1>5. ASSUME NEW r \in Runs PROVE RunInv(r)'
    <2>1. pending[r].kind = "remove" => run'[r].phase = "dead"
      BY <1>2 DEF RowKept, Taking, Finished, TypeOK
    <2>2. run'[r].phase = "new" => pending[r] = NoRow
      BY <1>2 DEF RowKept, Rowless, Finished
    <2>3. RowKept(r)'
      BY <1>1, <1>2, <2>1, <2>2 DEF RowKept, Rowless, Installing, Taking
    <2>4. Knows(r)' /\ Sees(r)' /\ Takes(r)'
      BY <1>2 DEF Knows, Sees, Takes, Preparing, Installing, Taking
    <2> QED  BY <2>3, <2>4 DEF RunInv
  <1>6. CopiesHeld'
    <2>1. \A o \in Runs \cup {NoRun} : Held(o) => Held(o)'
      BY <1>1, <1>2 DEF Held, Finished
    <2>2. /\ record.rollback \in Runs \cup {NoRun}
          /\ \A o \in Runs : run[o].existing.rollback \in Runs \cup {NoRun} /\ pending[o].old \in Runs \cup {NoRun}
      BY DEF Inv, TypeOK, RunType, RecordType, RowType
    <2>3. Held(NoRun)'
      BY DEF Held
    <2>4. ASSUME NEW o \in Runs PROVE Held(run[o].existing.rollback)'
      BY <1>2, <2>1, <2>2, <2>3 DEF Inv, CopiesHeld
    <2> QED  BY <1>1, <2>1, <2>2, <2>4 DEF Inv, CopiesHeld
  <1> QED  BY <1>3, <1>4, <1>5, <1>6 DEF Inv

\* A step of the sweep on the row of r leaves the other rows as they are.
SweepOf(r) ==
    /\ mode = "starting" /\ mode' = "starting"
    /\ \A o \in Runs \ {r} : run'[o] = run[o] /\ pending'[o] = pending[o]
    /\ run'[r].existing = run[r].existing /\ pending'[r] \in {pending[r], NoRow}
    /\ pending[r] # NoRow /\ record' = record

LEMMA SweepKeeps ==
    ASSUME Inv, TypeOK', NEW r \in Runs, SweepOf(r),
           IF run'[r].phase = "dead" THEN pending'[r] = NoRow
           ELSE /\ pending'[r] = pending[r]
                /\ \/ run'[r].phase = "skipped" /\ pending[r].kind # "remove"
                   \/ run'[r].phase = "swept" /\ ~Unrecorded(r)' /\ aside'[r] = NoFile,
           \A o \in Runs \ {r} : (Unrecorded(o)' => Unrecorded(o)) /\ aside'[o] = aside[o],
           StoreInv'
    PROVE  Inv'
  <1> USE Now
  <1>1. run'[r].phase \in {"dead", "swept", "skipped"}
    OBVIOUS
  <1>2. \A o \in Runs : run[o].phase \in Finished \cup {"swept", "skipped"}
    BY DEF Inv, Alone, Active, SweepOf
  <1>3. Alone'
    BY <1>1, <1>2 DEF Inv, Alone, Active, SweepOf, Finished
  <1>4. CopiesHeld'
    <2>1. \A o \in Runs \cup {NoRun} : Held(o) => Held(o)'
      BY DEF Held, SweepOf
    <2>2. /\ record.rollback \in Runs \cup {NoRun}
          /\ \A o \in Runs : run[o].existing.rollback \in Runs \cup {NoRun} /\ pending[o].old \in Runs \cup {NoRun}
      BY DEF Inv, TypeOK, RunType, RecordType, RowType
    <2>3. \A o \in Runs : run'[o].existing = run[o].existing /\ pending'[o].old \in {pending[o].old, NoRun}
      BY Absent DEF SweepOf
    <2>4. Held(NoRun)'
      BY DEF Held
    <2> QED  BY <2>1, <2>2, <2>3, <2>4 DEF Inv, CopiesHeld, SweepOf
  <1>5. ASSUME NEW o \in Runs PROVE RunInv(o)'
    <2>1. run'[o].phase \in Finished \cup {"swept", "skipped"}
      BY <1>1, <1>2 DEF SweepOf, Finished
    <2>2. Knows(o)' /\ Sees(o)' /\ Takes(o)'
      BY <2>1 DEF Knows, Sees, Takes, Preparing, Installing, Taking, Finished
    <2>3. CASE o = r
      BY <2>2, <2>3, Absent DEF RunInv, RowKept, Rowless, Installing, Taking, SweepOf
    <2>4. CASE o # r
      <3>1. RowKept(o)
        BY DEF Inv, RunInv
      <3>2. run'[o] = run[o] /\ pending'[o] = pending[o] /\ mode' = mode
        BY <2>4 DEF SweepOf
      <3>3. (Unrecorded(o)' => Unrecorded(o)) /\ aside'[o] = aside[o]
        BY <2>4
      <3>4. RowKept(o)'
        BY <2>1, <3>1, <3>2, <3>3 DEF RowKept, Rowless, Installing, Taking, Finished
      <3> QED  BY <2>2, <3>4 DEF RunInv
    <2> QED  BY <2>3, <2>4
  <1> QED  BY <1>3, <1>4, <1>5 DEF Inv

LEMMA RecoverInstallStep ==
    ASSUME Inv, TypeOK', NEW r \in Runs, RecoverInstall(r)
    PROVE  Inv'
  <1> USE Now
  <1>1. /\ UNCHANGED <<aside, record, pending, mode, lost>> /\ mode = "starting"
        /\ pending[r] # NoRow /\ pending[r].kind = "install"
        /\ dest' = IF ~Unrecorded(r) THEN dest ELSE IF pending[r].copied THEN copy[r] ELSE NoFile
        /\ \A o \in Runs \ {r} : copy'[o] = copy[o]
    BY DEF RecoverInstall, Sweeping, Unrecorded, TypeOK
  <1>2. run'[r].phase = "swept" /\ SweepOf(r)
    BY <1>1 DEF RecoverInstall, SweepOf, TypeOK, RunType
  <1>3. aside[r] = NoFile
    BY <1>1 DEF StoreInv, AsideReady
  <1>4. CASE Unrecorded(r)
    <2>1. IF pending[r].copied THEN dest' # NoFile /\ record.found /\ dest'.text = record.text
          ELSE dest' = NoFile /\ (lost \/ ~record.found)
      BY <1>1, <1>4 DEF StoreInv, UndoReady
    <2>2. \A o \in Runs : ~Unrecorded(o)'
      BY <1>1, <2>1, RowTexts, NotUnrecordedNext, Absent
    <2>3. \A o \in Runs : aside[o] = NoFile
      <3>1. dest.text \in Texts
        BY <1>4, RowTexts DEF Unrecorded, PendingPublicationOwned
      <3> QED  BY <3>1 DEF StoreInv, AsideReady
    <2>4. Agree'
      BY <1>1, <2>1 DEF Agree, Matches
    <2>5. StoreInv'
      BY <1>1, <2>2, <2>3, <2>4 DEF StoreInv, OneRemoval, RecordOK, UndoReady, AsideReady
    <2> QED  BY <1>1, <1>2, <1>3, <2>2, <2>5, SweepKeeps
  <1>5. CASE ~Unrecorded(r)
    <2>1. UNCHANGED dest
      BY <1>1, <1>5
    <2>2. StoreInv'
      BY <1>1, <1>5, <2>1, StoreCopies
    <2>3. \A o \in Runs : Unrecorded(o)' = Unrecorded(o)
      BY <1>1, <2>1 DEF Unrecorded, PendingPublicationOwned
    <2> QED  BY <1>1, <1>2, <1>3, <1>5, <2>2, <2>3, SweepKeeps
  <1> QED  BY <1>4, <1>5

LEMMA RecoverRemovalStep ==
    ASSUME Inv, TypeOK', NEW r \in Runs, RecoverRemoval(r)
    PROVE  Inv'
  <1> USE Now
  <1>1. /\ UNCHANGED <<record, pending, mode, lost>> /\ mode = "starting"
        /\ pending[r] # NoRow /\ pending[r].kind = "remove"
        /\ dest' = IF Undoable(r) /\ dest = NoFile THEN aside[r] ELSE dest
        /\ aside'[r] = NoFile /\ \A o \in Runs \ {r} : aside'[o] = aside[o]
    BY DEF RecoverRemoval, Sweeping, Undoable, TypeOK
  <1>2. run'[r].phase = "swept" /\ SweepOf(r)
    BY <1>1 DEF RecoverRemoval, SweepOf, TypeOK, RunType
  <1>3. \A o \in Runs \ {r} : pending[o].kind # "remove" /\ aside[o] = NoFile
    BY <1>1 DEF StoreInv, OneRemoval, AsideReady
  <1>4. ASSUME NEW o \in Runs, Unrecorded(o) PROVE copy'[o] = copy[o]
    BY <1>4, HeldCopy DEF Inv, CopiesHeld, RecoverRemoval
  <1>5. ~Unrecorded(r)'
    BY <1>1 DEF Unrecorded
  <1>6. CASE aside[r] = NoFile
    <2>1. UNCHANGED <<dest, aside>>
      BY <1>1, <1>6 DEF Undoable, TypeOK
    <2>2. StoreInv'
      BY <1>1, <1>4, <2>1, StoreCopies
    <2>3. \A o \in Runs : Unrecorded(o)' = Unrecorded(o)
      BY <1>1, <2>1 DEF Unrecorded, PendingPublicationOwned
    <2> QED  BY <1>1, <1>2, <1>5, <2>2, <2>3, SweepKeeps
  <1>7. CASE aside[r] # NoFile
    <2>1. /\ dest.text = OwnText
          /\ aside[r].text = pending[r].text \/ (aside[r].text = OwnText /\ ~RemovalCommitted(r))
      BY <1>7 DEF StoreInv, AsideReady
    <2>2. dest'.text = OwnText \/ (record'.found /\ dest'.text = record'.text)
      BY <1>1, <2>1 DEF Undoable, RemovalCommitted
    <2>3. \A o \in Runs : ~Unrecorded(o)' /\ ~Unrecorded(o)
      BY <1>1, <2>1, <2>2, RowTexts, NotUnrecordedNext, NotUnrecorded
    <2>4. Agree'
      <3>1. CASE dest' # NoFile
        BY <2>2, <3>1 DEF Agree, Matches
      <3>2. CASE dest' = NoFile
        <4>1. dest = NoFile /\ ~Undoable(r)
          BY <1>1, <1>7, <3>2
        <4>2. \A o \in Runs : ~Undoable(o)
          BY <1>3, <4>1 DEF Undoable
        <4> QED  BY <1>1, <2>3, <3>2, <4>1, <4>2 DEF StoreInv, Agree, Matches
      <3> QED  BY <3>1, <3>2
    <2>5. \A o \in Runs : aside'[o] = NoFile
      BY <1>1, <1>3
    <2>6. StoreInv'
      BY <1>1, <2>3, <2>4, <2>5 DEF StoreInv, OneRemoval, RecordOK, UndoReady, AsideReady
    <2> QED  BY <1>1, <1>2, <2>3, <2>6, SweepKeeps
  <1> QED  BY <1>6, <1>7

LEMMA FinishRecoveredStep ==
    ASSUME Inv, TypeOK', NEW r \in Runs, FinishRecovered(r)
    PROVE  Inv'
  <1> USE Now
  <1>1. /\ UNCHANGED <<dest, hidden, record, mode, lost>> /\ mode = "starting"
        /\ run[r].phase = "swept" /\ run'[r].phase = "dead" /\ pending'[r] = NoRow
        /\ run'[r].existing = run[r].existing
        /\ \A o \in Runs \ {r} : run'[o] = run[o] /\ pending'[o] = pending[o]
    BY DEF FinishRecovered, TypeOK, RunType
  <1>2. pending[r] # NoRow /\ ~Unrecorded(r) /\ aside[r] = NoFile
    BY <1>1 DEF RowKept
  <1>3. SweepOf(r)
    BY <1>1, <1>2 DEF SweepOf
  <1>4. StoreInv'
    BY <1>1, <1>2, RowGone DEF hidden
  <1>5. \A o \in Runs \ {r} : Unrecorded(o)' = Unrecorded(o)
    BY <1>1 DEF Unrecorded, PendingPublicationOwned
  <1> QED  BY <1>1, <1>3, <1>4, <1>5, SweepKeeps DEF hidden

LEMMA SkipStep ==
    ASSUME Inv, TypeOK', Orderly, NEW r \in Runs, SkipRow(r)
    PROVE  Inv'
  <1> USE Now
  <1>1. /\ UNCHANGED <<dest, hidden, record, mode, pending, lost>> /\ mode = "starting"
        /\ pending[r] # NoRow /\ run'[r].phase = "skipped" /\ pending[r].kind # "remove"
        /\ run'[r].existing = run[r].existing
        /\ \A o \in Runs \ {r} : run'[o] = run[o]
    BY DEF SkipRow, Sweeping, TypeOK, RunType, Orderly
  <1>2. SweepOf(r)
    BY <1>1 DEF SweepOf
  <1>3. StoreInv'
    BY <1>1, StoreCopies DEF hidden
  <1>4. \A o \in Runs \ {r} : Unrecorded(o)' = Unrecorded(o)
    BY <1>1 DEF Unrecorded, PendingPublicationOwned
  <1> QED  BY <1>1, <1>2, <1>3, <1>4, SweepKeeps DEF hidden

LEMMA StartStep ==
    ASSUME Inv, TypeOK', StartWorker
    PROVE  Inv'
  <1> USE Now
  <1>1. mode = "starting" /\ mode' = "up" /\ UNCHANGED <<dest, aside, pending, lost>>
    BY DEF StartWorker
  <1>2. /\ record'.found = record.found /\ record'.text = record.text
        /\ record'.rollback \in {record.rollback, NoRun}
    BY DEF StartWorker, Inv, TypeOK, RecordType
  <1>3. \A r \in Runs : /\ run[r].phase \in Finished \cup {"swept", "skipped"}
                        /\ run[r].phase \in {"swept"} => pending[r] # NoRow
                        /\ pending[r] # NoRow => run[r].phase = "skipped"
    BY <1>1 DEF Inv, Alone, Active, RowKept, StartWorker
  <1>4. \A r \in Runs : /\ run'[r].phase \in Finished
                        /\ run[r].phase = "skipped" =>
                             run'[r].phase = "dead" /\ run'[r].existing.rollback = NoRun
                        /\ run[r].phase # "skipped" => run'[r] = run[r]
    BY <1>3, Absent DEF StartWorker, NewRun, Finished
  <1>5. Alone'
    BY <1>4 DEF Alone, Active
  <1>6. StoreInv'
    <2>1. ASSUME NEW o \in Runs, Unrecorded(o) PROVE copy'[o] = copy[o]
      BY <2>1, Absent DEF StartWorker, Unrecorded
    <2>2. StoreInv
      BY DEF Inv
    <2> QED  BY <1>1, <1>2, <2>1, <2>2, StoreCopies
  <1>7. ASSUME NEW r \in Runs PROVE RunInv(r)'
    <2>1. pending[r].kind # "remove"
      BY <1>1, <1>3, Absent DEF RowKept
    <2>2. RowKept(r)'
      BY <1>1, <1>4, <2>1 DEF RowKept, Rowless, Installing, Taking, Finished
    <2>3. Knows(r)' /\ Sees(r)' /\ Takes(r)'
      BY <1>4 DEF Knows, Sees, Takes, Preparing, Installing, Taking, Finished
    <2> QED  BY <2>2, <2>3 DEF RunInv
  <1>8. CopiesHeld'
    <2>1. \A o \in Runs \cup {NoRun} : Held(o) => Held(o)'
      BY <1>1, <1>3, <1>4 DEF Held
    <2>2. /\ record.rollback \in Runs \cup {NoRun}
          /\ \A o \in Runs : run[o].existing.rollback \in Runs \cup {NoRun} /\ pending[o].old \in Runs \cup {NoRun}
      BY DEF Inv, TypeOK, RunType, RecordType, RowType
    <2>3. Held(NoRun)'
      BY DEF Held
    <2>4. ASSUME NEW o \in Runs PROVE Held(run[o].existing.rollback)'
      BY <1>4, <2>1, <2>2, <2>3 DEF Inv, CopiesHeld
    <2> QED  BY <1>1, <1>2, <2>1, <2>2, <2>3, <2>4 DEF Inv, CopiesHeld
  <1> QED  BY <1>5, <1>6, <1>7, <1>8 DEF Inv

\* The owner acts: whatever is at the destination then is the owner's.
LEMMA OwnerStep ==
    ASSUME Inv, TypeOK', Orderly, OwnerWrites \/ OwnerEdits \/ OwnerDeletes
    PROVE  Inv'
  <1> USE Now
  <1>1. UNCHANGED <<hidden, record, pending, run, mode>> /\ \A r \in Runs : ~Racing(r)
    BY DEF OwnerWrites, OwnerEdits, OwnerDeletes, OwnerActs, Orderly
  <1>2. /\ dest'.text = OwnText /\ (lost => lost') /\ (dest' = NoFile => lost')
        /\ dest' = File(NoRun, "own", OwnText) \/ \A r \in Runs : ~Untracked(r)
    <2>1. dest # NoFile => [dest EXCEPT !.text = OwnText].text = OwnText
                           /\ [dest EXCEPT !.text = OwnText] # NoFile
      BY DEF Inv, TypeOK, FileType, NoFile
    <2>2. CASE OwnerWrites
      BY <2>2, Absent DEF OwnerWrites
    <2>3. CASE OwnerEdits
      BY <2>1, <2>3 DEF OwnerEdits, Orderly
    <2>4. CASE OwnerDeletes
      BY <2>4, Absent DEF OwnerDeletes, Orderly
    <2> QED  BY <2>2, <2>3, <2>4
  <1>3. \A r \in Runs : ~Unrecorded(r)'
    BY <1>1, <1>2, RowTexts, NotUnrecordedNext
  <1>4. StoreInv'
    <2>1. OneRemoval' /\ RecordOK' /\ UndoReady'
      BY <1>1, <1>3 DEF Inv, StoreInv, OneRemoval, RecordOK, UndoReady
    <2>2. AsideReady'
      BY <1>1, <1>2 DEF Inv, StoreInv, AsideReady, RemovalCommitted, hidden
    <2>3. Agree'
      BY <1>2 DEF Agree
    <2> QED  BY <2>1, <2>2, <2>3 DEF StoreInv
  <1>5. ~Matches(dest, record)'
    BY <1>1, <1>2 DEF Matches, Inv, StoreInv, RecordOK
  <1>6. ASSUME NEW r \in Runs PROVE RunInv(r)'
    <2>1. RowKept(r)'
      BY <1>1, <1>3 DEF RowKept, hidden
    <2>2. Knows(r)'
      BY <1>1, <1>5 DEF Knows, hidden
    <2>3. Sees(r)'
      BY <1>1, <1>2 DEF Sees, Racing, Untracked
    <2>4. Takes(r)'
      BY <1>1, <1>2 DEF Takes, hidden
    <2> QED  BY <2>1, <2>2, <2>3, <2>4 DEF RunInv
  <1>7. Alone' /\ CopiesHeld'
    BY <1>1 DEF Inv, Alone, Active, CopiesHeld, Held
  <1> QED  BY <1>4, <1>6, <1>7 DEF Inv

-----------------------------------------------------------------------------
(* The inductive step and the invariants.                                   *)

LEMMA InitInv == Init => Inv
  <1> SUFFICES ASSUME Init PROVE Inv
    OBVIOUS
  <1>1. TypeOK
    BY InitTyped
  <1>2. \A r \in Runs : /\ run[r].phase = "new" /\ run[r].existing = NoRecord
                        /\ pending[r] = NoRow /\ aside[r] = NoFile
    BY DEF Init, NewRun
  <1>3. Alone
    BY <1>2 DEF Alone, Active, Finished
  <1>4. CopiesHeld
    BY <1>2, Absent DEF Init, CopiesHeld, Held, NoRecord
  <1>5. \A r \in Runs : ~Unrecorded(r)
    BY <1>2, Absent DEF Unrecorded
  <1>6. (dest = NoFile /\ ~record.found) \/ (record.text \in Texts /\ Matches(dest, record))
    <2>1. CASE dest = NoFile /\ record = NoRecord
      BY <2>1, Absent
    <2>2. ASSUME NEW t \in Texts, dest = File(NoRun, "stage", t),
                 record = [NoRecord EXCEPT !.found = TRUE, !.text = t]
          PROVE  record.text \in Texts /\ Matches(dest, record)
      <3>1. dest # NoFile /\ dest.text = t
        BY <2>2, Absent
      <3>2. record.found /\ record.text = t
        BY <2>2 DEF NoRecord
      <3> QED  BY <3>1, <3>2 DEF Matches
    <2> QED  BY <2>1, <2>2 DEF Init
  <1>7. StoreInv
    BY <1>2, <1>5, <1>6, Absent DEF StoreInv, OneRemoval, RecordOK, UndoReady, AsideReady, Agree
  <1>8. ASSUME NEW r \in Runs PROVE RunInv(r)
    <2>1. RowKept(r)
      BY <1>2, Absent DEF RowKept, Rowless, Installing, Taking
    <2>2. Knows(r) /\ Sees(r) /\ Takes(r)
      BY <1>2 DEF Knows, Sees, Takes, Preparing, Installing, Taking
    <2> QED  BY <2>1, <2>2 DEF RunInv
  <1> QED  BY <1>1, <1>3, <1>4, <1>7, <1>8 DEF Inv

LEMMA RunSteps ==
    ASSUME Inv, TypeOK', Orderly, NEW r \in Runs,
           InstallStep(r) \/ UndoStep(r) \/ RemoveStep(r)
    PROVE  Inv'
  <1>1. CASE InstallStep(r)
    BY <1>1, BeginStep, CheckStep, RefreshStep, StageStep, CopyStep, RowStep, VerifyStep,
       PublishStep, RecordStep, DiscardStep, ClearStep DEF InstallStep
  <1>2. CASE UndoStep(r)
    BY <1>2, OwnedStep, UndoStepKeeps, KeepStep, FinishStep DEF UndoStep
  <1>3. CASE RemoveStep(r)
    BY <1>3, BeginStep, ListStep, MoveStep, CommitStep, CleanUpStep, RestoreStep DEF RemoveStep
  <1> QED  BY <1>1, <1>2, <1>3

LEMMA FaultSteps ==
    ASSUME Inv, TypeOK', Orderly, NEW r \in Runs, FaultStep(r) \/ SweepStep(r)
    PROVE  Inv'
  <1>1. CASE FaultStep(r)
    BY <1>1, FailStagingStep, FailInstallStep, UnknownStep, FailCleanupStep, AbandonStep
       DEF FaultStep
  <1>2. CASE SweepStep(r)
    BY <1>2, RecoverInstallStep, RecoverRemovalStep, FinishRecoveredStep, SkipStep DEF SweepStep
  <1> QED  BY <1>1, <1>2

LEMMA NextInv == Orderly /\ Inv /\ [Next]_vars => Inv'
  <1> SUFFICES ASSUME Orderly, Inv, [Next]_vars PROVE Inv'
    OBVIOUS
  <1>1. TypeOK'
    BY NextTyped DEF Inv
  <1>2. CASE UNCHANGED vars
    BY <1>2 DEF vars, hidden, Inv, TypeOK, Alone, Active, CopiesHeld, Held, StoreInv, OneRemoval,
       RecordOK, UndoReady, AsideReady, Agree, RunInv, RowKept, Knows, Sees, Takes, Unrecorded,
       PendingPublicationOwned, Undoable, RemovalCommitted, Matches
  <1>3. ASSUME NEW r \in Runs, InstallStep(r) \/ UndoStep(r) \/ RemoveStep(r) \/ FaultStep(r) \/ SweepStep(r)
        PROVE  Inv'
    BY <1>1, <1>3, RunSteps, FaultSteps
  <1>4. ASSUME Crash \/ StartWorker PROVE Inv'
    BY <1>1, <1>4, CrashStep, StartStep
  <1>5. CASE OwnerWrites \/ OwnerEdits \/ OwnerDeletes
    BY <1>1, <1>5, OwnerStep
  <1> QED  BY <1>2, <1>3, <1>4, <1>5 DEF Next

\* Once nothing is going on and no row is left, file and record agree: what
\* Agree says then, when nothing can be unrecorded or wait aside.
LEMMA InvSettles == Inv => InstallInv
  <1> SUFFICES ASSUME Inv, Quiescent
               PROVE  \/ dest # NoFile /\ dest.text = OwnText
                      \/ dest = NoFile /\ (lost \/ ~record.found)
                      \/ Matches(dest, record)
    BY DEF InstallInv, SettledAgrees, Inv
  <1>1. \A r \in Runs : ~Unrecorded(r) /\ ~Undoable(r)
    BY Absent DEF Quiescent, Unrecorded, Undoable
  <1> QED  BY <1>1 DEF Inv, StoreInv, Agree

\* Installs, removals, failures, crashes and the startup sweep leave file and
\* record in agreement, whatever the owner does meanwhile (InstallInv), when
\* runs do not overlap and every removal settles its row.
THEOREM FileAndRecordAgree ==
    ASSUME Orderly
    PROVE  Spec => []InstallInv
  <1>1. Inv /\ [Next]_vars => Inv'
    BY NextInv
  <1> QED  BY <1>1, InitInv, InvSettles, PTL DEF Spec

-----------------------------------------------------------------------------
(* What a restart would leave, and the steps that do not change it.         *)

\* Nothing is aside while an unrecorded publication is at the destination, and
\* only one run can have put it there.
LEMMA OnePublication ==
    ASSUME Inv, NEW r \in Runs, Unrecorded(r)
    PROVE  /\ dest # NoFile
           /\ \A o \in Runs : (Unrecorded(o) => o = r) /\ aside[o] = NoFile /\ ~Undoable(o)
  <1>1. dest.text \in Texts /\ dest.node = r
    BY RowTexts DEF Unrecorded, PendingPublicationOwned
  <1>2. dest.text # OwnText /\ dest # NoFile
    BY <1>1, Absent
  <1>3. \A o \in Runs : aside[o] = NoFile
    BY <1>2 DEF Inv, StoreInv, AsideReady
  <1> QED  BY <1>1, <1>2, <1>3 DEF Unrecorded, PendingPublicationOwned, Undoable

\* The four cases of what a restart leaves at the destination.
SettledCases ==
    /\ \A r \in Runs : Unrecorded(r) =>
          Settled = IF pending[r].copied THEN {record.text} ELSE {}
    /\ (\A r \in Runs : ~Unrecorded(r)) /\ dest # NoFile => Settled = {dest.text}
    /\ \A r \in Runs : dest = NoFile /\ Undoable(r) => Settled = {aside[r].text}
    /\ dest = NoFile /\ (\A r \in Runs : ~Undoable(r)) => Settled = {}

LEMMA SettledIs == Inv => SettledCases
  <1> SUFFICES ASSUME Inv PROVE SettledCases
    OBVIOUS
  <1> DEFINE undone == UNION {IF pending[r].copied THEN TextOf(copy[r]) ELSE {} :
                                r \in {o \in Runs : Unrecorded(o)}}
             kept == IF \E r \in Runs : Unrecorded(r) THEN undone ELSE TextOf(dest)
             back == UNION {TextOf(aside[r]) : r \in {o \in Runs : Undoable(o)}}
  <1>1. Settled = IF kept # {} THEN kept ELSE back
    BY DEF Settled
  <1>2. (\A r \in Runs : ~Undoable(r)) => back = {}
    OBVIOUS
  <1>3. ASSUME NEW r \in Runs, Unrecorded(r)
        PROVE  Settled = IF pending[r].copied THEN {record.text} ELSE {}
    <2>1. {o \in Runs : Unrecorded(o)} = {r} /\ back = {}
      BY <1>2, <1>3, OnePublication
    <2>2. undone = IF pending[r].copied THEN TextOf(copy[r]) ELSE {}
      BY <2>1
    <2>3. pending[r].copied => TextOf(copy[r]) = {record.text}
      BY <1>3 DEF Inv, StoreInv, UndoReady, TextOf
    <2>4. kept = undone
      BY <1>3
    <2> HIDE DEF undone, kept, back
    <2> QED  BY <1>1, <2>1, <2>2, <2>3, <2>4
  <1>4. ASSUME \A r \in Runs : ~Unrecorded(r), dest # NoFile
        PROVE  Settled = {dest.text}
    <2>1. kept = {dest.text}
      BY <1>4 DEF TextOf
    <2> HIDE DEF undone, kept, back
    <2> QED  BY <1>1, <2>1
  <1>5. ASSUME dest = NoFile PROVE kept = {}
    <2>1. \A r \in Runs : ~Unrecorded(r)
      BY <1>5, OnePublication
    <2> QED  BY <1>5, <2>1 DEF TextOf
  <1>6. ASSUME NEW r \in Runs, dest = NoFile, Undoable(r)
        PROVE  Settled = {aside[r].text}
    <2>1. {o \in Runs : Undoable(o)} = {r}
      BY <1>6 DEF Inv, StoreInv, OneRemoval, Undoable
    <2>2. back = TextOf(aside[r])
      BY <2>1
    <2>3. TextOf(aside[r]) = {aside[r].text}
      BY <1>6 DEF Undoable, TextOf
    <2> HIDE DEF undone, kept, back
    <2> QED  BY <1>1, <1>5, <1>6, <2>2, <2>3
  <1>7. ASSUME dest = NoFile, \A r \in Runs : ~Undoable(r) PROVE Settled = {}
    <2> HIDE DEF undone, kept, back
    <2> QED  BY <1>1, <1>2, <1>5, <1>7
  <1> QED  BY <1>3, <1>4, <1>6, <1>7 DEF SettledCases

LEMMA SettledNext == Inv' => SettledCases'
  BY SettledIs, PTL

\* A step that a restart would not notice.
Still ==
    /\ UNCHANGED <<dest, aside, lost, acts>>
    /\ record'.found = record.found /\ record'.text = record.text
    /\ \A r \in Runs : /\ Unrecorded(r)' = Unrecorded(r) /\ Undoable(r)' = Undoable(r)
                       /\ Unrecorded(r) => pending'[r].copied = pending[r].copied

\* What every step shows: what the specification allows of it.
Allowed == [Managed!Next]_(Managed!vars) /\ (OwnerHasFile => OwnerHasFile')

LEMMA Unnoticed ==
    ASSUME Settled' = Settled, record'.found = record.found, record'.text = record.text,
           UNCHANGED <<lost, acts>>
    PROVE  UNCHANGED Managed!vars
  BY DEF Managed!vars

LEMMA StillAllowed ==
    ASSUME Inv, Inv', Still
    PROVE  Allowed
  <1>1. SettledCases /\ SettledCases'
    BY SettledIs, SettledNext
  <1>2. Settled' = Settled
    <2>1. CASE \E r \in Runs : Unrecorded(r)
      BY <1>1, <2>1 DEF Still, SettledCases
    <2>2. CASE (\A r \in Runs : ~Unrecorded(r)) /\ dest # NoFile
      BY <1>1, <2>2 DEF Still, SettledCases
    <2>3. CASE dest = NoFile /\ \E r \in Runs : Undoable(r)
      <3>1. PICK r \in Runs : Undoable(r)
        BY <2>3
      <3>2. Settled = {aside[r].text}
        BY <1>1, <2>3, <3>1 DEF SettledCases
      <3>3. dest' = NoFile /\ Undoable(r)' /\ aside'[r] = aside[r]
        BY <2>3, <3>1 DEF Still
      <3>4. Settled' = {aside'[r].text}
        BY <1>1, <3>3 DEF SettledCases
      <3> QED  BY <3>2, <3>3, <3>4
    <2>4. CASE dest = NoFile /\ \A r \in Runs : ~Undoable(r)
      BY <1>1, <2>4 DEF Still, SettledCases
    <2> QED  BY <2>1, <2>2, <2>3, <2>4
  <1>3. UNCHANGED Managed!vars
    BY <1>2, Unnoticed DEF Still
  <1>4. OwnerHasFile => OwnerHasFile'
    BY DEF OwnerHasFile, Still
  <1> QED  BY <1>3, <1>4 DEF Allowed

LEMMA SameStill ==
    ASSUME UNCHANGED <<dest, aside, pending, lost, acts>>,
           record'.found = record.found, record'.text = record.text
    PROVE  Still
  BY DEF Still, Unrecorded, PendingPublicationOwned, Undoable, RemovalCommitted

LEMMA RowStill ==
    ASSUME NEW r \in Runs, UNCHANGED <<dest, aside, record, lost, acts>>,
           \A o \in Runs \ {r} : pending'[o] = pending[o],
           ~Unrecorded(r), ~Unrecorded(r)', aside[r] = NoFile
    PROVE  Still
  BY DEF Still, Unrecorded, PendingPublicationOwned, Undoable, RemovalCommitted

\* Steps that leave files, rows and record alone, or change only hidden copies
\* and what the record says besides its text.
LEMMA QuietSteps ==
    ASSUME Inv, NEW r \in Runs,
           \/ \E text \in Texts : GetInstallation(r, text)
           \/ ReplacementState(r) \/ RefreshIdentical(r) \/ StageSubtitle(r) \/ CopyRollback(r)
           \/ VerifyUnchanged(r) \/ DiscardCopies(r) \/ ClearInstallationRollback(r)
           \/ CheckOwned(r) \/ KeepDestination(r) \/ BeginRemoval(r) \/ FaultStep(r) \/ SkipRow(r)
    PROVE  Still
  <1> USE Now DEF hidden
  <1>1. CASE RefreshIdentical(r)
    <2>1. run[r].existing = record
      BY <1>1 DEF Knows, RefreshIdentical
    <2>2. record'.found = record.found /\ record'.text = record.text
      BY <1>1, <2>1 DEF RefreshIdentical, TypeOK, RecordType
    <2> QED  BY <1>1, <2>2, SameStill DEF RefreshIdentical
  <1>2. CASE ClearInstallationRollback(r)
    <2>1. record'.found = record.found /\ record'.text = record.text
      BY <1>2 DEF ClearInstallationRollback, TypeOK, RecordType
    <2> QED  BY <1>2, <2>1, SameStill DEF ClearInstallationRollback
  <1>3. CASE FaultStep(r)
    BY <1>3, SameStill DEF FaultStep, FailStaging, FailInstall, UnknownDestination, FailCleanup,
                           Abandon
  <1>4. CASE SkipRow(r) \/ BeginRemoval(r) \/ \E text \in Texts : GetInstallation(r, text)
    BY <1>4, SameStill DEF SkipRow, BeginRemoval, GetInstallation
  <1>5. CASE ReplacementState(r) \/ StageSubtitle(r) \/ CopyRollback(r) \/ VerifyUnchanged(r)
    BY <1>5, SameStill DEF ReplacementState, StageSubtitle, CopyRollback, VerifyUnchanged
  <1>6. CASE DiscardCopies(r) \/ CheckOwned(r) \/ KeepDestination(r)
    BY <1>6, SameStill DEF DiscardCopies, CheckOwned, KeepDestination
  <1> QED  BY <1>1, <1>2, <1>3, <1>4, <1>5, <1>6

\* Steps that write or delete a row.
LEMMA RowSteps ==
    ASSUME Inv, Inv', NEW r \in Runs,
           BeginPendingInstall(r) \/ FinishPendingInstall(r) \/ ListRemoval(r) \/ FinishRecovered(r)
    PROVE  Still
  <1> USE Now DEF hidden
  <1>1. CASE BeginPendingInstall(r)
    <2>1. run[r].phase = "copied" /\ UNCHANGED <<dest, aside, record, lost, acts>>
          /\ \A o \in Runs \ {r} : pending'[o] = pending[o]
      BY <1>1 DEF BeginPendingInstall, TypeOK
    <2>2. pending[r] = NoRow /\ ~Unrecorded(r) /\ aside[r] = NoFile
      BY <2>1, Absent DEF RowKept, Rowless, Unrecorded, StoreInv, AsideReady
    <2>3. dest.text = OwnText \/ (record.found /\ dest.text = record.text)
      BY <2>1 DEF Sees, Knows, Preparing
    <2>4. pending'[r].kind = "install" => pending'[r].text \in Texts
      <3>1. run[r].text \in Texts
        BY <2>1 DEF Knows, Preparing
      <3> QED  BY <1>1, <2>2, <3>1, Absent DEF BeginPendingInstall, TypeOK
    <2>5. ~Unrecorded(r)'
      BY <2>1, <2>3, <2>4, NotUnrecordedNext
    <2> QED  BY <2>1, <2>2, <2>5, RowStill
  <1>2. CASE ListRemoval(r)
    <2>1. run[r].phase = "removing" /\ UNCHANGED <<dest, aside, record, lost, acts>>
          /\ \A o \in Runs \ {r} : pending'[o] = pending[o]
      BY <1>2 DEF ListRemoval, TypeOK
    <2>2. pending[r] = NoRow /\ ~Unrecorded(r) /\ aside[r] = NoFile
      BY <2>1, Absent DEF RowKept, Rowless, Unrecorded, StoreInv, AsideReady
    <2>3. pending'[r].kind # "install"
      BY <1>2, <2>2, Absent DEF ListRemoval, TypeOK
    <2>4. ~Unrecorded(r)'
      BY <2>3 DEF Unrecorded
    <2> QED  BY <2>1, <2>2, <2>4, RowStill
  <1>3. CASE FinishPendingInstall(r) \/ FinishRecovered(r)
    <2>1. run[r].phase \in {"settling", "swept"} /\ UNCHANGED <<dest, aside, record, lost, acts>>
          /\ pending'[r] = NoRow /\ \A o \in Runs \ {r} : pending'[o] = pending[o]
      BY <1>3 DEF FinishPendingInstall, FinishRecovered, TypeOK
    <2>2. ~Unrecorded(r) /\ aside[r] = NoFile
      BY <2>1 DEF RowKept
    <2>3. ~Unrecorded(r)'
      BY <2>1, Absent DEF Unrecorded
    <2> QED  BY <2>1, <2>2, <2>3, RowStill
  <1> QED  BY <1>1, <1>2, <1>3

-----------------------------------------------------------------------------
(* The steps that a restart, or the owner, would notice.                    *)

\* Publication: a replacement would be undone to the recorded text; a first
\* install is at a free destination, and would be undone unless a lost record
\* already has its text.
LEMMA PublishAllowed ==
    ASSUME Inv, Inv', NEW r \in Runs, PublishStaged(r)
    PROVE  Allowed
  <1> USE Now
  <1>1. UNCHANGED <<aside, record, pending, lost, acts>> /\ run[r].phase = "verified"
    BY DEF PublishStaged
  <1>2. CASE PublicationBlocked(r)
    BY <1>1, <1>2, SameStill, StillAllowed DEF PublishStaged
  <1>3. CASE ~PublicationBlocked(r)
    <2>1. /\ pending[r].kind = "install" /\ pending[r].text = run[r].text
          /\ pending[r].copied = run[r].replacing
          /\ staged[r] = File(r, "stage", run[r].text)
          /\ run[r].replacing => record.found /\ record.text # run[r].text /\ Matches(dest, record)
          /\ ~run[r].replacing => dest = NoFile
          /\ run[r].text \in Texts
      BY <1>1, <1>3 DEF Knows, Sees, RowKept, Preparing, Installing, PublicationBlocked
    <2>2. dest' = staged[r]
      BY <1>3 DEF PublishStaged
    <2>3. dest'.node = r /\ dest'.kind = "stage" /\ dest'.text = run[r].text /\ dest' # NoFile
      BY <2>1, <2>2, Absent
    <2>4. \A o \in Runs : aside[o] = NoFile /\ ~Unrecorded(o) /\ ~Undoable(o)
      <3>1. \A o \in Runs : aside[o] = NoFile
        BY <1>1, <2>1, Going, NothingAside DEF StoreInv, AsideReady, Finished
      <3>2. dest.text = OwnText \/ (record.found /\ dest.text = record.text)
        BY <2>1, Absent DEF Matches
      <3> QED  BY <3>1, <3>2, NotUnrecorded DEF Undoable
    <2>5. ~OwnerHasFile
      BY <2>1, <2>4 DEF OwnerHasFile, Matches, StoreInv, RecordOK
    <2>6. SettledCases /\ SettledCases'
      BY SettledIs, SettledNext
    <2>7. Unrecorded(r)' = ~(record.found /\ record.text = run[r].text)
      BY <1>1, <2>1, <2>3 DEF Unrecorded, PendingPublicationOwned
    <2>8. CASE run[r].replacing
      <3>1. Settled = {record.text}
        BY <2>1, <2>4, <2>6, <2>8 DEF SettledCases, Matches
      <3>2. Settled' = {record.text}
        BY <1>1, <2>1, <2>6, <2>7, <2>8 DEF SettledCases
      <3> QED  BY <1>1, <2>5, <3>1, <3>2, Unnoticed DEF Allowed
    <2>9. CASE ~run[r].replacing
      <3>1. Settled = {} /\ (lost \/ ~record.found)
        BY <2>1, <2>4, <2>6, <2>9 DEF SettledCases, StoreInv, Agree, Matches
      <3>2. CASE Unrecorded(r)'
        <4>1. Settled' = {}
          BY <1>1, <2>1, <2>6, <2>9, <3>2 DEF SettledCases
        <4> QED  BY <1>1, <2>5, <3>1, <4>1, Unnoticed DEF Allowed
      <3>3. CASE ~Unrecorded(r)'
        <4>1. \A o \in Runs : ~Unrecorded(o)'
          BY <2>3, <3>3 DEF Unrecorded, PendingPublicationOwned
        <4>2. Settled' = {record.text} /\ record.found
          BY <2>3, <2>6, <2>7, <3>3, <4>1 DEF SettledCases
        <4>3. Managed!Reinstate
          BY <1>1, <3>1, <4>2 DEF Managed!Reinstate
        <4> QED  BY <2>5, <4>3 DEF Allowed, Managed!Next
      <3> QED  BY <3>2, <3>3
    <2> QED  BY <2>8, <2>9
  <1> QED  BY <1>2, <1>3

LEMMA RecordAllowed ==
    ASSUME Inv, Inv', NEW r \in Runs, RecordInstallation(r)
    PROVE  Allowed
  <1> USE Now DEF hidden
  <1>1. UNCHANGED <<dest, aside, acts>> /\ run[r].phase = "published"
    BY DEF RecordInstallation
  <1>2. CASE run[r].cancelled
    BY <1>1, <1>2, SameStill, StillAllowed DEF RecordInstallation, TypeOK
  <1>3. CASE ~run[r].cancelled
    <2>1. record'.found /\ record'.text = run[r].text /\ lost' = FALSE
      <3>1. ~lost' /\ lost' \in BOOLEAN
        BY <1>3 DEF RecordInstallation, Inv, TypeOK
      <3>2. record'.found /\ record'.text = run[r].text
        BY <1>3 DEF RecordInstallation
      <3> QED  BY <3>1, <3>2
    <2>2. run[r].text \in Texts /\ dest \in {File(r, "stage", run[r].text), File(NoRun, "own", OwnText)}
      BY <1>1 DEF Knows, Sees, Installing
    <2>3. dest # NoFile /\ dest.text \in {run[r].text, OwnText}
      BY <2>2, Absent
    <2>4. SettledCases /\ SettledCases'
      BY SettledIs, SettledNext
    <2>5. \A o \in Runs : ~Unrecorded(o)'
      <3>1. pending'[r] = NoRow /\ \A o \in Runs \ {r} : pending'[o] = pending[o]
        BY <1>3 DEF RecordInstallation, TypeOK
      <3>2. \A o \in Runs : pending'[o].kind = "install" => pending'[o].text \in Texts
        BY <3>1, RowTexts, Absent
      <3> QED  BY <1>1, <2>1, <2>3, <3>2, NotUnrecordedNext
    <2>6. Settled' = {dest.text}
      BY <1>1, <2>3, <2>4, <2>5 DEF SettledCases
    <2>7. dest.text = OwnText => Settled = {OwnText}
      BY <2>3, <2>4, NotUnrecorded DEF SettledCases
    <2>8. Managed!Install
      BY <1>1, <2>1, <2>2, <2>3, <2>6, <2>7 DEF Managed!Install
    <2> QED  BY <1>1, <2>8 DEF Allowed, Managed!Next, OwnerHasFile
  <1> QED  BY <1>2, <1>3

LEMMA UndoAllowed ==
    ASSUME Inv, Inv', NEW r \in Runs, UndoPublication(r)
    PROVE  Allowed
  <1> USE Now
  <1>1. UNCHANGED <<aside, record, pending, lost, acts>> /\ run[r].phase = "undoing"
    BY DEF UndoPublication
  <1>2. /\ run[r].text \in Texts /\ dest = File(r, "stage", run[r].text)
        /\ run[r].replacing => record.found /\ record.text # run[r].text
        /\ ~run[r].replacing => lost \/ ~record.found
        /\ pending[r].kind = "install" /\ pending[r].text = run[r].text
        /\ pending[r].copied = run[r].replacing
    BY <1>1 DEF Sees, Knows, Installing, RowKept
  <1>3. dest.node = r /\ dest.kind = "stage" /\ dest.text = run[r].text /\ dest # NoFile
    BY <1>2, Absent
  <1>4. Unrecorded(r) = ~(record.found /\ record.text = run[r].text)
    BY <1>2, <1>3 DEF Unrecorded, PendingPublicationOwned
  <1>5. run[r].replacing => copy[r] # NoFile /\ copy[r].text = record.text
    BY <1>2, <1>4 DEF StoreInv, UndoReady
  <1>6. dest' = IF run[r].replacing THEN copy[r] ELSE NoFile
    BY <1>3, <1>5 DEF UndoPublication, Undone
  <1>7. \A o \in Runs : aside[o] = NoFile
    BY <1>1, <1>2, Going, NothingAside DEF StoreInv, AsideReady, Finished
  <1>8. ~OwnerHasFile
    BY <1>2, <1>3, <1>7 DEF OwnerHasFile
  <1>9. SettledCases /\ SettledCases'
    BY SettledIs, SettledNext
  <1>10. CASE run[r].replacing
    <2>1. Settled = {record.text}
      BY <1>2, <1>4, <1>9, <1>10 DEF SettledCases
    <2>2. \A o \in Runs : ~Unrecorded(o)'
      BY <1>1, <1>2, <1>5, <1>6, <1>10, RowTexts, NotUnrecordedNext
    <2>3. Settled' = {record.text}
      BY <1>5, <1>6, <1>9, <1>10, <2>2 DEF SettledCases
    <2> QED  BY <1>1, <1>8, <2>1, <2>3, Unnoticed DEF Allowed
  <1>11. CASE ~run[r].replacing
    <2>1. \A o \in Runs : ~Undoable(o)'
      BY <1>1, <1>7 DEF Undoable
    <2>2. Settled' = {}
      BY <1>6, <1>9, <1>11, <2>1 DEF SettledCases
    <2>3. CASE Unrecorded(r)
      <3>1. Settled = {}
        BY <1>2, <1>9, <1>11, <2>3 DEF SettledCases
      <3> QED  BY <1>1, <1>8, <2>2, <3>1, Unnoticed DEF Allowed
    <2>4. CASE ~Unrecorded(r)
      <3>1. \A o \in Runs : ~Unrecorded(o)
        BY <1>3, <2>4 DEF Unrecorded, PendingPublicationOwned
      <3>2. Settled = {run[r].text} /\ lost
        BY <1>2, <1>3, <1>4, <1>9, <1>11, <2>4, <3>1 DEF SettledCases
      <3>3. Settled # {OwnText}
        BY <1>2, <3>2
      <3>4. Managed!Reinstate
        BY <1>1, <2>2, <3>2, <3>3 DEF Managed!Reinstate
      <3> QED  BY <1>8, <3>4 DEF Allowed, Managed!Next
    <2> QED  BY <2>3, <2>4
  <1> QED  BY <1>10, <1>11

\* A removal moves the subtitle aside, or what the owner made of it.
LEMMA MoveAllowed ==
    ASSUME Inv, Inv', NEW r \in Runs, MoveAside(r)
    PROVE  Allowed
  <1> USE Now
  <1>1. UNCHANGED <<record, lost, acts>> /\ run[r].phase = "listed"
    BY DEF MoveAside
  <1>2. /\ pending[r].kind = "remove" /\ ~RemovalCommitted(r) /\ record.found
        /\ aside[r] = NoFile /\ dest.text \in {OwnText, record.text}
        /\ \A o \in Runs \ {r} : aside[o] = NoFile
    BY <1>1, Removing DEF Takes, Taking
  <1>3. CASE dest = NoFile
    <2>1. /\ UNCHANGED <<dest, aside>> /\ pending'[r] = NoRow
          /\ \A o \in Runs \ {r} : pending'[o] = pending[o]
      BY <1>3 DEF MoveAside, TypeOK
    <2>2. ~Unrecorded(r) /\ ~Unrecorded(r)'
      BY <1>2, <2>1, Absent DEF Unrecorded
    <2> QED  BY <1>1, <1>2, <2>1, <2>2, RowStill, StillAllowed
  <1>4. CASE dest # NoFile
    <2>1. aside'[r] = dest /\ dest' = NoFile /\ pending' = pending
      BY <1>4 DEF MoveAside, TypeOK
    <2>2. Undoable(r)'
      BY <1>1, <1>2, <1>4, <2>1 DEF Undoable, RemovalCommitted
    <2>3. \A o \in Runs : ~Unrecorded(o)
      BY <1>2, NotUnrecorded
    <2>4. Settled = {dest.text}
      BY <1>4, <2>3, SettledIs DEF SettledCases
    <2>5. Settled' = {aside'[r].text}
      BY <2>1, <2>2, SettledNext DEF SettledCases
    <2>6. UNCHANGED Managed!vars
      BY <1>1, <2>1, <2>4, <2>5, Unnoticed
    <2>7. OwnerHasFile => OwnerHasFile'
      BY <1>2, <1>4, <2>1 DEF OwnerHasFile
    <2> QED  BY <2>6, <2>7 DEF Allowed
  <1> QED  BY <1>3, <1>4

LEMMA CommitAllowed ==
    ASSUME Inv, Inv', NEW r \in Runs, CommitRemoval(r)
    PROVE  Allowed
  <1> USE Now DEF hidden
  <1>1. UNCHANGED <<dest, aside, pending, lost, acts>> /\ run[r].phase = "moved"
    BY DEF CommitRemoval
  <1>2. /\ pending[r].kind = "remove" /\ pending[r].text = record.text /\ record.found
        /\ pending[r].text \in Texts /\ ~RemovalCommitted(r)
        /\ run[r].existing = record
        /\ aside[r] # NoFile /\ dest.text = OwnText
    BY <1>1, Removing DEF Takes, Taking, StoreInv, AsideReady
  <1>3. CASE ~RemovalApplies(r)
    BY <1>1, <1>3, SameStill, StillAllowed DEF CommitRemoval
  <1>4. CASE RemovalApplies(r)
    <2>1. ~record'.found /\ aside[r].text = pending[r].text
      BY <1>2, <1>4, Absent DEF CommitRemoval, RemovalApplies, Matches
    <2>2. \A o \in Runs : ~Unrecorded(o) /\ ~Unrecorded(o)' /\ ~Undoable(o)'
      BY <1>1, <1>2, <2>1, RowTexts, NotUnrecorded, NotUnrecordedNext DEF Undoable, RemovalCommitted
    <2>3. SettledCases /\ SettledCases'
      BY SettledIs, SettledNext
    <2>4. dest # NoFile => Settled = {OwnText} /\ Settled' = {OwnText}
      BY <1>1, <1>2, <2>2, <2>3 DEF SettledCases
    <2>5. dest = NoFile => Settled = {aside[r].text} /\ Settled' = {}
      BY <1>1, <1>2, <2>2, <2>3 DEF SettledCases, Undoable
    <2>6. dest = NoFile => Settled # {OwnText}
      BY <1>2, <2>1, <2>5
    <2>7. Managed!Remove
      BY <1>1, <1>2, <2>1, <2>4, <2>5, <2>6 DEF Managed!Remove
    <2> QED  BY <1>1, <2>7 DEF Allowed, Managed!Next, OwnerHasFile
  <1> QED  BY <1>3, <1>4

\* What a committed removal deletes is the subtitle it removed.
LEMMA CleanUpAllowed ==
    ASSUME Inv, Inv', NEW r \in Runs, CleanUpRemoval(r)
    PROVE  Allowed
  <1> USE Now
  <1>1. UNCHANGED <<dest, record, pending, lost, acts>> /\ run[r].phase = "removed"
    BY DEF CleanUpRemoval
  <1>2. /\ ~record.found /\ pending[r].text \in Texts
        /\ \A o \in Runs \ {r} : aside[o] = NoFile
    BY <1>1, Removing DEF Takes, Taking
  <1>3. \A o \in Runs : Unrecorded(o)' = Unrecorded(o) /\ ~Undoable(o) /\ ~Undoable(o)'
    BY <1>1, <1>2 DEF Unrecorded, PendingPublicationOwned, Undoable, RemovalCommitted
  <1>4. SettledCases /\ SettledCases'
    BY SettledIs, SettledNext
  <1>5. Settled' = Settled
    <2>1. CASE dest = NoFile
      BY <1>1, <1>3, <1>4, <2>1 DEF SettledCases
    <2>2. CASE dest # NoFile /\ \A o \in Runs : ~Unrecorded(o)
      BY <1>1, <1>3, <1>4, <2>2 DEF SettledCases
    <2>3. CASE \E o \in Runs : Unrecorded(o)
      BY <1>1, <1>3, <1>4, <2>3 DEF SettledCases
    <2> QED  BY <2>1, <2>2, <2>3
  <1>6. \A o \in Runs : ~(aside[o] # NoFile /\ aside[o].text = OwnText)
    BY <1>2 DEF StoreInv, AsideReady, RemovalCommitted
  <1> QED  BY <1>1, <1>5, <1>6, Unnoticed DEF Allowed, OwnerHasFile

LEMMA RestoreAllowed ==
    ASSUME Inv, Inv', Orderly, NEW r \in Runs, RestoreRemoved(r)
    PROVE  Allowed
  <1> USE Now
  <1>1. UNCHANGED <<record, pending, lost, acts>> /\ run[r].phase = "returning"
    BY DEF RestoreRemoved
  <1>2. dest = NoFile /\ dest' = aside[r]
    BY DEF RestoreRemoved, Orderly
  <1>3. /\ pending[r].kind = "remove" /\ pending[r].text = record.text /\ record.found
        /\ aside[r] # NoFile /\ Undoable(r)
        /\ \A o \in Runs \ {r} : aside[o] = NoFile
    BY <1>1, Removing DEF Takes, Taking, Undoable
  <1>4. aside[r].text \in {OwnText, record.text}
    BY <1>3 DEF StoreInv, AsideReady
  <1>5. \A o \in Runs : ~Unrecorded(o)'
    BY <1>1, <1>2, <1>3, <1>4, RowTexts, NotUnrecordedNext
  <1>6. Settled = {aside[r].text}
    BY <1>2, <1>3, SettledIs DEF SettledCases
  <1>7. Settled' = {dest'.text}
    BY <1>2, <1>3, <1>5, SettledNext DEF SettledCases
  <1>8. UNCHANGED Managed!vars
    BY <1>1, <1>2, <1>6, <1>7, Unnoticed
  <1>9. OwnerHasFile => OwnerHasFile'
    BY <1>2, <1>3 DEF OwnerHasFile
  <1> QED  BY <1>8, <1>9 DEF Allowed

\* The sweep leaves what a restart was to leave.
LEMMA RecoverInstallAllowed ==
    ASSUME Inv, Inv', NEW r \in Runs, RecoverInstall(r)
    PROVE  Allowed
  <1> USE Now
  <1>1. /\ UNCHANGED <<aside, record, pending, lost, acts>>
        /\ dest' = IF ~Unrecorded(r) THEN dest ELSE IF pending[r].copied THEN copy[r] ELSE NoFile
    BY DEF RecoverInstall, Unrecorded
  <1>2. CASE ~Unrecorded(r)
    BY <1>1, <1>2, SameStill, StillAllowed
  <1>3. CASE Unrecorded(r)
    <2>1. \A o \in Runs : aside[o] = NoFile /\ ~Undoable(o)'
      BY <1>1, <1>3, OnePublication DEF Undoable
    <2>2. dest.text # OwnText
      BY <1>3, RowTexts DEF Unrecorded, PendingPublicationOwned
    <2>3. IF pending[r].copied THEN dest' # NoFile /\ record.found /\ dest'.text = record.text
          ELSE dest' = NoFile
      BY <1>1, <1>3 DEF StoreInv, UndoReady
    <2>4. \A o \in Runs : ~Unrecorded(o)'
      BY <1>1, <2>3, RowTexts, NotUnrecordedNext, Absent
    <2>5. Settled = IF pending[r].copied THEN {record.text} ELSE {}
      BY <1>3, SettledIs DEF SettledCases
    <2>6. Settled' = IF pending[r].copied THEN {record.text} ELSE {}
      BY <2>1, <2>3, <2>4, SettledNext DEF SettledCases
    <2>7. UNCHANGED Managed!vars
      BY <1>1, <2>5, <2>6, Unnoticed
    <2> QED  BY <2>1, <2>2, <2>7 DEF Allowed, OwnerHasFile
  <1> QED  BY <1>2, <1>3

LEMMA RecoverRemovalAllowed ==
    ASSUME Inv, Inv', NEW r \in Runs, RecoverRemoval(r)
    PROVE  Allowed
  <1> USE Now
  <1>1. /\ UNCHANGED <<record, pending, lost, acts>> /\ pending[r].kind = "remove"
        /\ dest' = IF Undoable(r) /\ dest = NoFile THEN aside[r] ELSE dest
        /\ aside'[r] = NoFile /\ \A o \in Runs \ {r} : aside'[o] = aside[o]
    BY DEF RecoverRemoval, Undoable, TypeOK
  <1>2. CASE aside[r] = NoFile
    <2>1. UNCHANGED <<dest, aside>>
      BY <1>1, <1>2 DEF Undoable, RecoverRemoval, TypeOK
    <2> QED  BY <1>1, <2>1, SameStill, StillAllowed
  <1>3. CASE aside[r] # NoFile
    <2>1. /\ dest.text = OwnText
          /\ aside[r].text = pending[r].text \/ (aside[r].text = OwnText /\ ~RemovalCommitted(r))
      BY <1>3 DEF StoreInv, AsideReady
    <2>2. \A o \in Runs \ {r} : aside[o] = NoFile
      BY <1>1 DEF StoreInv, OneRemoval, AsideReady
    <2>3. dest'.text = OwnText \/ (record'.found /\ dest'.text = record'.text)
      BY <1>1, <2>1 DEF Undoable, RemovalCommitted
    <2>4. \A o \in Runs : ~Unrecorded(o) /\ ~Unrecorded(o)' /\ ~Undoable(o)'
      <3>1. \A o \in Runs : ~Undoable(o)'
        BY <1>1, <2>2 DEF Undoable
      <3> QED  BY <1>1, <2>1, <2>3, <3>1, RowTexts, NotUnrecordedNext, NotUnrecorded
    <2>5. SettledCases /\ SettledCases'
      BY SettledIs, SettledNext
    <2>6. Settled' = Settled
      <3>1. CASE dest # NoFile
        BY <1>1, <2>4, <2>5, <3>1 DEF SettledCases
      <3>2. CASE dest = NoFile /\ Undoable(r)
        BY <1>1, <1>3, <2>4, <2>5, <3>2 DEF SettledCases
      <3>3. CASE dest = NoFile /\ ~Undoable(r)
        <4>1. \A o \in Runs : ~Undoable(o)
          BY <2>2, <3>3 DEF Undoable
        <4> QED  BY <1>1, <2>4, <2>5, <3>3, <4>1 DEF SettledCases
      <3> QED  BY <3>1, <3>2, <3>3
    <2>7. OwnerHasFile => OwnerHasFile'
      <3>1. aside[r].text = OwnText => Undoable(r)
        <4>1. pending[r].text \in Texts
          BY <1>1, RowTexts
        <4> QED  BY <1>1, <1>3, <2>1, <4>1 DEF Undoable
      <3>2. CASE dest # NoFile
        BY <1>1, <2>1, <3>2 DEF OwnerHasFile
      <3>3. CASE dest = NoFile
        BY <1>1, <1>3, <2>2, <3>1, <3>3 DEF OwnerHasFile
      <3> QED  BY <3>2, <3>3
    <2> QED  BY <1>1, <2>6, <2>7, Unnoticed DEF Allowed
  <1> QED  BY <1>2, <1>3

LEMMA OwnerAllowed ==
    ASSUME Inv, Inv', OwnerWrites \/ OwnerEdits \/ OwnerDeletes
    PROVE  Managed!Owner
  <1>1. UNCHANGED <<hidden, record, pending>> /\ lost' \in {lost, TRUE} /\ acts' = acts + 1
    BY DEF OwnerWrites, OwnerEdits, OwnerDeletes, OwnerActs
  <1>2. dest'.text = OwnText
    <2>1. dest # NoFile => [dest EXCEPT !.text = OwnText].text = OwnText
      BY DEF Inv, TypeOK, FileType
    <2>2. dest' \in {File(NoRun, "own", OwnText), NoFile} \/ OwnerEdits
      BY DEF OwnerWrites, OwnerDeletes
    <2>3. CASE OwnerEdits
      BY <2>1, <2>3 DEF OwnerEdits
    <2> QED  BY <2>2, <2>3, Absent
  <1>3. \A o \in Runs : ~Unrecorded(o)'
    BY <1>1, <1>2, RowTexts, NotUnrecordedNext
  <1>4. SettledCases'
    BY SettledNext
  <1>5. CASE dest' # NoFile
    <2>1. Settled' = {OwnText}
      BY <1>2, <1>3, <1>4, <1>5 DEF SettledCases
    <2> QED  BY <1>1, <2>1 DEF Managed!Owner
  <1>6. CASE dest' = NoFile /\ \A o \in Runs : ~Undoable(o)'
    <2>1. Settled' = {}
      BY <1>4, <1>6 DEF SettledCases
    <2> QED  BY <1>1, <2>1 DEF Managed!Owner
  <1>7. ASSUME NEW r \in Runs, dest' = NoFile, Undoable(r)' PROVE Managed!Owner
    <2>1. Settled' = {aside'[r].text}
      BY <1>4, <1>7 DEF SettledCases
    <2>2. record.found /\ aside[r].text \in {OwnText, record.text}
      BY <1>1, <1>7 DEF Inv, StoreInv, AsideReady, Undoable, RemovalCommitted, hidden
    <2> QED  BY <1>1, <2>1, <2>2 DEF Managed!Owner, hidden
  <1> QED  BY <1>5, <1>6, <1>7

-----------------------------------------------------------------------------
(* Every step.                                                              *)

LEMMA StepAllowed ==
    ASSUME Inv, Inv', Orderly, NEW r \in Runs,
           InstallStep(r) \/ UndoStep(r) \/ RemoveStep(r) \/ FaultStep(r) \/ SweepStep(r)
    PROVE  Allowed
  <1>1. CASE InstallStep(r)
    BY <1>1, QuietSteps, RowSteps, StillAllowed, PublishAllowed, RecordAllowed DEF InstallStep
  <1>2. CASE UndoStep(r)
    BY <1>2, QuietSteps, RowSteps, StillAllowed, UndoAllowed DEF UndoStep
  <1>3. CASE RemoveStep(r)
    BY <1>3, QuietSteps, RowSteps, StillAllowed, MoveAllowed, CommitAllowed, CleanUpAllowed,
       RestoreAllowed DEF RemoveStep
  <1>4. CASE FaultStep(r)
    BY <1>4, QuietSteps, StillAllowed
  <1>5. CASE SweepStep(r)
    BY <1>5, QuietSteps, RowSteps, StillAllowed, RecoverInstallAllowed, RecoverRemovalAllowed
       DEF SweepStep
  <1> QED  BY <1>1, <1>2, <1>3, <1>4, <1>5

LEMMA RestartAllowed ==
    ASSUME Inv, Inv', Crash \/ StartWorker \/ UNCHANGED vars
    PROVE  Allowed
  <1>1. record'.found = record.found /\ record'.text = record.text
    BY DEF Crash, StartWorker, vars, Inv, TypeOK, RecordType
  <1>2. UNCHANGED <<dest, aside, pending, lost, acts>>
    BY DEF Crash, StartWorker, vars, hidden
  <1> QED  BY <1>1, <1>2, SameStill, StillAllowed

LEMMA NextAllowed ==
    ASSUME Inv, Inv', Orderly, [Next]_vars
    PROVE  Allowed \/ (Managed!Owner /\ acts' # acts)
  <1>1. CASE Crash \/ StartWorker \/ UNCHANGED vars
    BY <1>1, RestartAllowed
  <1>2. CASE OwnerWrites \/ OwnerEdits \/ OwnerDeletes
    <2>1. acts' = acts + 1 /\ acts \in Nat
      BY <1>2 DEF OwnerWrites, OwnerEdits, OwnerDeletes, OwnerActs, Inv, TypeOK
    <2> QED  BY <1>2, <2>1, OwnerAllowed
  <1>3. ASSUME NEW r \in Runs, InstallStep(r) \/ UndoStep(r) \/ RemoveStep(r) \/ FaultStep(r) \/ SweepStep(r)
        PROVE  Allowed
    BY <1>3, StepAllowed
  <1> QED  BY <1>1, <1>2, <1>3 DEF Next

\* No step of subsyncd takes away what the owner put at the destination or
\* edited there (OwnerFileKept), when the owner is quiet during publications
\* and every removal settles its row.
THEOREM OwnersFileKept ==
    ASSUME Orderly
    PROVE  Spec => OwnerFileKept
  <1>1. Inv /\ [Next]_vars => Inv'
    BY NextInv
  <1>2. Inv /\ Inv' /\ [Next]_vars => [(acts' = acts /\ OwnerHasFile) => OwnerHasFile']_vars
    BY NextAllowed DEF Allowed
  <1> QED  BY <1>1, <1>2, InitInv, PTL DEF Spec, OwnerFileKept

LEMMA InitAllowed == Init => Managed!Init
  <1> SUFFICES ASSUME Init PROVE Managed!Init
    OBVIOUS
  <1>1. SettledCases
    BY InitInv, SettledIs
  <1>2. \A r \in Runs : ~Unrecorded(r) /\ ~Undoable(r)
    BY Absent DEF Init, Unrecorded, Undoable
  <1>3. CASE dest = NoFile /\ record = NoRecord
    <2>1. Settled = {} /\ ~record.found /\ lost = FALSE /\ acts = 0
      BY <1>1, <1>2, <1>3, Absent DEF SettledCases, Init
    <2> QED  BY <2>1 DEF Managed!Init
  <1>4. ASSUME NEW t \in Texts, dest = File(NoRun, "stage", t),
               record = [NoRecord EXCEPT !.found = TRUE, !.text = t]
        PROVE  Managed!Init
    <2>1. dest # NoFile /\ dest.text = t
      BY <1>4, Absent
    <2>2. record.found /\ record.text = t /\ lost = FALSE /\ acts = 0
      BY <1>4 DEF NoRecord, Init
    <2>3. Settled = {t}
      BY <1>1, <1>2, <2>1 DEF SettledCases
    <2> QED  BY <2>2, <2>3 DEF Managed!Init
  <1> QED  BY <1>3, <1>4 DEF Init

\* Installing and removing implement ManagedSubtitle: to anyone who looks after
\* a restart, the subtitle and its record change together in one step, or not
\* at all; a subtitle that changes without its record was changed by the owner,
\* in a step that counts as one of the owner's acts (InstallIsAtomic).
THEOREM InstallImplementsManaged ==
    ASSUME Orderly
    PROVE  Spec => InstallIsAtomic
  <1>1. Inv /\ [Next]_vars => Inv'
    BY NextInv
  <1>2. Inv /\ Inv' /\ [Next]_vars => [Managed!Next]_(Managed!vars)
    BY NextAllowed DEF Allowed, Managed!Next
  <1> QED  BY <1>1, <1>2, InitInv, InitAllowed, PTL DEF Spec, InstallIsAtomic, Managed!Spec
=============================================================================
