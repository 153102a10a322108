---------------------------- MODULE LibraryProofs ----------------------------
(***************************************************************************)
(* Proofs about the library: Sidecars, the subtitle files that follow the  *)
(* media files, and CatalogEvents, the media table that follows Arr.       *)
(***************************************************************************)
EXTENDS Sidecars, CatalogEvents, FiniteSetTheorems, WellFoundedInduction, TLAPS

-----------------------------------------------------------------------------
(* The shape of the state.                                                  *)

Names == Paths \cup {NoPath}
FileType == [ino : Nat, own : BOOLEAN]
MediaType == [file : Nat, size : Nat, path : Names]
RecordType == [path : Names, sub : Nat, mediaPath : Names, file : Nat, size : Nat]
RowType == [from : Names, to : Names, ino : Nat]
Moving == {"link", "linked", "unlink"}
Aimed == {"aim", "remove", "rebase", "move"} \cup Moving
Phases == {"idle", "inspect", "decide", "drop", "search"} \cup Aimed
JobType == [pc : Phases, media : MediaType, rec : RecordType, from : Names, to : Names, linked : BOOLEAN]

\* A running search knows its media path, and one that works on the sidecar
\* the names it works on.
Named(j) ==
    /\ j.pc # "idle" => j.media.path \in Paths
    /\ j.pc \notin {"idle", "search"} => j.rec.path \in Paths
    /\ j.pc \in Aimed => j.from \in Paths /\ j.to \in Paths

DiskType == disk \in [Paths -> FileType]
JobOK == job \in JobType /\ Named(job)
RecordOK == record \in RecordType /\ (record # NoRecord => record.path \in Paths)
WorldOK ==
    /\ arr \in MediaType /\ arr.path \in Paths /\ media \in MediaType /\ media.path \in Paths
    /\ arr.file # 0 /\ row \in RowType
    /\ files \in Nat /\ changes \in Nat

SidecarsType == DiskType /\ JobOK /\ RecordOK /\ WorldOK

-----------------------------------------------------------------------------
(* What the reconciliation decides.                                         *)

\* inspectSidecar finds the recorded text only in a file nobody edited.
LEMMA Matching ==
    ASSUME NEW name, NEW rec, Sidecar(name, rec) = "matches"
    PROVE  disk[name] # NoFile /\ disk[name] = [ino |-> rec.sub, own |-> FALSE]
  BY DEF Sidecar

\* followRename names paths.
LEMMA FollowRenameNames ==
    ASSUME NEW rec \in RecordType, NEW m \in MediaType,
           rec.path \in Paths, m.path \in Paths, rec.mediaPath \in Paths
    PROVE  /\ FollowRename(rec, m).do \in {"rebase", "remove", "move", "drop"}
           /\ FollowRename(rec, m).from \in Paths
           /\ FollowRename(rec, m).to \in Paths
  <1>1. Rebased(rec.path, m.path, rec.mediaPath) \in Paths
    BY DEF Rebased
  <1> QED  BY <1>1 DEF FollowRename, Do, Sidecar

LEMMA SettleReplacedNames ==
    ASSUME NEW rec \in RecordType, NEW m \in MediaType,
           rec.path \in Paths, m.path \in Paths
    PROVE  /\ SettleReplaced(rec, m).do \in {"keep", "remove", "defer", "drop"}
           /\ SettleReplaced(rec, m).from \in Paths
           /\ SettleReplaced(rec, m).to \in Paths
  <1>1. Rebased(rec.path, rec.mediaPath, m.path) \in Paths
    BY DEF Rebased
  <1>2. /\ Candidates(rec, m)[1] \in Paths
        /\ Candidates(rec, m)[2] \in Paths
    BY <1>1 DEF Candidates
  <1> QED  BY <1>2 DEF SettleReplaced, Do

LEMMA VerdictNames ==
    ASSUME NEW rec \in RecordType, NEW m \in MediaType,
           rec.path \in Paths, m.path \in Paths
    PROVE  /\ Verdict(rec, m).do \in {"rebase", "remove", "move", "drop", "keep", "defer"}
           /\ Verdict(rec, m).from \in Paths
           /\ Verdict(rec, m).to \in Paths
  <1>1. CASE SameFile(rec, m) /\ rec.mediaPath \notin {NoPath, m.path}
    <2>1. rec.mediaPath \in Paths
      BY <1>1 DEF RecordType, Names
    <2>2. Verdict(rec, m) = FollowRename(rec, m)
      BY <1>1 DEF Verdict
    <2> QED  BY <2>1, <2>2, FollowRenameNames
  <1>2. CASE SameFile(rec, m) /\ rec.mediaPath \in {NoPath, m.path}
    BY <1>2 DEF Verdict, Do
  <1>3. CASE ~SameFile(rec, m)
    <2>1. Verdict(rec, m) = SettleReplaced(rec, m)
      BY <1>3 DEF Verdict
    <2> QED  BY <2>1, SettleReplacedNames
  <1> QED  BY <1>1, <1>2, <1>3

-----------------------------------------------------------------------------
(* Every step keeps the shape.                                              *)

LEMMA IdleOK == Idle \in JobType /\ Named(Idle) /\ NoRecord \in RecordType /\ NoRow \in RowType
  BY DEF Idle, JobType, Named, NoMedia, MediaType, NoRecord, RecordType, NoRow, RowType,
         Names, Phases, Aimed, Moving

\* A search that goes on from one phase to the next with its names.
LEMMA GoToOK ==
    ASSUME JobOK, NEW pc \in Phases \ {"idle"}, GoTo(pc), job.pc # "idle",
           pc \notin {"search"} => job.pc # "search",
           pc \in Aimed => job.pc \in Aimed
    PROVE  JobOK'
  BY DEF JobOK, GoTo, JobType, Named, Phases, Aimed, Moving

LEMMA EndsOK ==
    ASSUME job' = Idle
    PROVE  JobOK'
  BY IdleOK DEF JobOK

LEMMA InitType == Init => SidecarsType
  <1> HAVE Init
  <1>1. PICK path \in Paths : arr = [file |-> 1, size |-> 1, path |-> path]
    BY DEF Init
  <1>2. arr \in MediaType /\ arr.path \in Paths /\ arr.file # 0 /\ media = arr
    BY <1>1 DEF Init, MediaType, Names
  <1>3. record \in RecordType /\ record.path \in Paths
    BY <1>2 DEF Init, Legacy, Installed, LegacySub, RecordType, MediaType, Names
  <1>4. DiskType
    <2>1. \A n \in Paths : (IF n = arr.path THEN [ino |-> record.sub, own |-> FALSE] ELSE NoFile) \in FileType
      BY <1>3 DEF RecordType, NoFile, FileType
    <2> QED  BY <2>1 DEF DiskType, Init
  <1>5. JobOK /\ row \in RowType
    BY IdleOK DEF Init, JobOK
  <1>6. files \in Nat /\ changes \in Nat
    BY DEF Init
  <1> QED  BY <1>2, <1>3, <1>4, <1>5, <1>6 DEF SidecarsType, RecordOK, WorldOK

LEMMA WorldType ==
    ASSUME SidecarsType, World
    PROVE  SidecarsType'
  <1> USE DEF SidecarsType
  <1>1. ASSUME NEW file \in 1 .. MaxChanges + 1, NEW size \in Sizes, NEW path \in Paths,
               NEW fate \in {"carry", "leave", "delete"}, ArrChanges(file, size, path, fate)
        PROVE  SidecarsType'
    <2>1. arr' \in MediaType /\ arr'.path \in Paths /\ arr'.file # 0
      BY <1>1 DEF ArrChanges, MediaType, Names, Sizes, WorldOK
    <2>2. NoFile \in FileType /\ disk[arr.path] \in FileType
      BY DEF NoFile, FileType, WorldOK, DiskType
    <2>3. /\ [disk EXCEPT ![arr.path] = NoFile] \in [Paths -> FileType]
          /\ [disk EXCEPT ![arr.path] = NoFile, ![path] = disk[arr.path]] \in [Paths -> FileType]
      BY <2>2 DEF DiskType
    <2>4. DiskType'
      BY <1>1, <2>3 DEF ArrChanges, DiskType
    <2>5. UNCHANGED <<media, record, row, job, files>> /\ changes' = changes + 1
      BY <1>1 DEF ArrChanges
    <2> QED  BY <2>1, <2>4, <2>5 DEF WorldOK, JobOK, RecordOK
  <1>2. CASE ApplyImport
    <2>1. record' \in RecordType /\ (record' # NoRecord => record'.path \in Paths)
      BY <1>2 DEF ApplyImport, RebaseInstallationPaths, Rebased, RecordOK, WorldOK, RecordType, Names
    <2> QED  BY <1>2, <2>1 DEF ApplyImport, WorldOK, JobOK, RecordOK, DiskType
  <1>3. ASSUME NEW new, OwnerActs(new), new \in [Paths -> FileType], files' \in Nat
        PROVE  SidecarsType'
    BY <1>3 DEF OwnerActs, WorldOK, JobOK, RecordOK, DiskType
  <1>4. ASSUME NEW name \in Paths, OwnerEdits(name)
        PROVE  SidecarsType'
    <2>1. \A n \in Paths : (IF disk[n] = disk[name] THEN [disk[n] EXCEPT !.own = TRUE] ELSE disk[n]) \in FileType
      BY DEF DiskType, FileType
    <2> QED  BY <1>3, <1>4, <2>1 DEF OwnerEdits, WorldOK
  <1>5. ASSUME NEW name \in Paths, OwnerDeletes(name)
        PROVE  SidecarsType'
    <2>1. [disk EXCEPT ![name] = NoFile] \in [Paths -> FileType]
      BY DEF DiskType, FileType, NoFile
    <2> QED  BY <1>3, <1>5, <2>1 DEF OwnerDeletes, WorldOK
  <1>6. ASSUME NEW name \in Paths, OwnerAdds(name)
        PROVE  SidecarsType'
    <2>1. files' \in Nat /\ [ino |-> files + 1, own |-> TRUE] \in FileType
      BY <1>6 DEF OwnerAdds, WorldOK, FileType
    <2>2. [disk EXCEPT ![name] = [ino |-> files + 1, own |-> TRUE]] \in [Paths -> FileType]
      BY <2>1 DEF DiskType
    <2> QED  BY <1>3, <1>6, <2>1, <2>2 DEF OwnerAdds
  <1>7. CASE SlotFrees \/ SlotTaken
    BY <1>7 DEF SlotFrees, SlotTaken, env, WorldOK, JobOK, RecordOK, DiskType
  <1> QED  BY <1>1, <1>2, <1>4, <1>5, <1>6, <1>7 DEF World

\* The files a step removes, links or renames.
LEMMA SameFileRemovedType ==
    ASSUME DiskType, NEW name, NEW other
    PROVE  SameFileRemoved(name, other) \in [Paths -> FileType]
  BY DEF SameFileRemoved, DiskType, FileType, NoFile

LEMMA BeginType ==
    ASSUME SidecarsType, Begin
    PROVE  SidecarsType'
  <1> USE DEF SidecarsType
  <1>1. JobOK'
    <2>1. /\ job'.pc = IF record = NoRecord THEN "search" ELSE "inspect"
          /\ job'.media = media /\ job'.rec = record /\ job' \in JobType
      BY IdleOK DEF Begin, WorldOK, RecordOK, JobType, Phases, Idle
    <2> QED  BY <2>1 DEF JobOK, Named, Aimed, Moving, RecordOK, WorldOK
  <1> QED  BY <1>1 DEF Begin, env, WorldOK, RecordOK, DiskType

LEMMA ReattachType ==
    ASSUME SidecarsType, Reattach
    PROVE  SidecarsType'
  <1> USE DEF SidecarsType
  <1> DEFINE to == ReattachTo(job.rec, job.media)
             new(name) == [job.rec EXCEPT !.path = name, !.file = job.media.file]
  <1>1. job.pc = "inspect" /\ job.media.path \in Paths /\ job.rec.path \in Paths
        /\ job.rec \in RecordType /\ job.media \in MediaType
    BY DEF Reattach, JobOK, JobType, Named
  <1>2. to \subseteq Paths
    BY <1>1 DEF ReattachTo, Rebased
  <1>3. CASE GoTo("drop") /\ UNCHANGED record
    BY <1>1, <1>3, GoToOK DEF Reattach, env, Phases, Aimed, Moving, WorldOK, RecordOK, DiskType
  <1>4. CASE GoTo("decide") /\ UNCHANGED record
    BY <1>1, <1>4, GoToOK DEF Reattach, env, Phases, Aimed, Moving, WorldOK, RecordOK, DiskType
  <1>5. CASE Fails /\ UNCHANGED record
    BY <1>5, EndsOK DEF Reattach, Fails, env, WorldOK, RecordOK, DiskType
  <1>6. ASSUME NEW name \in to, record' = new(name), job' = [job EXCEPT !.pc = "decide", !.rec = new(name)]
        PROVE  SidecarsType'
    <2>1. new(name) \in RecordType /\ new(name).path \in Paths
      BY <1>1, <1>2 DEF RecordType, MediaType, Names
    <2>2. JobOK'
      BY <1>1, <1>6, <2>1 DEF JobOK, JobType, Named, Phases, Aimed, Moving
    <2> QED  BY <1>6, <2>1, <2>2 DEF Reattach, env, WorldOK, RecordOK, DiskType
  <1> QED  BY <1>3, <1>4, <1>5, <1>6 DEF Reattach

LEMMA DecideType ==
    ASSUME SidecarsType, Decide
    PROVE  SidecarsType'
  <1> USE DEF SidecarsType
  <1> DEFINE v == Verdict(job.rec, job.media)
             pc == CASE v.do = "keep" -> "search"
                     [] v.do = "remove" /\ v.to # job.rec.path -> "aim"
                     [] OTHER -> v.do
  <1>1. job.pc = "decide" /\ job.media.path \in Paths /\ job.rec.path \in Paths
        /\ job.rec \in RecordType /\ job.media \in MediaType
    BY DEF Decide, JobOK, JobType, Named
  <1>2. /\ v.do \in {"rebase", "remove", "move", "drop", "keep", "defer"}
        /\ v.from \in Paths /\ v.to \in Paths
    BY <1>1, VerdictNames
  <1>3. CASE v.do = "defer"
    BY <1>3, EndsOK DEF Decide, Fails, env, WorldOK, RecordOK, DiskType
  <1>4. CASE v.do # "defer"
    <2>1. pc \in Phases
      BY <1>2, <1>4 DEF Phases, Aimed, Moving
    <2>2. pc # "idle"
      BY <1>2, <1>4
    <2> HIDE DEF v, pc
    <2>3. job' = [job EXCEPT !.pc = pc, !.from = v.from, !.to = v.to]
      BY <1>4 DEF Decide, v, pc
    <2>4. JobOK'
      BY <1>1, <1>2, <2>1, <2>2, <2>3 DEF JobOK, JobType, Named, Names
    <2> QED  BY <2>4 DEF Decide, env, WorldOK, RecordOK, DiskType
  <1> QED  BY <1>3, <1>4

LEMMA DropType ==
    ASSUME SidecarsType, Drop
    PROVE  SidecarsType'
  <1> USE DEF SidecarsType
  <1>1. CASE record = job.rec
    <2>1. JobOK'
      BY <1>1, GoToOK DEF Drop, Phases, Aimed, Moving
    <2> QED  BY <1>1, <2>1, IdleOK DEF Drop, env, WorldOK, RecordOK, DiskType
  <1>2. CASE record # job.rec
    BY <1>2, EndsOK DEF Drop, Fails, env, WorldOK, RecordOK, DiskType
  <1> QED  BY <1>1, <1>2

LEMMA AimType ==
    ASSUME SidecarsType, Aim
    PROVE  SidecarsType'
  <1> USE DEF SidecarsType
  <1>1. CASE record = job.rec
    <2>1. job.pc = "aim" /\ job.to \in Paths /\ job.from \in Paths /\ job.media.path \in Paths
      BY DEF Aim, JobOK, Named, Aimed
    <2>2. record' \in RecordType /\ record'.path \in Paths
      BY <1>1, <2>1 DEF Aim, RecordOK, RecordType, Names
    <2>3. job' = [job EXCEPT !.pc = "remove", !.rec = record']
      BY <1>1 DEF Aim
    <2>4. JobOK'
      BY <2>1, <2>2, <2>3 DEF JobOK, JobType, Named, Phases, Aimed
    <2> QED  BY <2>2, <2>4 DEF Aim, env, WorldOK, RecordOK, DiskType
  <1>2. CASE record # job.rec
    BY <1>2, EndsOK DEF Aim, Fails, env, WorldOK, RecordOK, DiskType
  <1> QED  BY <1>1, <1>2

LEMMA RemoveManagedType ==
    ASSUME SidecarsType, RemoveManaged
    PROVE  SidecarsType'
  <1> USE DEF SidecarsType
  <1>1. JobOK'
    <2>1. CASE GoTo("search")
      BY <2>1, GoToOK DEF RemoveManaged, Phases, Aimed, Moving
    <2>2. CASE GoTo("drop")
      BY <2>2, GoToOK DEF RemoveManaged, Phases, Aimed, Moving
    <2> QED  BY <2>1, <2>2, EndsOK DEF RemoveManaged, Fails
  <1>2. RecordOK'
    BY IdleOK DEF RemoveManaged, RecordOK
  <1>3. DiskType'
    <2>1. [disk EXCEPT ![job.to] = NoFile] \in [Paths -> FileType]
      BY DEF DiskType, FileType, NoFile
    <2>2. disk' \in {disk, [disk EXCEPT ![job.to] = NoFile]}
      BY DEF RemoveManaged
    <2> QED  BY <2>1, <2>2 DEF DiskType
  <1> QED  BY <1>1, <1>2, <1>3 DEF RemoveManaged, env, WorldOK

LEMMA RebaseType ==
    ASSUME SidecarsType, Rebase
    PROVE  SidecarsType'
  <1> USE DEF SidecarsType
  <1>1. CASE record = job.rec
    <2>1. job.pc = "rebase" /\ job.to \in Paths /\ job.media.path \in Paths
      BY DEF Rebase, JobOK, Named, Aimed
    <2>2. record' \in RecordType /\ record'.path \in Paths
      BY <1>1, <2>1 DEF Rebase, RecordOK, RecordType, Names
    <2>3. JobOK'
      BY <1>1, <2>1, GoToOK DEF Rebase, Phases, Aimed, Moving
    <2>4. DiskType'
      BY <1>1, SameFileRemovedType DEF Rebase, DiskType
    <2> QED  BY <2>2, <2>3, <2>4 DEF Rebase, env, WorldOK, RecordOK
  <1>2. CASE record # job.rec
    BY <1>2, EndsOK DEF Rebase, Fails, env, WorldOK, RecordOK, DiskType
  <1> QED  BY <1>1, <1>2

LEMMA UndoneMoveType ==
    ASSUME SidecarsType, job.pc = "linked"
    PROVE  UndoneMove \in [Paths -> FileType]
  <1>1. job.from \in Paths /\ job.to \in Paths
    BY DEF SidecarsType, JobOK, Named, Aimed, Moving
  <1>2. disk[job.to] \in FileType /\ NoFile \in FileType
    BY <1>1 DEF SidecarsType, DiskType, NoFile, FileType
  <1>3. [disk EXCEPT ![job.from] = disk[job.to], ![job.to] = NoFile] \in [Paths -> FileType]
    BY <1>2 DEF SidecarsType, DiskType
  <1> QED  BY <1>3, SameFileRemovedType DEF UndoneMove, SidecarsType

LEMMA MoveType ==
    ASSUME SidecarsType, Move
    PROVE  SidecarsType'
  <1> USE DEF SidecarsType
  <1>0. \/ job' = Idle \/ GoTo("search")
        \/ job.pc = "move" /\ GoTo("link")
        \/ job.pc = "link" /\ GoTo("drop")
        \/ job.pc = "link" /\ \E linked \in BOOLEAN : job' = [job EXCEPT !.pc = "linked", !.linked = linked]
        \/ job.pc = "linked" /\ GoTo("unlink")
    BY DEF Move, BeginMove, Link, LinkFails, Unmovable, RecordMove, RecordMoveFails, UndoMove, Unlink, UnlinkFails, Fails
  <1>1. job.pc \in {"move", "link", "linked", "unlink"}
    BY DEF Move, BeginMove, Link, LinkFails, Unmovable, RecordMove, RecordMoveFails, UndoMove, Unlink, UnlinkFails
  <1>2. job.from \in Paths /\ job.to \in Paths /\ job.media.path \in Paths
    BY <1>1 DEF JobOK, Named, Aimed, Moving
  <1>3. JobOK'
    <2>1. CASE job.pc = "link" /\ \E linked \in BOOLEAN : job' = [job EXCEPT !.pc = "linked", !.linked = linked]
      BY <2>1 DEF JobOK, JobType, Named, Phases, Aimed, Moving
    <2> QED  BY <1>0, <1>1, <2>1, GoToOK, EndsOK DEF Phases, Aimed, Moving
  <1>4. UNCHANGED <<arr, media, files, changes>>
    BY DEF Move, BeginMove, Link, LinkFails, Unmovable, RecordMove, RecordMoveFails, UndoMove, Unlink, UnlinkFails, env
  <1>5. row' \in RowType
    <2>1. disk[job.from].ino \in Nat
      BY <1>2 DEF DiskType, FileType
    <2>2. [from |-> job.from, to |-> job.to, ino |-> disk[job.from].ino] \in RowType
      BY <1>2, <2>1 DEF RowType, Names
    <2>3. row' \in {NoRow, row, [from |-> job.from, to |-> job.to, ino |-> disk[job.from].ino]}
      BY DEF Move, BeginMove, Link, LinkFails, Unmovable, RecordMove, RecordMoveFails, UndoMove, Unlink, UnlinkFails
    <2> QED  BY <2>2, <2>3, IdleOK DEF WorldOK
  <1>6. RecordOK'
    <2>1. \/ UNCHANGED record
          \/ record' = [record EXCEPT !.path = job.to, !.mediaPath = job.media.path]
      BY DEF Move, BeginMove, Link, LinkFails, Unmovable, RecordMove, RecordMoveFails, UndoMove, Unlink, UnlinkFails
    <2> QED  BY <1>2, <2>1 DEF RecordOK, RecordType, Names
  <1>7. DiskType'
    <2>1. CASE UNCHANGED disk
      BY <2>1 DEF DiskType
    <2>2. ASSUME NEW linked \in BOOLEAN, Link(linked), disk' # disk
          PROVE  DiskType'
      <3>1. /\ disk[job.from] \in FileType /\ NoFile \in FileType
            /\ \A n \in Paths : disk[n] \in FileType
        BY <1>2 DEF DiskType, NoFile, FileType
      <3> QED  BY <2>2, <3>1 DEF Link, DiskType
    <2>3. CASE Unlink /\ disk' # disk
      BY <2>3, SameFileRemovedType DEF Unlink, DiskType
    <2>4. CASE (RecordMove \/ RecordMoveFails) /\ disk' # disk
      BY <2>4, UndoneMoveType DEF RecordMove, RecordMoveFails, UndoMove, DiskType
    <2> QED  BY <2>1, <2>2, <2>3, <2>4 DEF Move, BeginMove, LinkFails, Unmovable, UnlinkFails
  <1> QED  BY <1>3, <1>4, <1>5, <1>6, <1>7 DEF WorldOK

LEMMA InstallType ==
    ASSUME SidecarsType, Install
    PROVE  SidecarsType'
  <1> USE DEF SidecarsType
  <1>1. job.media \in MediaType /\ job.media.path \in Paths
    BY DEF Install, JobOK, JobType, Named
  <1>2. files' = files + 1 /\ files' \in Nat
    BY DEF Install, WorldOK
  <1>3. RecordOK'
    BY <1>1, <1>2 DEF Install, Installed, RecordOK, RecordType, MediaType
  <1>4. DiskType'
    <2>1. [ino |-> files + 1, own |-> FALSE] \in FileType
      BY <1>2 DEF FileType
    <2> QED  BY <2>1 DEF Install, DiskType
  <1> QED  BY <1>2, <1>3, <1>4, EndsOK DEF Install, Completes, env, WorldOK

LEMMA TypeKept ==
    ASSUME SidecarsType, [Next]_vars
    PROVE  SidecarsType'
  <1>1. CASE SearchEnds
    BY <1>1, EndsOK DEF SidecarsType, SearchEnds, Completes, env, WorldOK, RecordOK, DiskType
  <1>2. CASE Cancelled
    BY <1>2, EndsOK DEF SidecarsType, Cancelled, Fails, env, WorldOK, RecordOK, DiskType
  <1>3. CASE Restart
    <2>1. disk' \in {disk, RecoverPendingMove}
      BY <1>3 DEF Restart
    <2>2. DiskType'
      BY <2>1, SameFileRemovedType DEF RecoverPendingMove, SidecarsType, DiskType
    <2>3. row' \in {row, NoRow} /\ job' = Idle
      BY <1>3 DEF Restart, Fails
    <2> QED  BY <1>3, <2>2, <2>3, EndsOK, IdleOK DEF SidecarsType, Restart, env, WorldOK, RecordOK
  <1>4. CASE UNCHANGED vars
    BY <1>4 DEF SidecarsType, vars, WorldOK, RecordOK, DiskType, JobOK
  <1> QED  BY <1>1, <1>2, <1>3, <1>4, WorldType, BeginType, ReattachType, DecideType, DropType,
              AimType, RemoveManagedType, RebaseType, MoveType, InstallType DEF Next, Settle

\* Paths stay paths: no operation of a search is aimed at a name it does not
\* know (ReconcileInstallation).
THEOREM SidecarsTyped == Spec => []SidecarsType
  <1>1. SidecarsType /\ [Next]_vars => SidecarsType'
    BY TypeKept
  <1> QED  BY InitType, <1>1, PTL DEF Spec

-----------------------------------------------------------------------------
(* The owner's files.                                                       *)

LEMMA SameFileLeft ==
    ASSUME SidecarsType, NEW name, NEW other \in Paths, disk' = SameFileRemoved(name, other),
           NEW n \in Paths
    PROVE  \E m \in Paths : disk'[m] = disk[n]
  <1>1. CASE n # name \/ disk' = disk
    BY <1>1 DEF SameFileRemoved, SidecarsType, DiskType
  <1>2. CASE n = name /\ disk' # disk
    <2>1. disk'[other] = disk[n]
      BY <1>2 DEF SameFileRemoved, SidecarsType, DiskType
    <2> QED  BY <2>1
  <1> QED  BY <1>1, <1>2

LEMMA OwnerStep ==
    ASSUME SidecarsType, [Next]_vars, arr' = arr, changes' = changes,
           NEW n \in Paths, disk[n].own
    PROVE  \E m \in Paths : disk'[m] = disk[n]
  <1>1. disk[n] # NoFile
    BY DEF NoFile
  <1>2. CASE disk' = disk
    BY <1>2
  <1>3. CASE World
    <2>1. changes \in Nat
      BY DEF SidecarsType, WorldOK
    <2>2. changes + 1 # changes
      BY <2>1
    <2> QED  BY <1>2, <1>3, <2>2 DEF World, ArrChanges, ApplyImport, OwnerEdits, OwnerDeletes, OwnerAdds,
                OwnerActs, SlotFrees, SlotTaken
  <1>4. CASE RemoveManaged /\ disk' # disk
    <2>0. disk' = [disk EXCEPT ![job.to] = NoFile] /\ Sidecar(job.to, job.rec) = "matches"
      BY <1>4 DEF RemoveManaged
    <2>a. disk[job.to] = [ino |-> job.rec.sub, own |-> FALSE]
      BY <2>0, Matching
    <2>1. disk' = [disk EXCEPT ![job.to] = NoFile] /\ ~disk[job.to].own
      BY <2>0, <2>a
    <2>2. disk'[n] = disk[n]
      BY <2>1 DEF SidecarsType, DiskType
    <2> QED  BY <2>2
  <1>5. CASE Rebase /\ disk' # disk
    <2>1. disk' = SameFileRemoved(job.from, job.to) /\ job.to \in Paths
      BY <1>5 DEF Rebase, SidecarsType, JobOK, Named, Aimed
    <2> QED  BY <2>1, SameFileLeft
  <1>6. ASSUME NEW linked \in BOOLEAN, Link(linked), disk' # disk
        PROVE  \E m \in Paths : disk'[m] = disk[n]
    <2>1. job.to \in Paths /\ job.from \in Paths
      BY <1>6 DEF Link, SidecarsType, JobOK, Named, Aimed, Moving
    <2>2. /\ disk[job.to] = NoFile
          /\ disk' = [k \in Paths |-> IF k = job.to THEN disk[job.from]
                                      ELSE IF k = job.from /\ ~linked THEN NoFile ELSE disk[k]]
      BY <1>6 DEF Link
    <2>3. CASE n = job.from
      <3>1. disk'[job.to] = disk[n]
        BY <2>1, <2>2, <2>3
      <3> QED  BY <2>1, <3>1
    <2>4. CASE n # job.from
      <3>1. n # job.to
        BY <1>1, <2>2
      <3>2. disk'[n] = disk[n]
        BY <2>2, <2>4, <3>1
      <3> QED  BY <3>2
    <2> QED  BY <2>3, <2>4
  <1>7. CASE (RecordMove \/ RecordMoveFails) /\ disk' # disk
    <2>1. job.to \in Paths /\ job.from \in Paths
      BY <1>7 DEF RecordMove, RecordMoveFails, SidecarsType, JobOK, Named, Aimed, Moving
    <2>2. disk' = UndoneMove /\ CanUndo
      BY <1>7 DEF RecordMove, RecordMoveFails, UndoMove
    <2>3. CASE job.linked
      BY <2>1, <2>2, <2>3, SameFileLeft DEF UndoneMove
    <2>4. CASE ~job.linked
      <3>1. disk' = [disk EXCEPT ![job.from] = disk[job.to], ![job.to] = NoFile]
        BY <2>2, <2>4 DEF UndoneMove
      <3>2. n # job.from
        BY <1>1, <2>2, <2>4 DEF CanUndo
      <3>3. CASE n = job.to
        <4>1. disk'[job.from] = disk[n]
          BY <2>1, <3>1, <3>2, <3>3 DEF SidecarsType, DiskType
        <4> QED  BY <2>1, <4>1
      <3>4. CASE n # job.to
        <4>1. disk'[n] = disk[n]
          BY <3>1, <3>2, <3>4 DEF SidecarsType, DiskType
        <4> QED  BY <4>1
      <3> QED  BY <3>3, <3>4
    <2> QED  BY <2>3, <2>4
  <1>8. CASE Unlink /\ disk' # disk
    <2>1. disk' = SameFileRemoved(job.from, job.to) /\ job.to \in Paths
      BY <1>8 DEF Unlink, SidecarsType, JobOK, Named, Aimed, Moving
    <2> QED  BY <2>1, SameFileLeft
  <1>9. CASE Install
    <2>1. disk[job.media.path] = NoFile /\ n # job.media.path
      BY <1>1, <1>9 DEF Install
    <2>2. disk'[n] = disk[n]
      BY <1>9, <2>1 DEF Install, SidecarsType, DiskType
    <2> QED  BY <2>2
  <1>10. CASE Restart /\ disk' # disk
    <2>1. disk' = SameFileRemoved(row.from, row.to) /\ ~disk[row.from].own
      BY <1>10 DEF Restart, RecoverPendingMove, Fails
    <2>2. disk'[n] = disk[n]
      BY <2>1 DEF SameFileRemoved, SidecarsType, DiskType
    <2> QED  BY <2>2
  <1>11. CASE Begin \/ Reattach \/ Decide \/ Drop \/ Aim \/ SearchEnds \/ Cancelled
    BY <1>2, <1>11 DEF Begin, Reattach, Decide, Drop, Aim, SearchEnds, Cancelled
  <1>12. CASE BeginMove \/ LinkFails \/ Unmovable \/ UnlinkFails
    BY <1>2, <1>12 DEF BeginMove, LinkFails, Unmovable, UnlinkFails
  <1>13. CASE UNCHANGED vars
    BY <1>2, <1>13 DEF vars
  <1> QED  BY <1>2, <1>3, <1>4, <1>5, <1>6, <1>7, <1>8, <1>9, <1>10, <1>11, <1>12, <1>13
           DEF Next, Settle, Move

\* No step of the daemon takes the last name of a file the owner wrote or
\* edited, for any number of paths, renames, crashes and failed calls
\* (RemoveManaged, removeSameFile, restoreRemoved, recoverPendingMove).
THEOREM OwnersFilesKept == Spec => OwnerKept
  <1>1. SidecarsType /\ [Next]_vars => [OwnerLeft]_vars
    BY OwnerStep DEF OwnerLeft
  <1> QED  BY <1>1, SidecarsTyped, PTL DEF Spec, OwnerKept

-----------------------------------------------------------------------------
(* The record follows the media file: what holds between the steps.         *)

\* A search that works on the record is not disturbed: the change that would
\* disturb it is noted in lost, or in settled.
Steady == ~lost \/ settled # "no"

Looking == {"inspect", "decide", "drop", "aim", "remove", "rebase", "move", "link", "linked"}

Undisturbed ==
    Steady /\ job.pc # "idle" =>
        /\ media = arr /\ job.media = arr
        /\ job.pc \in Looking => job.rec = record

\* A record knows its media path if it knows its media file.
RecordKnows == record.file # 0 => record.mediaPath \in Paths

\* What is there has a number of its own.
Numbered == \A n \in Paths : disk[n] # NoFile => disk[n].ino \in 1 .. files

\* The record is true of the current media file.
RecordHolds ==
    record # NoRecord =>
        /\ disk[record.path] # NoFile
        /\ IF record.file = 0 THEN record.path = arr.path
           ELSE SameFile(record, arr) /\ record.mediaPath = arr.path
        /\ disk[record.path].own => record.path = arr.path

\* How far a search has come that settles the record, or that finds it settled.
Progress ==
    /\ settled \in {"no", "begun", "yes"}
    /\ settled # "no" => media = arr
    /\ settled = "begun" => job.pc # "idle"
    /\ settled = "yes" => RecordHolds /\ job.pc \in {"idle", "inspect", "decide", "drop", "search"}
    /\ settled = "begun" /\ job.pc \in {"search", "unlink"} => RecordHolds
    /\ settled = "begun" /\ job.pc = "unlink" => record.path = job.to
    /\ settled = "begun" /\ job.pc = "rebase" => disk[job.to] # NoFile /\ (disk[job.to].own => job.to = arr.path)
    /\ Steady /\ job.pc \in {"rebase", "move", "link", "linked"} => SameFile(record, arr)

\* A move goes from the name of the old media path to that of the new one.
MoveNames ==
    /\ ~lost /\ job.pc \in {"move", "link", "linked"} =>
          record.path = arr.path /\ job.to = arr.path /\ job.from = record.mediaPath /\ job.from # job.to
    /\ ~lost /\ job.pc \in Moving =>
          /\ row.from = job.from /\ row.to = job.to /\ row # NoRow
          /\ job.to = arr.path /\ job.from # job.to
    /\ ~lost /\ job.pc = "link" => disk[job.from] # NoFile /\ row.ino = disk[job.from].ino
    /\ ~lost /\ job.pc \in {"linked", "unlink"} =>
          /\ disk[job.to] # NoFile /\ disk[job.to].ino = row.ino
          /\ disk[job.from] = IF job.linked THEN disk[job.to] ELSE NoFile
    /\ ~lost /\ job.pc = "unlink" =>
          /\ SameFile(record, arr) /\ record.path = arr.path /\ record.mediaPath = arr.path
          /\ disk[arr.path] = [ino |-> record.sub, own |-> FALSE]

\* An unlink that failed leaves its row for the next start, and the sidecar
\* recorded under the new name.
RowWaits ==
    ~lost /\ row # NoRow /\ job.pc \notin Moving =>
        /\ media = arr /\ job.pc \in {"idle", "inspect", "decide", "search"}
        /\ SameFile(record, arr) /\ record.path = arr.path /\ record.mediaPath = arr.path
        /\ row.to = arr.path /\ row.from \in Paths /\ row.from # row.to
        /\ disk[arr.path] = [ino |-> record.sub, own |-> FALSE] /\ row.ino = record.sub
        /\ disk[arr.path] # NoFile /\ disk[row.from] \in {NoFile, disk[arr.path]}

Unedited(n) == disk[n] # NoFile /\ ~disk[n].own

\* Only the two names of a move share a file.
Distinct ==
    ~lost => \A m, n \in Paths :
        Unedited(m) /\ disk[m].ino = disk[n].ino /\ m # n =>
            row # NoRow /\ job.pc # "link" /\ {m, n} = {row.from, row.to}

Managed(n) == Unedited(n) /\ disk[n].ino # LegacySub

\* The names under which a search looks for the recorded sidecar.
Looks(rec, m) ==
    IF SameFile(rec, m) THEN {rec.path, Rebased(rec.path, m.path, rec.mediaPath)}
    ELSE {rec.path, Rebased(rec.path, rec.mediaPath, m.path)}

RowNames == IF row = NoRow THEN {} ELSE {row.from, row.to}

\* Every subtitle that subsyncd installed is the recorded one, and where it is
\* looked for.
Tracked ==
    ~lost => \A n \in Paths : Managed(n) =>
        /\ record.file # 0 /\ record.sub = disk[n].ino
        /\ n \in Looks(RebaseInstallationPaths(record), arr) \cup RowNames

\* ... and where the search that has found it is about to act.
Found ==
    /\ ~lost /\ job.pc = "drop" => \A n \in Paths : ~Managed(n)
    /\ ~lost /\ job.pc \in {"aim", "remove", "rebase"} => \A n \in Paths : Managed(n) => n = job.to

FollowInv ==
    /\ SidecarsType /\ (job.pc = "idle" => job = Idle)
    /\ Undisturbed /\ RecordKnows /\ Numbered /\ Progress
    /\ MoveNames /\ RowWaits /\ Distinct /\ Tracked /\ Found

\* The fields of the files on disk.
LEMMA FileFields ==
    ASSUME DiskType, NEW n \in Paths
    PROVE  /\ disk[n].ino \in Nat /\ disk[n].own \in BOOLEAN
           /\ disk[n] = [ino |-> disk[n].ino, own |-> disk[n].own]
  BY DEF DiskType, FileType

LEMMA NotRebased ==
    ASSUME NEW rec, media = arr
    PROVE  RebaseInstallationPaths(rec) = rec
  BY DEF RebaseInstallationPaths

LEMMA FollowInit == ASSUME Init PROVE FollowInv
  <1>1. SidecarsType
    BY InitType
  <1>2. PICK path \in Paths : arr = [file |-> 1, size |-> 1, path |-> path]
    BY DEF Init
  <1>3. media = arr /\ row = NoRow /\ job = Idle /\ settled = "yes" /\ lost = FALSE /\ job.pc = "idle"
    BY DEF Init, Idle
  <1>4. record.path = arr.path /\ record.sub \in {1, 2}
        /\ (record.file = 0 => record.sub = 1)
        /\ (record.file # 0 => record.file = arr.file /\ record.size = arr.size /\ record.mediaPath = arr.path)
    BY <1>2 DEF Init, Legacy, Installed, LegacySub
  <1>5. \A n \in Paths : disk[n] = IF n = arr.path THEN [ino |-> record.sub, own |-> FALSE] ELSE NoFile
    BY DEF Init
  <1>6. Undisturbed /\ MoveNames /\ RowWaits /\ Found
    BY <1>3 DEF Undisturbed, MoveNames, RowWaits, Found, Moving
  <1>7. RecordKnows /\ RecordHolds
    BY <1>2, <1>4, <1>5 DEF RecordKnows, RecordHolds, SameFile, NoFile
  <1>8. Numbered
    BY <1>4, <1>5 DEF Numbered, NoFile, Init
  <1>9. Progress
    BY <1>3, <1>7 DEF Progress
  <1>10. Distinct
    BY <1>4, <1>5 DEF Distinct, Unedited, NoFile
  <1>11. Tracked
    <2>1. RebaseInstallationPaths(record) = record
      BY <1>3, NotRebased
    <2> QED  BY <1>4, <1>5, <2>1 DEF Tracked, Managed, Unedited, Looks, NoFile, LegacySub
  <1> QED  BY <1>1, <1>3, <1>6, <1>7, <1>8, <1>9, <1>10, <1>11 DEF FollowInv

\* A step that only moves the search on.
LEMMA OnlyJob ==
    ASSUME FollowInv, SidecarsType', UNCHANGED <<arr, media, lost, disk, record, row, files>>,
           (job.pc = "idle" => job = Idle)', job'.pc = "link" => job.pc = "link",
           Undisturbed', Progress', MoveNames', RowWaits', Found'
    PROVE  FollowInv'
  <1>1. RecordKnows' /\ Numbered'
    BY DEF FollowInv, RecordKnows, Numbered
  <1>2. Distinct'
    BY DEF FollowInv, Distinct, Unedited
  <1>3. Tracked'
    BY DEF FollowInv, Tracked, Managed, Unedited, Looks, RowNames, RebaseInstallationPaths, SameFile
  <1> QED  BY <1>1, <1>2, <1>3 DEF FollowInv

\* The search ends.
LEMMA Ends ==
    ASSUME FollowInv, SidecarsType', UNCHANGED <<arr, media, lost, disk, record, row, files>>,
           job' = Idle, settled' \in {"no", "yes"}, settled' = "yes" => media = arr /\ RecordHolds,
           ~lost /\ row # NoRow => job.pc \notin Moving
    PROVE  FollowInv'
  <1>1. job'.pc = "idle"
    BY DEF Idle
  <1>2. Undisturbed' /\ MoveNames' /\ Found'
    BY <1>1 DEF Undisturbed, MoveNames, Found, Moving
  <1>3. RowWaits'
    BY <1>1 DEF FollowInv, RowWaits, SameFile
  <1>4. Progress'
    BY <1>1 DEF Progress, RecordHolds, SameFile
  <1> QED  BY <1>1, <1>2, <1>3, <1>4, OnlyJob

LEMMA FailsEnds ==
    ASSUME FollowInv, SidecarsType', UNCHANGED <<arr, media, lost, disk, record, row, files>>,
           Fails, ~lost /\ row # NoRow => job.pc \notin Moving
    PROVE  FollowInv'
  <1>1. settled' \in {"no", "yes"} /\ (settled' = "yes" => media = arr /\ RecordHolds)
    BY DEF FollowInv, Progress, Fails
  <1> QED  BY <1>1, Ends DEF Fails

LEMMA FollowBegin ==
    ASSUME FollowInv, SidecarsType', Begin
    PROVE  FollowInv'
  <1>1. UNCHANGED <<arr, media, lost, disk, record, row, files>> /\ media = arr /\ job.pc = "idle"
    BY DEF Begin, env
  <1>2. /\ job'.pc = IF record = NoRecord THEN "search" ELSE "inspect"
        /\ job'.media = media /\ job'.rec = record
    BY DEF Begin, Idle
  <1>3. settled' = IF settled = "no" THEN "begun" ELSE settled
    BY DEF Begin
  <1>4. Undisturbed'
    BY <1>1, <1>2 DEF Undisturbed
  <1>5. MoveNames' /\ Found'
    BY <1>2 DEF MoveNames, Found, Moving
  <1>6. RowWaits'
    BY <1>1, <1>2 DEF FollowInv, RowWaits, SameFile, Moving
  <1>7. RecordHolds <=> RecordHolds'
    BY <1>1 DEF RecordHolds, SameFile
  <1>8. record = NoRecord => RecordHolds
    BY DEF RecordHolds
  <1>9. Progress'
    BY <1>1, <1>2, <1>3, <1>7, <1>8 DEF FollowInv, Progress
  <1> QED  BY <1>1, <1>2, <1>4, <1>5, <1>6, <1>9, OnlyJob

\* What an undisturbed search works on.
LEMMA Working ==
    ASSUME FollowInv, Steady, job.pc \in Looking
    PROVE  media = arr /\ job.media = arr /\ job.rec = record
  BY DEF FollowInv, Undisturbed, Looking

\* Where the installed subtitle is when no move waits for the next start.
LEMMA TrackedAt ==
    ASSUME FollowInv, ~lost, media = arr, row = NoRow, NEW n \in Paths, Managed(n)
    PROVE  /\ record.file # 0 /\ disk[n] = [ino |-> record.sub, own |-> FALSE] /\ disk[n] # NoFile
           /\ n \in Looks(record, arr)
           /\ \A o \in Paths : disk[o].ino = record.sub => o = n
  <1>1. record.file # 0 /\ record.sub = disk[n].ino /\ n \in Looks(record, arr)
    BY NotRebased DEF FollowInv, Tracked, RowNames
  <1>2. disk[n] = [ino |-> disk[n].ino, own |-> disk[n].own] /\ disk[n].own \in BOOLEAN
    BY FileFields DEF FollowInv, SidecarsType
  <1>3. disk[n].own = FALSE /\ disk[n] # NoFile
    BY <1>2, Zenon DEF Managed, Unedited
  <1>4. \A o \in Paths : disk[o].ino = record.sub => o = n
    BY <1>1 DEF FollowInv, Distinct, Managed
  <1> QED  BY <1>1, <1>2, <1>3, <1>4

\* The file at a name where it is looked for matches.
LEMMA MatchesThere ==
    ASSUME FollowInv, ~lost, media = arr, row = NoRow, NEW n \in Paths, Managed(n)
    PROVE  Sidecar(n, record) = "matches"
  BY TrackedAt DEF Sidecar

\* A sidecar that matches at one name is at no other.
LEMMA MatchesOnce ==
    ASSUME FollowInv, ~lost, media = arr, row = NoRow, NEW n \in Paths, Managed(n),
           NEW o \in Paths, Sidecar(o, record) = "matches"
    PROVE  n = o
  <1>1. disk[o] = [ino |-> record.sub, own |-> FALSE]
    BY Matching
  <1>2. disk[o].ino = record.sub
    BY <1>1
  <1> QED  BY <1>2, TrackedAt

LEMMA FollowReattach ==
    ASSUME FollowInv, SidecarsType', Reattach
    PROVE  FollowInv'
  <1> DEFINE to == ReattachTo(job.rec, job.media)
             new(name) == [job.rec EXCEPT !.path = name, !.file = job.media.file]
  <1>1. UNCHANGED <<arr, media, lost, disk, row, files>> /\ job.pc = "inspect"
    BY DEF Reattach, env
  <1>2. Steady => media = arr /\ job.media = arr /\ job.rec = record
    BY <1>1, Working DEF Looking
  <1>3. ~lost /\ Identical(job.rec, job.media) => row = NoRow
    BY <1>1, <1>2 DEF FollowInv, RowWaits, Moving, SameFile, Identical, Steady
  <1>4. ASSUME NEW pc \in {"decide", "drop"}, GoTo(pc), UNCHANGED <<record, settled>>,
               pc = "drop" => IdenticalGone(job.rec, job.media)
        PROVE  FollowInv'
    <2>1. job'.pc = pc /\ job'.media = job.media /\ job'.rec = job.rec
      BY <1>4 DEF GoTo, FollowInv, SidecarsType, JobOK, JobType
    <2>2. Undisturbed'
      BY <1>1, <1>2, <1>4, <2>1 DEF Undisturbed, Steady
    <2>3. MoveNames'
      BY <1>4, <2>1 DEF MoveNames, Moving
    <2>4. Found'
      <3>1. SUFFICES ASSUME ~lost, pc = "drop", NEW n \in Paths, Managed(n)
                     PROVE  FALSE
        BY <1>1, <1>4, <2>1 DEF Found, Managed, Unedited
      <3>2. /\ media = arr /\ job.media = arr /\ job.rec = record /\ row = NoRow
            /\ record.mediaPath = arr.path /\ Sidecar(record.path, record) = "missing"
            /\ ~SameFile(record, arr)
        BY <1>2, <1>3, <1>4, <3>1 DEF IdenticalGone, Identical, Steady, SameFile
      <3>3. n = record.path
        BY <3>1, <3>2, TrackedAt DEF Looks, Rebased
      <3> QED  BY <3>1, <3>2, <3>3, MatchesThere
    <2>5. RowWaits'
      BY <1>1, <1>3, <1>4, <2>1 DEF FollowInv, RowWaits, SameFile, Moving, IdenticalGone
    <2>6. Progress'
      BY <1>1, <1>4, <2>1 DEF FollowInv, Progress, RecordHolds, SameFile
    <2> QED  BY <1>1, <1>4, <2>1, <2>2, <2>3, <2>4, <2>5, <2>6, OnlyJob
  <1>5. CASE Fails /\ UNCHANGED record
    BY <1>1, <1>5, FailsEnds DEF Moving
  <1>6. ASSUME NEW name \in to, record = job.rec, record' = new(name), UNCHANGED settled,
               job' = [job EXCEPT !.pc = "decide", !.rec = new(name)]
        PROVE  FollowInv'
    <2>1. /\ Identical(job.rec, job.media)
          /\ job.rec.mediaPath = job.media.path => name = job.rec.path
          /\ job.rec.mediaPath # job.media.path =>
                name = job.media.path /\ Sidecar(name, job.rec) = "matches"
      BY <1>6 DEF ReattachTo
    <2>2. /\ record'.path = name /\ record'.file = job.media.file /\ record'.sub = record.sub
          /\ record'.mediaPath = record.mediaPath /\ record'.size = record.size
      BY <1>6 DEF FollowInv, SidecarsType, RecordOK, RecordType
    <2>3. job'.pc = "decide" /\ job'.media = job.media /\ job'.rec = record'
      BY <1>6 DEF FollowInv, SidecarsType, JobOK, JobType
    <2>4. Undisturbed'
      BY <1>1, <1>2, <1>6, <2>3 DEF Undisturbed, Steady
    <2>5. MoveNames' /\ Found'
      BY <2>3 DEF MoveNames, Found, Moving
    <2>6. RowWaits'
      BY <1>1, <1>3, <2>1 DEF RowWaits
    <2>7. RecordKnows' /\ Numbered'
      BY <1>1, <1>6, <2>1, <2>2 DEF FollowInv, RecordKnows, Numbered, Identical
    <2>8. Distinct'
      BY <1>1, <2>3 DEF FollowInv, Distinct, Unedited
    <2>9. settled # "yes"
      <3>1. settled = "yes" => RecordHolds /\ Steady
        BY DEF FollowInv, Progress, Steady
      <3>2. record # NoRecord
        BY <1>6, <2>1 DEF Identical, NoRecord
      <3> QED  BY <1>2, <1>6, <2>1, <3>1, <3>2 DEF RecordHolds, Identical, SameFile
    <2>10. Progress'
      BY <1>1, <1>6, <2>3, <2>9 DEF FollowInv, Progress
    <2>11. Tracked'
      <3>1. SUFFICES ASSUME ~lost, NEW n \in Paths, Managed(n)
                     PROVE  /\ record'.file # 0 /\ record'.sub = disk[n].ino
                            /\ n \in Looks(RebaseInstallationPaths(record), arr)'
        BY <1>1 DEF Tracked, Managed, Unedited
      <3>2. media = arr /\ job.media = arr /\ job.rec = record /\ row = NoRow
        BY <1>2, <1>3, <2>1, <3>1 DEF Steady
      <3>3. /\ record.file # 0 /\ disk[n] = [ino |-> record.sub, own |-> FALSE]
            /\ n \in Looks(record, arr)
        BY <3>1, <3>2, TrackedAt
      <3>4. ~SameFile(record, arr) /\ arr.file # 0
        <4>1. arr.file # record.file
          BY <2>1, <3>2 DEF Identical
        <4>2. arr.file # 0
          BY DEF FollowInv, SidecarsType, WorldOK
        <4> QED  BY <4>1, <4>2 DEF SameFile
      <3>5. n = name
        <4>1. CASE record.mediaPath = arr.path
          BY <2>1, <3>2, <3>3, <3>4, <4>1 DEF Looks, Rebased
        <4>2. CASE record.mediaPath # arr.path
          <5>1. name \in Paths
            BY <2>1, <3>2, <4>2 DEF FollowInv, SidecarsType, WorldOK
          <5> QED  BY <2>1, <3>1, <3>2, <4>2, <5>1, MatchesOnce
        <4> QED  BY <4>1, <4>2
      <3>6. (RebaseInstallationPaths(record))' = record'
        BY <1>1, <3>2 DEF RebaseInstallationPaths
      <3>7. n \in Looks(RebaseInstallationPaths(record), arr)'
        BY <2>2, <3>5, <3>6 DEF Looks
      <3> QED  BY <2>2, <3>2, <3>3, <3>4, <3>7
    <2> QED  BY <1>6, <2>3, <2>4, <2>5, <2>6, <2>7, <2>8, <2>10, <2>11 DEF FollowInv
  <1> QED  BY <1>4, <1>5, <1>6 DEF Reattach

\* What the switch of ReconcileInstallation decides, for a search that is not
\* disturbed.
LEMMA VerdictKeeps ==
    ASSUME FollowInv, NoPath \notin Paths, Verdict(record, arr).do = "keep"
    PROVE  RecordHolds
  <1>1. CASE SameFile(record, arr) /\ record.mediaPath \notin {NoPath, arr.path}
    <2>1. FollowRename(record, arr).do = "keep"
      BY <1>1 DEF Verdict
    <2>2. \A s, t, u, w : Do(s, t, u).do = s
      BY DEF Do
    <2> QED  BY <2>1, <2>2 DEF FollowRename
  <1>2. CASE SameFile(record, arr) /\ record.mediaPath \in {NoPath, arr.path}
    <2>1. record.mediaPath = arr.path
      BY <1>2 DEF FollowInv, RecordKnows, SameFile
    <2>2. /\ Sidecar(record.path, record) # "missing"
          /\ Sidecar(record.path, record) = "changed" => record.path = arr.path
      BY <1>2 DEF Verdict, Do
    <2>3. disk[record.path] # NoFile
      BY <2>2 DEF Sidecar
    <2>4. disk[record.path].own => record.path = arr.path
      BY <2>2, <2>3 DEF Sidecar
    <2> QED  BY <1>2, <2>1, <2>3, <2>4 DEF RecordHolds, SameFile
  <1>3. CASE ~SameFile(record, arr)
    <2>1. SettleReplaced(record, arr).do = "keep"
      BY <1>3 DEF Verdict
    <2>2. record.file = 0
      BY <2>1 DEF SettleReplaced, Do
    <2>3. Candidates(record, arr) = <<record.path, record.path>>
      BY <2>2 DEF Candidates
    <2>4. Sidecar(record.path, record) = "matches" /\ record.path = arr.path
      BY <2>1, <2>3 DEF SettleReplaced, Do
    <2>5. disk[record.path] # NoFile
      BY <2>4, Matching
    <2> QED  BY <2>2, <2>4, <2>5 DEF RecordHolds
  <1> QED  BY <1>1, <1>2, <1>3

\* A record that holds is kept, or dropped for a sidecar the owner made of it.
LEMMA VerdictOnSettled ==
    ASSUME RecordHolds, record # NoRecord
    PROVE  Verdict(record, arr).do \in {"keep", "drop"}
  <1>1. CASE record.file = 0
    <2>1. Candidates(record, arr) = <<record.path, record.path>> /\ record.path = arr.path
      BY <1>1 DEF Candidates, RecordHolds
    <2>2. Verdict(record, arr) = SettleReplaced(record, arr)
      BY <1>1 DEF Verdict, SameFile
    <2> QED  BY <1>1, <2>1, <2>2 DEF SettleReplaced, Do
  <1>2. CASE record.file # 0
    <2>1. SameFile(record, arr) /\ record.mediaPath \in {NoPath, arr.path}
      BY <1>2 DEF RecordHolds
    <2> QED  BY <2>1 DEF Verdict, Do
  <1> QED  BY <1>1, <1>2

\* The arms of followRename.
LEMMA RenameArms ==
    ASSUME NEW rec, NEW m
    PROVE  LET old == Rebased(rec.path, m.path, rec.mediaPath)
               v == FollowRename(rec, m)
               there == old # rec.path /\ Sidecar(old, rec) = "matches"
           IN  /\ v.do = "rebase" =>
                    /\ v.to = rec.path
                    /\ \/ Sidecar(rec.path, rec) = "matches"
                       \/ Sidecar(rec.path, rec) = "changed" /\ ~there /\ rec.path = m.path
               /\ v.do = "remove" => v.to = old /\ there /\ Sidecar(rec.path, rec) # "matches"
               /\ v.do = "move" => v.from = old /\ v.to = rec.path /\ there /\ Sidecar(rec.path, rec) # "matches"
               /\ v.do = "drop" => ~there /\ Sidecar(rec.path, rec) # "matches"
               /\ v.do \in {"rebase", "remove", "move", "drop"}
  <1> DEFINE old == Rebased(rec.path, m.path, rec.mediaPath)
             v == FollowRename(rec, m)
             state == Sidecar(rec.path, rec)
             oldState == IF old = rec.path THEN "missing" ELSE Sidecar(old, rec)
             there == old # rec.path /\ Sidecar(old, rec) = "matches"
  <1>0. SUFFICES
           /\ v.do = "rebase" =>
                v.to = rec.path /\ (state = "matches" \/ (state = "changed" /\ ~there /\ rec.path = m.path))
           /\ v.do = "remove" => v.to = old /\ there /\ state # "matches"
           /\ v.do = "move" => v.from = old /\ v.to = rec.path /\ there /\ state # "matches"
           /\ v.do = "drop" => ~there /\ state # "matches"
           /\ v.do \in {"rebase", "remove", "move", "drop"}
    OBVIOUS
  <1>1. state \in {"matches", "changed", "missing"}
    BY DEF Sidecar
  <1>2. there <=> oldState = "matches"
    OBVIOUS
  <1>3. CASE state = "matches"
    <2>1. v = Do("rebase", old, rec.path)
      BY <1>3 DEF FollowRename
    <2> HIDE DEF v, old, state, oldState, there
    <2> QED  BY <1>3, <2>1 DEF Do
  <1>4. CASE state = "changed" /\ oldState # "matches" /\ rec.path = m.path
    <2>1. v = Do("rebase", rec.path, rec.path)
      BY <1>4 DEF FollowRename
    <2> HIDE DEF v, old, state, oldState, there
    <2> QED  BY <1>2, <1>4, <2>1 DEF Do
  <1>5. CASE state = "changed" /\ oldState = "matches"
    <2>1. v = Do("remove", old, old)
      BY <1>5 DEF FollowRename
    <2> HIDE DEF v, old, state, oldState, there
    <2> QED  BY <1>2, <1>5, <2>1 DEF Do
  <1>6. CASE state = "missing" /\ oldState = "matches"
    <2>1. v = Do("move", old, rec.path)
      BY <1>6 DEF FollowRename
    <2> HIDE DEF v, old, state, oldState, there
    <2> QED  BY <1>2, <1>6, <2>1 DEF Do
  <1>7. CASE state # "matches" /\ oldState # "matches" /\ ~(state = "changed" /\ rec.path = m.path)
    <2>1. v = Do("drop", rec.path, rec.path)
      BY <1>7 DEF FollowRename
    <2> HIDE DEF v, old, state, oldState, there
    <2> QED  BY <1>2, <1>7, <2>1 DEF Do
  <1> QED  BY <1>1, <1>3, <1>4, <1>5, <1>6, <1>7

\* The arms of settleReplaced, of a record that knows its media file.
LEMMA ReplacedArms ==
    ASSUME NEW rec, NEW m, rec.file # 0, rec.mediaPath # NoPath
    PROVE  LET other == Rebased(rec.path, rec.mediaPath, m.path)
               v == SettleReplaced(rec, m)
           IN  /\ v.do = "drop" => Sidecar(rec.path, rec) # "matches" /\ Sidecar(other, rec) # "matches"
               /\ v.do # "drop" => v.do \in {"remove", "defer"} /\ v.to \in {rec.path, other} /\ Sidecar(v.to, rec) = "matches"
  <1> DEFINE other == Rebased(rec.path, rec.mediaPath, m.path)
  <1>1. Candidates(rec, m)[1] = rec.path /\ Candidates(rec, m)[2] = other
    BY DEF Candidates
  <1> HIDE DEF other
  <1> QED  BY <1>1 DEF SettleReplaced, Do, other

\* A search that removes or renames the record's sidecar has found the only
\* one, and one that drops the record has found none.
LEMMA VerdictFinds ==
    ASSUME FollowInv, NoPath \notin Paths, ~lost, media = arr, row = NoRow, record # NoRecord
    PROVE  LET v == Verdict(record, arr)
           IN  /\ v.do = "drop" => \A n \in Paths : ~Managed(n)
               /\ v.do \in {"remove", "rebase"} => \A n \in Paths : Managed(n) => n = v.to
  <1> DEFINE v == Verdict(record, arr)
             old == Rebased(record.path, arr.path, record.mediaPath)
             other == Rebased(record.path, record.mediaPath, arr.path)
  <1>0. SUFFICES ASSUME NEW n \in Paths, Managed(n)
                 PROVE  v.do # "drop" /\ (v.do \in {"remove", "rebase"} => n = v.to)
    OBVIOUS
  <1>1. record.file # 0 /\ n \in Looks(record, arr) /\ Sidecar(n, record) = "matches"
    BY <1>0, TrackedAt, MatchesThere
  <1>2. record.mediaPath # NoPath
    BY <1>1 DEF FollowInv, RecordKnows
  <1>3. CASE SameFile(record, arr) /\ record.mediaPath # arr.path
    <2>1. v = FollowRename(record, arr)
      BY <1>2, <1>3 DEF Verdict
    <2>2. n \in {record.path, old}
      BY <1>1, <1>3 DEF Looks
    <2>3. v.do # "drop"
      BY <1>1, <2>1, <2>2, RenameArms
    <2>4. CASE v.do = "rebase"
      BY <1>1, <2>1, <2>2, <2>4, RenameArms, MatchesOnce, <1>0 DEF FollowInv, SidecarsType, RecordOK
    <2>5. CASE v.do = "remove"
      BY <1>1, <2>1, <2>2, <2>5, RenameArms
    <2> QED  BY <2>3, <2>4, <2>5
  <1>4. CASE SameFile(record, arr) /\ record.mediaPath = arr.path
    <2>1. n = record.path
      BY <1>1, <1>4 DEF Looks, Rebased
    <2>2. v = Do("keep", record.path, record.path)
      BY <1>1, <1>4, <2>1 DEF Verdict
    <2> QED  BY <2>2 DEF Do
  <1>5. CASE ~SameFile(record, arr)
    <2>1. v = SettleReplaced(record, arr)
      BY <1>5 DEF Verdict
    <2>2. n \in {record.path, other}
      BY <1>1, <1>5 DEF Looks
    <2>3. v.do # "drop"
      BY <1>1, <1>2, <2>1, <2>2, ReplacedArms
    <2>4. v.to \in {record.path, other} /\ Sidecar(v.to, record) = "matches"
      BY <1>1, <1>2, <2>1, <2>3, ReplacedArms
    <2>5. v.to \in Paths
      <3>1. record.path \in Paths /\ arr.path \in Paths
        BY DEF FollowInv, SidecarsType, RecordOK, WorldOK
      <3> QED  BY <2>4, <3>1 DEF Rebased
    <2>6. n = v.to
      BY <1>0, <2>4, <2>5, MatchesOnce
    <2> QED  BY <2>3, <2>6
  <1> QED  BY <1>3, <1>4, <1>5

LEMMA FollowDecide ==
    ASSUME FollowInv, NoPath \notin Paths, SidecarsType', Decide
    PROVE  FollowInv'
  <1> DEFINE v == Verdict(job.rec, job.media)
             pc == CASE v.do = "keep" -> "search"
                     [] v.do = "remove" /\ v.to # job.rec.path -> "aim"
                     [] OTHER -> v.do
  <1>1. UNCHANGED <<arr, media, lost, disk, record, row, files>> /\ job.pc = "decide"
    BY DEF Decide, env
  <1>2. Steady => media = arr /\ job.media = arr /\ job.rec = record
    BY <1>1, Working DEF Looking
  <1>3. CASE v.do = "defer"
    BY <1>1, <1>3, FailsEnds DEF Decide, Moving
  <1>4. CASE v.do # "defer"
    <2>0. /\ v.do \in {"rebase", "remove", "move", "drop", "keep"}
          /\ job.rec.path \in Paths /\ job.rec \in RecordType /\ job.media \in MediaType /\ job.media.path \in Paths
      <3>1. job.rec.path \in Paths /\ job.rec \in RecordType /\ job.media \in MediaType /\ job.media.path \in Paths
        BY <1>1 DEF FollowInv, SidecarsType, JobOK, JobType, Named
      <3> QED  BY <1>4, <3>1, VerdictNames
    <2>1. /\ pc \in {"search", "aim", "rebase", "remove", "move", "drop"}
          /\ pc = "search" <=> v.do = "keep"
          /\ pc \in {"aim", "remove"} => v.do = "remove"
          /\ pc = "rebase" <=> v.do = "rebase"
          /\ pc = "move" <=> v.do = "move"
          /\ pc = "drop" <=> v.do = "drop"
      BY <2>0
    <2>a. job' = [job EXCEPT !.pc = pc, !.from = v.from, !.to = v.to] /\ UNCHANGED settled
      BY <1>4 DEF Decide
    <2> HIDE DEF v, pc
    <2>2. /\ job'.pc = pc /\ job'.media = job.media /\ job'.rec = job.rec
          /\ job'.from = v.from /\ job'.to = v.to
      BY <2>a DEF FollowInv, SidecarsType, JobOK, JobType
    <2>3. Steady => v = Verdict(record, arr) /\ record # NoRecord
      BY <1>2, <2>0 DEF v, NoRecord
    <2>4. Undisturbed'
      BY <1>1, <1>2, <2>a, <2>1, <2>2 DEF Undisturbed, Steady, Looking
    <2>5. ASSUME ~lost, row # NoRow
          PROVE  v.do = "keep"
      <3>1. /\ SameFile(record, arr) /\ record.path = arr.path /\ record.mediaPath = arr.path
            /\ disk[arr.path] = [ino |-> record.sub, own |-> FALSE]
        BY <1>1, <2>5 DEF FollowInv, RowWaits, Moving
      <3>2. disk[arr.path] # NoFile
        BY <1>1, <2>5 DEF FollowInv, RowWaits, Moving
      <3>3. Sidecar(record.path, record) = "matches"
        BY <3>1, <3>2 DEF Sidecar
      <3>4. Verdict(record, arr) = Do("keep", record.path, record.path)
        BY <3>1, <3>3 DEF Verdict
      <3> QED  BY <2>3, <2>5, <3>4 DEF Steady, Do
    <2>6. RowWaits'
      BY <1>1, <2>1, <2>2, <2>5 DEF FollowInv, RowWaits, SameFile, Moving
    <2>7. ASSUME Steady, pc \in {"rebase", "move"}
          PROVE  SameFile(record, arr) /\ record.mediaPath # arr.path /\ v = FollowRename(record, arr)
      <3>1. v.do \in {"rebase", "move"} /\ v = Verdict(record, arr)
        BY <2>1, <2>3, <2>7
      <3>2. SameFile(record, arr)
        <4>1. SUFFICES ASSUME ~SameFile(record, arr) PROVE FALSE
          OBVIOUS
        <4>2. v = SettleReplaced(record, arr)
          BY <3>1, <4>1 DEF Verdict
        <4> QED  BY <3>1, <4>2, SettleReplacedNames, <1>2, <2>0, <2>7
      <3>3. record.mediaPath \notin {NoPath, arr.path}
        <4>1. SUFFICES ASSUME record.mediaPath \in {NoPath, arr.path} PROVE FALSE
          OBVIOUS
        <4>2. v.do \in {"drop", "keep"}
          BY <3>1, <3>2, <4>1 DEF Verdict, Do
        <4> QED  BY <3>1, <4>2
      <3> QED  BY <3>1, <3>2, <3>3 DEF Verdict
    <2>8. MoveNames'
      <3>1. SUFFICES ASSUME ~lost, pc = "move"
                     PROVE  /\ record.path = arr.path /\ v.to = arr.path
                            /\ v.from = record.mediaPath /\ v.from # v.to
        BY <1>1, <2>1, <2>2 DEF MoveNames, Moving
      <3>2. /\ SameFile(record, arr) /\ record.mediaPath # arr.path /\ v = FollowRename(record, arr)
            /\ v.do = "move"
        BY <2>1, <2>7, <3>1 DEF Steady
      <3>3. /\ v.from = Rebased(record.path, arr.path, record.mediaPath) /\ v.to = record.path
            /\ Rebased(record.path, arr.path, record.mediaPath) # record.path
        BY <3>2, RenameArms
      <3> QED  BY <3>3 DEF Rebased
    <2>9. Found'
      <3>1. CASE lost
        BY <1>1, <3>1 DEF Found
      <3>2. CASE ~lost /\ pc \in {"search", "move"}
        BY <2>2, <3>2 DEF Found
      <3>3. CASE ~lost /\ pc \notin {"search", "move"}
        <4>1. row = NoRow /\ media = arr /\ v = Verdict(record, arr) /\ record # NoRecord
          BY <1>2, <2>1, <2>3, <2>5, <3>3 DEF Steady
        <4>2. /\ v.do = "drop" => \A n \in Paths : ~Managed(n)
              /\ v.do \in {"remove", "rebase"} => \A n \in Paths : Managed(n) => n = v.to
          BY <3>3, <4>1, VerdictFinds
        <4> QED  BY <1>1, <2>1, <2>2, <3>3, <4>2 DEF Found, Managed, Unedited
      <3> QED  BY <3>1, <3>2, <3>3
    <2>10. Progress'
      <3>0. RecordHolds <=> RecordHolds'
        BY <1>1 DEF RecordHolds, SameFile
      <3>1. settled = "yes" => pc \in {"search", "drop"}
        <4>1. settled = "yes" => RecordHolds
          BY DEF FollowInv, Progress
        <4> QED  BY <2>1, <2>3, <4>1, VerdictOnSettled DEF Steady
      <3>2. settled = "begun" /\ pc = "search" => RecordHolds
        BY <2>1, <2>3, VerdictKeeps DEF Steady
      <3>3. Steady /\ pc = "rebase" => disk[v.to] # NoFile /\ (disk[v.to].own => v.to = arr.path)
        <4>1. SUFFICES ASSUME Steady, pc = "rebase"
                       PROVE  disk[v.to] # NoFile /\ (disk[v.to].own => v.to = arr.path)
          OBVIOUS
        <4>2. v = FollowRename(record, arr) /\ v.do = "rebase"
          BY <2>1, <2>7, <4>1
        <4>3. /\ v.to = record.path
              /\ Sidecar(v.to, record) # "matches" => Sidecar(v.to, record) = "changed" /\ v.to = arr.path
          BY <4>2, RenameArms
        <4>4. CASE Sidecar(v.to, record) = "matches"
          <5>1. disk[v.to] = [ino |-> record.sub, own |-> FALSE] /\ disk[v.to] # NoFile
            BY <4>4, Matching
          <5>2. disk[v.to].own = FALSE
            BY <5>1
          <5> QED  BY <5>1, <5>2
        <4>5. CASE Sidecar(v.to, record) = "changed" /\ v.to = arr.path
          BY <4>5 DEF Sidecar
        <4> QED  BY <4>3, <4>4, <4>5
      <3>4. Steady /\ pc \in {"rebase", "move"} => SameFile(record, arr)
        BY <2>7
      <3> QED  BY <1>1, <2>a, <2>1, <2>2, <3>0, <3>1, <3>2, <3>3, <3>4
               DEF FollowInv, Progress, Steady, SameFile
    <2> QED  BY <1>1, <2>1, <2>2, <2>4, <2>6, <2>8, <2>9, <2>10, OnlyJob
  <1> QED  BY <1>3, <1>4

LEMMA FollowDrop ==
    ASSUME FollowInv, SidecarsType', Drop
    PROVE  FollowInv'
  <1>1. UNCHANGED <<arr, media, lost, disk, row, files>> /\ job.pc = "drop"
    BY DEF Drop, env
  <1>2. CASE record # job.rec
    BY <1>1, <1>2, FailsEnds DEF Drop, Moving
  <1>3. CASE record = job.rec
    <2>1. record' = NoRecord /\ UNCHANGED settled /\ job'.pc = "search" /\ job'.media = job.media
      BY <1>3 DEF Drop, GoTo, FollowInv, SidecarsType, JobOK, JobType
    <2>2. record'.file = 0
      BY <2>1 DEF NoRecord
    <2>3. RecordHolds'
      BY <2>1 DEF RecordHolds
    <2>4. Undisturbed'
      BY <1>1, <2>1 DEF FollowInv, Undisturbed, Steady, Looking
    <2>5. RecordKnows' /\ Numbered'
      BY <1>1, <2>2 DEF FollowInv, RecordKnows, Numbered
    <2>6. MoveNames' /\ Found'
      BY <2>1 DEF MoveNames, Found, Moving
    <2>7. RowWaits'
      BY <1>1 DEF FollowInv, RowWaits, Moving
    <2>8. Progress'
      BY <1>1, <2>1, <2>3 DEF FollowInv, Progress
    <2>9. Distinct'
      BY <1>1, <2>1 DEF FollowInv, Distinct, Unedited
    <2>10. Tracked'
      BY <1>1 DEF FollowInv, Found, Tracked, Managed, Unedited
    <2> QED  BY <2>1, <2>4, <2>5, <2>6, <2>7, <2>8, <2>9, <2>10 DEF FollowInv
  <1> QED  BY <1>2, <1>3

LEMMA FollowAim ==
    ASSUME FollowInv, SidecarsType', Aim
    PROVE  FollowInv'
  <1>1. UNCHANGED <<arr, media, lost, disk, row, files>> /\ job.pc = "aim"
    BY DEF Aim, env
  <1>2. CASE record # job.rec
    BY <1>1, <1>2, FailsEnds DEF Aim, Moving
  <1>3. CASE record = job.rec
    <2>1. /\ record'.path = job.to /\ record'.sub = record.sub /\ record'.mediaPath = record.mediaPath
          /\ record'.file = record.file /\ record'.size = record.size
      BY <1>3 DEF Aim, FollowInv, SidecarsType, RecordOK, RecordType
    <2>2. /\ job'.pc = "remove" /\ job'.media = job.media /\ job'.rec = record' /\ job'.to = job.to
          /\ UNCHANGED settled
      BY <1>3 DEF Aim, FollowInv, SidecarsType, JobOK, JobType
    <2>4. Undisturbed'
      BY <1>1, <2>2 DEF FollowInv, Undisturbed, Steady, Looking
    <2>5. RecordKnows' /\ Numbered'
      BY <1>1, <2>1 DEF FollowInv, RecordKnows, Numbered
    <2>6. MoveNames'
      BY <2>2 DEF MoveNames, Moving
    <2>7. RowWaits'
      BY <1>1 DEF FollowInv, RowWaits, Moving
    <2>8. Progress'
      BY <1>1, <2>2 DEF FollowInv, Progress
    <2>9. Distinct'
      BY <1>1, <2>2 DEF FollowInv, Distinct, Unedited
    <2>10. Found'
      BY <1>1, <2>2 DEF FollowInv, Found, Managed, Unedited
    <2>11. Tracked'
      <3>1. SUFFICES ASSUME ~lost, NEW n \in Paths, Managed(n)
                     PROVE  /\ record'.file # 0 /\ record'.sub = disk[n].ino
                            /\ n \in Looks(RebaseInstallationPaths(record), arr)'
        BY <1>1 DEF Tracked, Managed, Unedited
      <3>2. n = job.to /\ media = arr
        BY <1>1, <3>1, Working DEF FollowInv, Found, Steady, Looking
      <3>3. (RebaseInstallationPaths(record))' = record'
        BY <1>1, <3>2 DEF RebaseInstallationPaths
      <3>4. n \in Looks(RebaseInstallationPaths(record), arr)'
        BY <2>1, <3>2, <3>3 DEF Looks
      <3> QED  BY <2>1, <3>1, <3>4 DEF FollowInv, Tracked
    <2> QED  BY <2>2, <2>4, <2>5, <2>6, <2>7, <2>8, <2>9, <2>10, <2>11 DEF FollowInv
  <1> QED  BY <1>2, <1>3

\* Files that are only removed, outside a move, stay numbered and distinct.
LEMMA FilesRemoved ==
    ASSUME FollowInv, UNCHANGED <<lost, row, files>>,
           \A n \in Paths : disk'[n] \in {disk[n], NoFile},
           job'.pc # "link"
    PROVE  Numbered' /\ Distinct' /\ \A n \in Paths : Managed(n)' => Managed(n) /\ disk'[n] = disk[n]
  <1>1. Numbered'
    BY DEF FollowInv, Numbered
  <1>2. Distinct'
    <2>1. SUFFICES ASSUME ~lost, NEW m \in Paths, NEW n \in Paths, disk'[m] # NoFile, ~disk'[m].own,
                          disk'[m].ino = disk'[n].ino, m # n
                   PROVE  row # NoRow /\ {m, n} = {row.from, row.to}
      BY DEF Distinct, Unedited
    <2>2. disk'[m] = disk[m] /\ Unedited(m) /\ disk[m].ino \in 1 .. files
      BY <2>1 DEF Unedited, FollowInv, Numbered
    <2>3. disk'[n] # NoFile
      <3>1. disk'[n].ino # 0
        BY <2>1, <2>2 DEF FollowInv, SidecarsType, WorldOK
      <3> QED  BY <3>1 DEF NoFile
    <2>4. disk[n].ino = disk[m].ino
      BY <2>1, <2>2, <2>3
    <2> QED  BY <2>1, <2>2, <2>4 DEF FollowInv, Distinct
  <1>3. \A n \in Paths : Managed(n)' => Managed(n) /\ disk'[n] = disk[n]
    BY DEF Managed, Unedited
  <1> QED  BY <1>1, <1>2, <1>3

LEMMA FollowRemove ==
    ASSUME FollowInv, SidecarsType', RemoveManaged
    PROVE  FollowInv'
  <1>1. UNCHANGED <<arr, media, lost, row, files>> /\ job.pc = "remove"
    BY DEF RemoveManaged, env
  <1>2. Steady => media = arr /\ job.media = arr /\ job.rec = record
    BY <1>1, Working DEF Looking
  <1>3. CASE Sidecar(job.to, job.rec) = "matches" /\ record = job.rec
    <2>1. record' = NoRecord /\ UNCHANGED settled /\ job'.pc = "search" /\ job'.media = job.media
      BY <1>3 DEF RemoveManaged, GoTo, FollowInv, SidecarsType, JobOK, JobType
    <2>a. disk' = [disk EXCEPT ![job.to] = NoFile] /\ job.to \in Paths
      BY <1>1, <1>3 DEF RemoveManaged, FollowInv, SidecarsType, JobOK, Named, Aimed
    <2>b. (\A n \in Paths : disk'[n] = IF n = job.to THEN NoFile ELSE disk[n])
      BY <2>a DEF FollowInv, SidecarsType, DiskType
    <2>2. record'.file = 0
      BY <2>1 DEF NoRecord
    <2>3. RecordHolds'
      BY <2>1 DEF RecordHolds
    <2>4. Undisturbed'
      BY <1>1, <2>1 DEF FollowInv, Undisturbed, Steady, Looking
    <2>5. RecordKnows'
      BY <2>2 DEF RecordKnows
    <2>6. MoveNames' /\ Found'
      BY <2>1 DEF MoveNames, Found, Moving
    <2>7. RowWaits'
      BY <1>1 DEF FollowInv, RowWaits, Moving
    <2>8. Progress'
      BY <1>1, <2>1, <2>3 DEF FollowInv, Progress
    <2>9. Numbered' /\ Distinct' /\ \A n \in Paths : Managed(n)' => Managed(n) /\ disk'[n] = disk[n]
      BY <1>1, <2>1, <2>b, FilesRemoved
    <2>10. Tracked'
      <3>1. SUFFICES ASSUME ~lost, NEW n \in Paths, Managed(n)' PROVE FALSE
        BY <1>1 DEF Tracked
      <3>2. Managed(n) /\ disk'[n] = disk[n]
        BY <2>9, <3>1
      <3>3. n = job.to /\ disk[n] # NoFile
        BY <1>1, <3>1, <3>2 DEF FollowInv, Found, Managed, Unedited
      <3> QED  BY <2>b, <3>2, <3>3
    <2> QED  BY <2>1, <2>4, <2>5, <2>6, <2>7, <2>8, <2>9, <2>10 DEF FollowInv
  <1>4. CASE Sidecar(job.to, job.rec) # "matches"
    <2>1. /\ UNCHANGED <<disk, record, settled>> /\ job'.pc = "drop" /\ job'.media = job.media
          /\ job'.rec = job.rec
      BY <1>4 DEF RemoveManaged, GoTo, FollowInv, SidecarsType, JobOK, JobType
    <2>2. Undisturbed'
      BY <1>1, <2>1 DEF FollowInv, Undisturbed, Steady, Looking
    <2>3. MoveNames'
      BY <2>1 DEF MoveNames, Moving
    <2>4. RowWaits'
      BY <1>1 DEF FollowInv, RowWaits, Moving
    <2>5. Progress'
      BY <1>1, <2>1 DEF FollowInv, Progress
    <2>6. Found'
      <3>1. SUFFICES ASSUME ~lost, NEW n \in Paths, Managed(n) PROVE FALSE
        BY <1>1, <2>1 DEF Found, Managed, Unedited
      <3>2. n = job.to /\ row = NoRow /\ media = arr /\ job.rec = record
        BY <1>1, <1>2, <3>1 DEF FollowInv, Found, Steady, RowWaits, Moving
      <3> QED  BY <1>4, <3>1, <3>2, MatchesThere
    <2> QED  BY <1>1, <2>1, <2>2, <2>3, <2>4, <2>5, <2>6, OnlyJob
  <1>5. CASE Sidecar(job.to, job.rec) = "matches" /\ record # job.rec
    BY <1>1, <1>5, FailsEnds DEF RemoveManaged, Moving
  <1> QED  BY <1>3, <1>4, <1>5

\* removeSameFile leaves everything but the one name.
LEMMA RemovedName ==
    ASSUME DiskType, NEW from, NEW to, disk' = SameFileRemoved(from, to), NEW n \in Paths
    PROVE  /\ disk'[n] \in {disk[n], NoFile} /\ (n # from => disk'[n] = disk[n])
           /\ disk'[to] = disk[to] \/ to \notin Paths
           /\ from \in Paths /\ from # to /\ disk[from] = disk[to] => disk'[from] = NoFile
  BY DEF SameFileRemoved, DiskType

LEMMA FollowRebase ==
    ASSUME FollowInv, SidecarsType', Rebase
    PROVE  FollowInv'
  <1>1. UNCHANGED <<arr, media, lost, row, files>> /\ job.pc = "rebase"
    BY DEF Rebase, env
  <1>2. Steady => media = arr /\ job.media = arr /\ job.rec = record
    BY <1>1, Working DEF Looking
  <1>3. CASE record # job.rec
    BY <1>1, <1>3, FailsEnds DEF Rebase, Moving
  <1>4. CASE record = job.rec
    <2>1. /\ record'.path = job.to /\ record'.sub = record.sub /\ record'.mediaPath = job.media.path
          /\ record'.file = record.file /\ record'.size = record.size
      BY <1>4 DEF Rebase, FollowInv, SidecarsType, RecordOK, RecordType
    <2>2. job'.pc = "search" /\ job'.media = job.media /\ UNCHANGED settled
      BY <1>4 DEF Rebase, GoTo, FollowInv, SidecarsType, JobOK, JobType
    <2>3. disk' = SameFileRemoved(job.from, job.to) /\ job.to \in Paths /\ job.media.path \in Paths
      BY <1>1, <1>4 DEF Rebase, FollowInv, SidecarsType, JobOK, Named, Aimed
    <2>a. /\ \A n \in Paths : disk'[n] \in {disk[n], NoFile}
          /\ disk'[job.to] = disk[job.to]
      BY <2>3, RemovedName DEF FollowInv, SidecarsType
    <2>4. Undisturbed'
      BY <1>1, <2>2 DEF FollowInv, Undisturbed, Steady, Looking
    <2>5. RecordKnows'
      BY <2>1, <2>3 DEF RecordKnows
    <2>6. MoveNames' /\ Found'
      BY <2>2 DEF MoveNames, Found, Moving
    <2>7. RowWaits'
      BY <1>1 DEF FollowInv, RowWaits, Moving
    <2>8. Numbered' /\ Distinct' /\ \A n \in Paths : Managed(n)' => Managed(n) /\ disk'[n] = disk[n]
      BY <1>1, <2>2, <2>a, FilesRemoved
    <2>9. settled = "begun" => RecordHolds'
      <3>1. SUFFICES ASSUME settled = "begun" PROVE RecordHolds'
        OBVIOUS
      <3>2. SameFile(record, arr) /\ job.media = arr /\ disk[job.to] # NoFile /\ (disk[job.to].own => job.to = arr.path)
        BY <1>1, <1>2, <3>1 DEF FollowInv, Progress, Steady
      <3> QED  BY <1>1, <2>1, <2>a, <3>2 DEF RecordHolds, SameFile
    <2>10. Progress'
      BY <1>1, <2>2, <2>9 DEF FollowInv, Progress
    <2>11. Tracked'
      <3>1. SUFFICES ASSUME ~lost, NEW n \in Paths, Managed(n)'
                     PROVE  /\ record'.file # 0 /\ record'.sub = disk'[n].ino
                            /\ n \in Looks(RebaseInstallationPaths(record), arr)'
        BY <1>1 DEF Tracked
      <3>2. Managed(n) /\ disk'[n] = disk[n]
        BY <2>8, <3>1
      <3>3. n = job.to /\ media = arr
        BY <1>1, <1>2, <3>1, <3>2 DEF FollowInv, Found, Steady
      <3>4. (RebaseInstallationPaths(record))' = record'
        BY <1>1, <3>3 DEF RebaseInstallationPaths
      <3>5. n \in Looks(RebaseInstallationPaths(record), arr)'
        BY <2>1, <3>3, <3>4 DEF Looks
      <3> QED  BY <2>1, <3>1, <3>2, <3>5 DEF FollowInv, Tracked
    <2> QED  BY <2>2, <2>4, <2>5, <2>6, <2>7, <2>8, <2>10, <2>11 DEF FollowInv
  <1> QED  BY <1>3, <1>4

LEMMA FollowBeginMove ==
    ASSUME FollowInv, NoPath \notin Paths, SidecarsType', BeginMove
    PROVE  FollowInv'
  <1>1. UNCHANGED <<arr, media, lost, disk, record, files>> /\ job.pc = "move"
    BY DEF BeginMove, env
  <1>2. CASE disk[job.from] = NoFile
    BY <1>1, <1>2, FailsEnds DEF BeginMove, Moving
  <1>3. CASE disk[job.from] # NoFile
    <2>1. /\ row'.from = job.from /\ row'.to = job.to /\ row'.ino = disk[job.from].ino
          /\ UNCHANGED settled
      BY <1>3 DEF BeginMove
    <2>2. /\ job'.pc = "link" /\ job'.media = job.media /\ job'.rec = job.rec
          /\ job'.from = job.from /\ job'.to = job.to
      BY <1>3 DEF BeginMove, GoTo, FollowInv, SidecarsType, JobOK, JobType
    <2>3. row' # NoRow
      BY <1>1, <2>1 DEF NoRow, FollowInv, SidecarsType, JobOK, Named, Aimed
    <2>4. Undisturbed'
      BY <1>1, <2>1, <2>2 DEF FollowInv, Undisturbed, Steady, Looking
    <2>5. RecordKnows' /\ Numbered'
      BY <1>1 DEF FollowInv, RecordKnows, Numbered
    <2>6. MoveNames'
      BY <1>1, <1>3, <2>1, <2>2, <2>3 DEF FollowInv, MoveNames, Moving
    <2>7. RowWaits' /\ Found'
      BY <2>2 DEF RowWaits, Found, Moving
    <2>8. Progress'
      BY <1>1, <2>1, <2>2 DEF FollowInv, Progress, Steady, SameFile
    <2>9. ~lost => row = NoRow
      BY <1>1 DEF FollowInv, RowWaits, Moving
    <2>10. Distinct'
      BY <1>1, <2>9 DEF FollowInv, Distinct, Unedited
    <2>11. Tracked'
      BY <1>1, <2>9 DEF FollowInv, Tracked, Managed, Unedited, Looks, RowNames,
                        RebaseInstallationPaths, SameFile
    <2> QED  BY <2>2, <2>4, <2>5, <2>6, <2>7, <2>8, <2>10, <2>11 DEF FollowInv
  <1> QED  BY <1>2, <1>3

\* The move has no effect: its row goes.
LEMMA FollowNoLink ==
    ASSUME FollowInv, SidecarsType', UNCHANGED <<arr, media, lost, disk, record, files>>,
           job.pc = "link", row' = NoRow, Fails
    PROVE  FollowInv'
  <1>1. job' = Idle /\ job'.pc = "idle"
    BY DEF Fails, Idle
  <1>2. Undisturbed' /\ MoveNames' /\ Found' /\ RowWaits'
    BY <1>1 DEF Undisturbed, MoveNames, Found, Moving, RowWaits
  <1>3. RecordKnows' /\ Numbered'
    BY DEF FollowInv, RecordKnows, Numbered
  <1>4. settled' = "no"
    BY DEF FollowInv, Progress, Fails
  <1>5. Progress'
    BY <1>1, <1>4 DEF Progress
  <1>6. Distinct'
    BY DEF FollowInv, Distinct, Unedited
  <1>7. Tracked'
    <2>1. SUFFICES ASSUME ~lost, NEW n \in Paths, Managed(n)
                   PROVE  /\ record.file # 0 /\ record.sub = disk[n].ino
                          /\ n \in Looks(RebaseInstallationPaths(record), arr)
      BY DEF Tracked, Managed, Unedited, Looks, SameFile, RebaseInstallationPaths
    <2>2. media = arr /\ SameFile(record, arr)
      BY <2>1, Working DEF Steady, Looking, FollowInv, Progress
    <2>3. /\ record.path = arr.path /\ job.from = record.mediaPath
          /\ row.from = job.from /\ row.to = arr.path
      BY <2>1 DEF FollowInv, MoveNames, Moving
    <2>4. RebaseInstallationPaths(record) = record
      BY <2>2, NotRebased
    <2>5. row.from \in Looks(record, arr) /\ row.to \in Looks(record, arr)
      BY <2>2, <2>3 DEF Looks, Rebased
    <2> QED  BY <2>1, <2>4, <2>5 DEF FollowInv, Tracked, RowNames
  <1> QED  BY <1>1, <1>2, <1>3, <1>5, <1>6, <1>7 DEF FollowInv

LEMMA FollowLink ==
    ASSUME FollowInv, SidecarsType', NEW linked \in BOOLEAN, Link(linked)
    PROVE  FollowInv'
  <1>1. UNCHANGED <<arr, media, lost, record, files>> /\ job.pc = "link"
    BY DEF Link, env
  <1>2. CASE disk[job.to] # NoFile
    BY <1>1, <1>2, FollowNoLink DEF Link
  <1>3. CASE disk[job.to] = NoFile
    <2>1. /\ job'.pc = "linked" /\ job'.media = job.media /\ job'.rec = job.rec
          /\ job'.from = job.from /\ job'.to = job.to /\ job'.linked = linked /\ UNCHANGED <<row, settled>>
      BY <1>3 DEF Link, FollowInv, SidecarsType, JobOK, JobType
    <2>2. job.from \in Paths /\ job.to \in Paths /\ disk[job.from] # NoFile
      BY <1>1 DEF Link, FollowInv, SidecarsType, JobOK, Named, Aimed, Moving
    <2>3. \A n \in Paths : disk'[n] = IF n = job.to THEN disk[job.from]
                                      ELSE IF n = job.from /\ ~linked THEN NoFile ELSE disk[n]
      BY <1>3 DEF Link
    <2>4. Undisturbed'
      BY <1>1, <2>1 DEF FollowInv, Undisturbed, Steady, Looking
    <2>5. RecordKnows'
      BY <1>1 DEF FollowInv, RecordKnows
    <2>6. Numbered'
      BY <1>1, <2>2, <2>3 DEF FollowInv, Numbered
    <2>7. MoveNames'
      <3>1. SUFFICES ASSUME ~lost
                     PROVE  /\ record.path = arr.path /\ job.to = arr.path /\ job.from = record.mediaPath
                            /\ row.from = job.from /\ row.to = job.to /\ row # NoRow /\ job.from # job.to
                            /\ disk'[job.to] # NoFile /\ disk'[job.to].ino = row.ino
                            /\ disk'[job.from] = IF linked THEN disk'[job.to] ELSE NoFile
        BY <1>1, <2>1 DEF MoveNames, Moving
      <3>2. /\ record.path = arr.path /\ job.to = arr.path /\ job.from = record.mediaPath
            /\ row.from = job.from /\ row.to = job.to /\ row # NoRow /\ job.from # job.to
            /\ row.ino = disk[job.from].ino
        BY <1>1, <3>1 DEF FollowInv, MoveNames, Moving
      <3>3. disk'[job.to] = disk[job.from] /\ disk'[job.from] = IF linked THEN disk[job.from] ELSE NoFile
        BY <2>2, <2>3, <3>2
      <3> QED  BY <2>2, <3>2, <3>3
    <2>8. RowWaits' /\ Found'
      BY <2>1 DEF RowWaits, Found, Moving
    <2>9. Progress'
      BY <1>1, <2>1 DEF FollowInv, Progress, Steady, SameFile
    <2>10. ASSUME ~lost, NEW n \in Paths, Managed(n)'
           PROVE  \E o \in Paths : Managed(o) /\ disk'[n] = disk[o] /\ n \in {o, job.to}
      <3>1. CASE n = job.to
        <4>1. Managed(job.from) /\ disk'[n] = disk[job.from]
          BY <2>2, <2>3, <2>10, <3>1 DEF Managed, Unedited
        <4> QED  BY <2>2, <3>1, <4>1
      <3>2. CASE n # job.to
        <4>1. Managed(n) /\ disk'[n] = disk[n]
          BY <2>2, <2>3, <2>10, <3>2 DEF Managed, Unedited
        <4> QED  BY <4>1
      <3> QED  BY <3>1, <3>2
    <2>11. Distinct'
      <3>1. SUFFICES ASSUME ~lost, NEW m \in Paths, NEW n \in Paths, disk'[m] # NoFile, ~disk'[m].own,
                            disk'[m].ino = disk'[n].ino, m # n
                     PROVE  {m, n} = {job.from, job.to}
        BY <1>1, <2>1, <2>7 DEF Distinct, Unedited, MoveNames, Moving
      <3>2. \A o, p \in Paths : Unedited(o) /\ disk[o].ino = disk[p].ino => o = p
        BY <1>1, <3>1 DEF FollowInv, Distinct
      <3>3. disk'[n] # NoFile
        <4>1. disk'[m].ino # 0
          BY <3>1, <2>6, <1>1 DEF Numbered, FollowInv, SidecarsType, WorldOK
        <4> QED  BY <3>1, <4>1 DEF NoFile
      <3> DEFINE src(o) == IF o = job.to THEN job.from ELSE o
      <3>4. /\ src(m) \in Paths /\ src(n) \in Paths
            /\ disk'[m] = disk[src(m)] /\ disk'[n] = disk[src(n)]
        BY <2>2, <2>3, <3>1, <3>3
      <3>5. src(m) = src(n)
        BY <3>1, <3>2, <3>4 DEF Unedited
      <3> QED  BY <3>1, <3>5
    <2>12. Tracked'
      <3>1. SUFFICES ASSUME ~lost, NEW n \in Paths, Managed(n)'
                     PROVE  /\ record.file # 0 /\ record.sub = disk'[n].ino
                            /\ n \in Looks(RebaseInstallationPaths(record), arr) \cup RowNames
        BY <1>1, <2>1 DEF Tracked, Looks, SameFile, RebaseInstallationPaths, RowNames
      <3>2. PICK o \in Paths : Managed(o) /\ disk'[n] = disk[o] /\ n \in {o, job.to}
        BY <2>10, <3>1
      <3>3. /\ record.file # 0 /\ record.sub = disk[o].ino
            /\ o \in Looks(RebaseInstallationPaths(record), arr) \cup RowNames
        BY <3>1, <3>2 DEF FollowInv, Tracked
      <3>4. job.to \in RowNames
        BY <1>1, <3>1 DEF FollowInv, MoveNames, Moving, RowNames
      <3> QED  BY <3>2, <3>3, <3>4
    <2> QED  BY <2>1, <2>4, <2>5, <2>6, <2>7, <2>8, <2>9, <2>11, <2>12 DEF FollowInv
  <1> QED  BY <1>2, <1>3

LEMMA FollowUnmovable ==
    ASSUME FollowInv, SidecarsType', Unmovable
    PROVE  FollowInv'
  <1>1. /\ UNCHANGED <<arr, media, disk, record, files, settled>> /\ job.pc = "link" /\ lost' = TRUE
        /\ job'.pc = "drop" /\ job'.media = job.media /\ job'.rec = job.rec
    BY DEF Unmovable, GoTo, FollowInv, SidecarsType, JobOK, JobType
  <1>2. Undisturbed'
    BY <1>1 DEF FollowInv, Undisturbed, Steady, Looking
  <1>3. RecordKnows' /\ Numbered'
    BY <1>1 DEF FollowInv, RecordKnows, Numbered
  <1>4. MoveNames' /\ RowWaits' /\ Found' /\ Distinct' /\ Tracked'
    BY <1>1 DEF MoveNames, RowWaits, Found, Distinct, Tracked
  <1>5. Progress'
    BY <1>1 DEF FollowInv, Progress
  <1> QED  BY <1>1, <1>2, <1>3, <1>4, <1>5 DEF FollowInv

\* What is where after the undo of a move.
LEMMA Undone ==
    ASSUME SidecarsType, disk' = UndoneMove, job.from \in Paths, job.to \in Paths
    PROVE  /\ \A n \in Paths : disk'[n] \in {NoFile, disk[n], disk[job.to]}
           /\ job.from # job.to /\ disk[job.from] = (IF job.linked THEN disk[job.to] ELSE NoFile) =>
                /\ disk'[job.from] = disk[job.to] /\ disk'[job.to] = NoFile
                /\ \A n \in Paths \ {job.from, job.to} : disk'[n] = disk[n]
  <1>1. CASE job.linked
    <2>1. disk' = SameFileRemoved(job.to, job.from)
      BY <1>1 DEF UndoneMove
    <2>2. DiskType
      BY DEF SidecarsType
    <2> QED  BY <1>1, <2>1, <2>2, RemovedName
  <1>2. CASE ~job.linked
    <2>1. disk' = [disk EXCEPT ![job.from] = disk[job.to], ![job.to] = NoFile]
      BY <1>2 DEF UndoneMove
    <2> QED  BY <2>1 DEF SidecarsType, DiskType
  <1> QED  BY <1>1, <1>2

\* The move is undone, or its row waits for the next start.
LEMMA FollowUndoMove ==
    ASSUME FollowInv, SidecarsType', UndoMove, job.pc = "linked", UNCHANGED <<env, files>>
    PROVE  FollowInv'
  <1>1. UNCHANGED <<arr, media, lost, files>> /\ job.pc = "linked"
    BY DEF env
  <1>2. Steady => media = arr /\ job.media = arr /\ job.rec = record
    BY <1>1, Working DEF Looking
  <1>3. job.from \in Paths /\ job.to \in Paths /\ job.media.path \in Paths
    BY <1>1 DEF FollowInv, SidecarsType, JobOK, Named, Aimed, Moving
  <1>4. /\ UNCHANGED record /\ Fails
        /\ IF CanUndo THEN disk' = UndoneMove /\ row' = NoRow ELSE UNCHANGED <<disk, row>>
    BY DEF UndoMove
  <1>5. job' = Idle /\ job'.pc = "idle" /\ settled' = "no"
    BY <1>1, <1>4 DEF Fails, Idle, FollowInv, Progress
  <1>6. Undisturbed' /\ MoveNames' /\ Found'
    BY <1>5 DEF Undisturbed, MoveNames, Found, Moving
  <1>7. RecordKnows' /\ Progress'
    BY <1>4, <1>5, <1>1 DEF FollowInv, RecordKnows, Progress
  <1>8. \A n \in Paths : disk'[n] \in {NoFile, disk[n], disk[job.to]}
    BY <1>3, <1>4, Undone DEF FollowInv
  <1>9. Numbered'
    BY <1>1, <1>3, <1>8 DEF FollowInv, Numbered
  <1>10. ~lost =>
           /\ job.from # job.to /\ row' = NoRow /\ row # NoRow /\ row.from = job.from /\ row.to = job.to
           /\ disk'[job.from] = disk[job.to] /\ disk'[job.to] = NoFile
           /\ \A n \in Paths \ {job.from, job.to} : disk'[n] = disk[n]
    <2>1. SUFFICES ASSUME ~lost
                   PROVE  /\ job.from # job.to /\ row' = NoRow /\ row # NoRow /\ row.from = job.from /\ row.to = job.to
                          /\ disk'[job.from] = disk[job.to] /\ disk'[job.to] = NoFile
                          /\ \A n \in Paths \ {job.from, job.to} : disk'[n] = disk[n]
      OBVIOUS
    <2>2. /\ job.from # job.to /\ row # NoRow /\ row.from = job.from /\ row.to = job.to
          /\ disk[job.to] # NoFile /\ disk[job.from] = IF job.linked THEN disk[job.to] ELSE NoFile
      BY <1>1, <2>1 DEF FollowInv, MoveNames, Moving
    <2>3. CanUndo
      BY <2>2 DEF CanUndo
    <2> QED  BY <1>3, <1>4, <2>2, <2>3, Undone DEF FollowInv
  <1>11. RowWaits'
    BY <1>1, <1>10 DEF RowWaits
  <1>12. Distinct'
    <2>1. SUFFICES ASSUME ~lost, NEW m \in Paths, NEW n \in Paths, disk'[m] # NoFile, ~disk'[m].own,
                          disk'[m].ino = disk'[n].ino, m # n
                   PROVE  FALSE
      BY <1>1 DEF Distinct, Unedited
    <2>2. disk'[n] # NoFile
      <3>1. disk'[m].ino # 0
        BY <2>1, <1>9, <1>1 DEF Numbered, FollowInv, SidecarsType, WorldOK
      <3> QED  BY <2>1, <3>1 DEF NoFile
    <2> DEFINE src(o) == IF o = job.from THEN job.to ELSE o
    <2>3. /\ src(m) \in Paths /\ src(n) \in Paths /\ src(m) # src(n) /\ job.from \notin {src(m), src(n)}
          /\ disk'[m] = disk[src(m)] /\ disk'[n] = disk[src(n)]
      BY <1>3, <1>10, <2>1, <2>2
    <2> HIDE DEF src
    <2>4. {src(m), src(n)} = {row.from, row.to}
      BY <2>1, <2>3 DEF FollowInv, Distinct, Unedited
    <2> QED  BY <1>10, <2>1, <2>3, <2>4
  <1>13. Tracked'
    <2>1. SUFFICES ASSUME ~lost, NEW n \in Paths, Managed(n)'
                   PROVE  /\ record.file # 0 /\ record.sub = disk'[n].ino
                          /\ n \in Looks(RebaseInstallationPaths(record), arr)
      BY <1>1, <1>4 DEF Tracked, Looks, SameFile, RebaseInstallationPaths
    <2>2. RebaseInstallationPaths(record) = record /\ SameFile(record, arr)
      BY <1>1, <1>2, <2>1, NotRebased DEF FollowInv, Progress, Steady
    <2>3. job.from \in Looks(record, arr) /\ job.to \in Looks(record, arr)
      <3>1. record.path = arr.path /\ job.from = record.mediaPath /\ job.to = arr.path
        BY <1>1, <2>1 DEF FollowInv, MoveNames, Moving
      <3> QED  BY <2>2, <3>1 DEF Looks, Rebased
    <2>4. CASE n \in {job.from, job.to}
      <3>1. n = job.from /\ disk'[n] = disk[job.to] /\ Managed(job.to)
        BY <1>10, <2>1, <2>4 DEF Managed, Unedited
      <3>2. record.file # 0 /\ record.sub = disk[job.to].ino
        BY <1>3, <2>1, <3>1 DEF FollowInv, Tracked
      <3> QED  BY <2>2, <2>3, <3>1, <3>2
    <2>5. CASE n \notin {job.from, job.to}
      <3>1. disk'[n] = disk[n] /\ Managed(n)
        BY <1>10, <2>1, <2>5 DEF Managed, Unedited
      <3>2. /\ record.file # 0 /\ record.sub = disk[n].ino
            /\ n \in Looks(RebaseInstallationPaths(record), arr) \cup RowNames
        BY <2>1, <3>1 DEF FollowInv, Tracked
      <3> QED  BY <1>10, <2>1, <2>5, <3>1, <3>2 DEF RowNames
    <2> QED  BY <2>4, <2>5
  <1> QED  BY <1>5, <1>6, <1>7, <1>9, <1>11, <1>12, <1>13 DEF FollowInv

LEMMA FollowRecordMove ==
    ASSUME FollowInv, SidecarsType', RecordMove
    PROVE  FollowInv'
  <1>1. UNCHANGED <<arr, media, lost, files>> /\ job.pc = "linked"
    BY DEF RecordMove, UndoMove, env
  <1>2. Steady => media = arr /\ job.media = arr /\ job.rec = record
    BY <1>1, Working DEF Looking
  <1>3. job.from \in Paths /\ job.to \in Paths /\ job.media.path \in Paths
    BY <1>1 DEF FollowInv, SidecarsType, JobOK, Named, Aimed, Moving
  <1>4. CASE Sidecar(job.to, job.rec) = "matches" /\ record = job.rec
    <2>1. /\ record'.path = job.to /\ record'.sub = record.sub /\ record'.mediaPath = job.media.path
          /\ record'.file = record.file /\ record'.size = record.size
      BY <1>4 DEF RecordMove, FollowInv, SidecarsType, RecordOK, RecordType
    <2>2. /\ job'.pc = "unlink" /\ job'.media = job.media /\ UNCHANGED <<disk, row, settled>>
          /\ job'.from = job.from /\ job'.to = job.to /\ job'.linked = job.linked
      BY <1>4 DEF RecordMove, GoTo, FollowInv, SidecarsType, JobOK, JobType
    <2>3. /\ disk[job.to] = [ino |-> record.sub, own |-> FALSE] /\ disk[job.to] # NoFile
          /\ disk[job.to].own = FALSE
      <3>1. disk[job.to] = [ino |-> record.sub, own |-> FALSE] /\ disk[job.to] # NoFile
        BY <1>4, Matching
      <3> QED  BY <3>1
    <2>4. Undisturbed'
      BY <1>1, <2>2 DEF FollowInv, Undisturbed, Steady, Looking
    <2>5. RecordKnows' /\ Numbered'
      BY <1>1, <1>3, <2>1, <2>2 DEF FollowInv, RecordKnows, Numbered
    <2>6. Steady => SameFile(record, arr)' /\ job.media = arr /\ RecordHolds'
      <3>1. Steady => SameFile(record, arr) /\ job.media = arr
        BY <1>1, <1>2 DEF FollowInv, Progress
      <3> QED  BY <1>1, <2>1, <2>2, <2>3, <3>1 DEF SameFile, RecordHolds
    <2>7. MoveNames'
      <3>1. SUFFICES ASSUME ~lost
                     PROVE  /\ row.from = job.from /\ row.to = job.to /\ row # NoRow
                            /\ job.to = arr.path /\ job.from # job.to
                            /\ disk[job.to] # NoFile /\ disk[job.to].ino = row.ino
                            /\ disk[job.from] = IF job.linked THEN disk[job.to] ELSE NoFile
                            /\ SameFile(record, arr)' /\ record'.path = arr.path /\ record'.mediaPath = arr.path
                            /\ disk[arr.path] = [ino |-> record'.sub, own |-> FALSE]
        BY <1>1, <2>2 DEF MoveNames, Moving
      <3>2. /\ row.from = job.from /\ row.to = job.to /\ row # NoRow
            /\ job.to = arr.path /\ job.from # job.to
            /\ disk[job.to] # NoFile /\ disk[job.to].ino = row.ino
            /\ disk[job.from] = IF job.linked THEN disk[job.to] ELSE NoFile
        BY <1>1, <3>1 DEF FollowInv, MoveNames, Moving
      <3> QED  BY <2>1, <2>3, <2>6, <3>1, <3>2 DEF Steady
    <2>8. RowWaits' /\ Found'
      BY <2>2 DEF RowWaits, Found, Moving
    <2>9. Progress'
      BY <1>1, <2>1, <2>2, <2>6 DEF FollowInv, Progress, Steady
    <2>10. Distinct'
      BY <1>1, <2>2 DEF FollowInv, Distinct, Unedited
    <2>11. Tracked'
      <3>1. SUFFICES ASSUME ~lost, NEW n \in Paths, Managed(n)
                     PROVE  /\ record'.file # 0 /\ record'.sub = disk[n].ino /\ n \in RowNames
        BY <1>1, <2>2 DEF Tracked, Managed, Unedited, RowNames
      <3>2. /\ record.file # 0 /\ record.sub = disk[n].ino
            /\ n \in Looks(RebaseInstallationPaths(record), arr) \cup RowNames
        BY <3>1 DEF FollowInv, Tracked
      <3>3. RebaseInstallationPaths(record) = record /\ SameFile(record, arr)
        BY <1>1, <1>2, <3>1, NotRebased DEF FollowInv, Progress, Steady
      <3>4. Looks(record, arr) \subseteq RowNames
        <4>1. /\ record.path = arr.path /\ job.from = record.mediaPath /\ row # NoRow
              /\ row.from = job.from /\ row.to = arr.path
          BY <1>1, <3>1 DEF FollowInv, MoveNames, Moving
        <4> QED  BY <3>3, <4>1 DEF Looks, Rebased, RowNames
      <3> QED  BY <2>1, <3>2, <3>3, <3>4
    <2> QED  BY <2>2, <2>4, <2>5, <2>7, <2>8, <2>9, <2>10, <2>11 DEF FollowInv
  <1>5. CASE ~(Sidecar(job.to, job.rec) = "matches" /\ record = job.rec)
    BY <1>1, <1>5, FollowUndoMove DEF RecordMove
  <1> QED  BY <1>4, <1>5

LEMMA FollowUnlink ==
    ASSUME FollowInv, SidecarsType', Unlink
    PROVE  FollowInv'
  <1>1. UNCHANGED <<arr, media, lost, files, record, settled>> /\ job.pc = "unlink"
    BY DEF Unlink, env
  <1>2. job.from \in Paths /\ job.to \in Paths
    BY <1>1 DEF FollowInv, SidecarsType, JobOK, Named, Aimed, Moving
  <1>3. job'.pc = "search" /\ job'.media = job.media
    BY DEF Unlink, GoTo, FollowInv, SidecarsType, JobOK, JobType
  <1>4. /\ \A n \in Paths : disk'[n] \in {disk[n], NoFile} /\ (n # job.from => disk'[n] = disk[n])
        /\ disk'[job.to] = disk[job.to]
        /\ job.linked /\ job.from # job.to /\ disk[job.from] = disk[job.to] => disk'[job.from] = NoFile
        /\ ~job.linked => disk' = disk
    <2>1. CASE job.linked
      <3>1. disk' = SameFileRemoved(job.from, job.to) /\ DiskType
        BY <2>1 DEF Unlink, FollowInv, SidecarsType
      <3> QED  BY <1>2, <2>1, <3>1, RemovedName
    <2>2. CASE ~job.linked
      BY <2>2 DEF Unlink
    <2> QED  BY <2>1, <2>2
  <1>5. ~lost =>
           /\ row' = NoRow /\ row.from = job.from /\ row.to = job.to /\ job.to = arr.path /\ job.from # job.to
           /\ SameFile(record, arr) /\ record.path = arr.path /\ record.mediaPath = arr.path
           /\ disk'[job.from] = NoFile /\ media = arr
    <2>1. SUFFICES ASSUME ~lost
                   PROVE  /\ row' = NoRow /\ row.from = job.from /\ row.to = job.to /\ job.to = arr.path /\ job.from # job.to
                          /\ SameFile(record, arr) /\ record.path = arr.path /\ record.mediaPath = arr.path
                          /\ disk'[job.from] = NoFile /\ media = arr
      OBVIOUS
    <2>2. /\ row.from = job.from /\ row.to = job.to /\ job.to = arr.path /\ job.from # job.to
          /\ SameFile(record, arr) /\ record.path = arr.path /\ record.mediaPath = arr.path
          /\ disk[job.from] = IF job.linked THEN disk[job.to] ELSE NoFile
      BY <1>1, <2>1 DEF FollowInv, MoveNames, Moving
    <2>3. media = arr
      BY <1>1, <2>1 DEF FollowInv, Undisturbed, Steady
    <2>4. disk'[job.from] = NoFile
      BY <1>2, <1>4, <2>2
    <2> QED  BY <2>2, <2>3, <2>4 DEF Unlink
  <1>6. Undisturbed'
    BY <1>1, <1>3 DEF FollowInv, Undisturbed, Steady, Looking
  <1>7. RecordKnows'
    BY <1>1 DEF FollowInv, RecordKnows
  <1>8. Numbered'
    BY <1>1, <1>4 DEF FollowInv, Numbered
  <1>9. MoveNames' /\ Found' /\ RowWaits'
    BY <1>1, <1>3, <1>5 DEF MoveNames, Found, RowWaits, Moving
  <1>10. Progress'
    <2>1. settled = "begun" => RecordHolds /\ record.path = job.to
      BY <1>1 DEF FollowInv, Progress
    <2>2. settled = "begun" => RecordHolds'
      BY <1>1, <1>4, <2>1 DEF RecordHolds, SameFile
    <2> QED  BY <1>1, <1>3, <2>2 DEF FollowInv, Progress
  <1>11. Distinct'
    <2>1. SUFFICES ASSUME ~lost, NEW m \in Paths, NEW n \in Paths, disk'[m] # NoFile, ~disk'[m].own,
                          disk'[m].ino = disk'[n].ino, m # n
                   PROVE  FALSE
      BY <1>1 DEF Distinct, Unedited
    <2>2. disk'[n] # NoFile
      <3>1. disk'[m].ino # 0
        BY <2>1, <1>8, <1>1 DEF Numbered, FollowInv, SidecarsType, WorldOK
      <3> QED  BY <2>1, <3>1 DEF NoFile
    <2>3. disk'[m] = disk[m] /\ disk'[n] = disk[n]
      BY <1>4, <2>1, <2>2
    <2>4. {m, n} = {row.from, row.to}
      BY <2>1, <2>3 DEF FollowInv, Distinct, Unedited
    <2> QED  BY <1>5, <2>1, <2>2, <2>4
  <1>12. Tracked'
    <2>1. SUFFICES ASSUME ~lost, NEW n \in Paths, Managed(n)'
                   PROVE  /\ record.file # 0 /\ record.sub = disk'[n].ino
                          /\ n \in Looks(RebaseInstallationPaths(record), arr)
      BY <1>1 DEF Tracked, Looks, SameFile, RebaseInstallationPaths
    <2>2. n # job.from /\ disk'[n] = disk[n] /\ Managed(n)
      BY <1>4, <1>5, <2>1 DEF Managed, Unedited
    <2>3. /\ record.file # 0 /\ record.sub = disk[n].ino
          /\ n \in Looks(RebaseInstallationPaths(record), arr) \cup RowNames
      BY <2>1, <2>2 DEF FollowInv, Tracked
    <2>4. RebaseInstallationPaths(record) = record
      BY <1>5, <2>1, NotRebased
    <2>5. row.to \in Looks(record, arr)
      BY <1>5, <2>1 DEF Looks
    <2> QED  BY <1>5, <2>1, <2>2, <2>3, <2>4, <2>5 DEF RowNames
  <1> QED  BY <1>3, <1>6, <1>7, <1>8, <1>9, <1>10, <1>11, <1>12 DEF FollowInv

LEMMA FollowUnlinkFails ==
    ASSUME FollowInv, SidecarsType', UnlinkFails
    PROVE  FollowInv'
  <1>1. UNCHANGED <<arr, media, lost, disk, row, files, record, settled>> /\ job.pc = "unlink"
    BY DEF UnlinkFails, env
  <1>2. job'.pc = "search" /\ job'.media = job.media
    BY DEF UnlinkFails, GoTo, FollowInv, SidecarsType, JobOK, JobType
  <1>3. Undisturbed'
    BY <1>1, <1>2 DEF FollowInv, Undisturbed, Steady, Looking
  <1>4. MoveNames' /\ Found'
    BY <1>2 DEF MoveNames, Found, Moving
  <1>5. Progress'
    <2>1. RecordHolds <=> RecordHolds'
      BY <1>1 DEF RecordHolds, SameFile
    <2> QED  BY <1>1, <1>2, <2>1 DEF FollowInv, Progress
  <1>6. RowWaits'
    <2>1. SUFFICES ASSUME ~lost
                   PROVE  /\ media = arr
                          /\ SameFile(record, arr) /\ record.path = arr.path /\ record.mediaPath = arr.path
                          /\ row.to = arr.path /\ row.from \in Paths /\ row.from # row.to
                          /\ disk[arr.path] = [ino |-> record.sub, own |-> FALSE] /\ row.ino = record.sub
                          /\ disk[arr.path] # NoFile /\ disk[row.from] \in {NoFile, disk[arr.path]}
      BY <1>1, <1>2 DEF RowWaits, SameFile
    <2>2. /\ row.from = job.from /\ row.to = job.to /\ job.to = arr.path /\ job.from # job.to
          /\ SameFile(record, arr) /\ record.path = arr.path /\ record.mediaPath = arr.path
          /\ disk[job.from] \in {NoFile, disk[job.to]} /\ disk[job.to] # NoFile /\ disk[job.to].ino = row.ino
          /\ disk[arr.path] = [ino |-> record.sub, own |-> FALSE]
      BY <1>1, <2>1 DEF FollowInv, MoveNames, Moving
    <2>3. media = arr
      BY <1>1, <2>1 DEF FollowInv, Undisturbed, Steady
    <2>4. row.from \in Paths
      BY <1>1, <2>2 DEF FollowInv, SidecarsType, JobOK, Named, Aimed, Moving
    <2>5. row.ino = record.sub
      BY <2>2
    <2> QED  BY <2>2, <2>3, <2>4, <2>5
  <1> QED  BY <1>1, <1>2, <1>3, <1>4, <1>5, <1>6, OnlyJob

LEMMA FollowInstall ==
    ASSUME FollowInv, SidecarsType', Install
    PROVE  FollowInv'
  <1>1. /\ UNCHANGED <<arr, media, lost, row>> /\ job.pc = "search" /\ record = NoRecord
        /\ job.media = arr /\ disk[arr.path] = NoFile /\ arr.path \in Paths /\ arr.file # 0
    BY DEF Install, env, FollowInv, SidecarsType, WorldOK
  <1>2. files' = files + 1 /\ files \in Nat
    BY DEF Install, FollowInv, SidecarsType, WorldOK
  <1>3. \A n \in Paths : disk'[n] = IF n = arr.path THEN [ino |-> files + 1, own |-> FALSE] ELSE disk[n]
    BY <1>1 DEF Install, FollowInv, SidecarsType, DiskType
  <1>4. /\ record'.path = arr.path /\ record'.sub = files + 1 /\ record'.mediaPath = arr.path
        /\ record'.file = arr.file /\ record'.size = arr.size
    BY <1>1 DEF Install, Installed
  <1>5. job' = Idle /\ job'.pc = "idle" /\ settled' = IF settled = "begun" THEN "yes" ELSE settled
    BY DEF Install, Completes, Idle
  <1>6. Undisturbed' /\ MoveNames' /\ Found'
    BY <1>5 DEF Undisturbed, MoveNames, Found, Moving
  <1>7. RecordKnows'
    BY <1>1, <1>4 DEF RecordKnows
  <1>8. Numbered'
    BY <1>2, <1>3 DEF FollowInv, Numbered
  <1>9. RecordHolds'
    <2>1. disk'[arr.path] # NoFile /\ disk'[arr.path].own = FALSE
      BY <1>1, <1>2, <1>3 DEF NoFile
    <2> QED  BY <1>1, <1>4, <2>1 DEF RecordHolds, SameFile
  <1>10. Progress'
    BY <1>1, <1>5, <1>9 DEF FollowInv, Progress
  <1>11. ~lost => row = NoRow
    BY <1>1 DEF FollowInv, RowWaits, Moving, SameFile, NoRecord
  <1>12. RowWaits'
    BY <1>1, <1>11 DEF RowWaits
  <1>13. Distinct'
    <2>1. SUFFICES ASSUME ~lost, NEW m \in Paths, NEW n \in Paths, disk'[m] # NoFile, ~disk'[m].own,
                          disk'[m].ino = disk'[n].ino, m # n
                   PROVE  FALSE
      BY <1>1 DEF Distinct, Unedited
    <2>2. \A o \in Paths : disk[o].ino # files + 1
      BY <1>2 DEF FollowInv, Numbered, NoFile
    <2>3. m # arr.path /\ n # arr.path
      BY <1>3, <2>1, <2>2
    <2> QED  BY <1>3, <1>11, <2>1, <2>3 DEF FollowInv, Distinct, Unedited
  <1>14. Tracked'
    <2>1. SUFFICES ASSUME ~lost, NEW n \in Paths, Managed(n)'
                   PROVE  /\ record'.file # 0 /\ record'.sub = disk'[n].ino
                          /\ n \in Looks(RebaseInstallationPaths(record), arr)'
      BY <1>1 DEF Tracked
    <2>2. n = arr.path
      <3>1. SUFFICES ASSUME n # arr.path PROVE FALSE
        OBVIOUS
      <3>2. Managed(n)
        BY <1>3, <2>1, <3>1 DEF Managed, Unedited
      <3> QED  BY <1>1, <2>1, <3>2 DEF FollowInv, Tracked, NoRecord
    <2>3. media = arr
      BY <1>1, <2>1 DEF FollowInv, Undisturbed, Steady
    <2>4. (RebaseInstallationPaths(record))' = record'
      BY <1>1, <2>3 DEF RebaseInstallationPaths
    <2>5. n \in Looks(RebaseInstallationPaths(record), arr)'
      BY <1>4, <2>2, <2>4 DEF Looks
    <2> QED  BY <1>1, <1>3, <1>4, <2>2, <2>5
  <1> QED  BY <1>5, <1>6, <1>7, <1>8, <1>10, <1>12, <1>13, <1>14 DEF FollowInv

LEMMA FollowSearchEnds ==
    ASSUME FollowInv, SidecarsType', SearchEnds
    PROVE  FollowInv'
  <1>1. UNCHANGED <<arr, media, lost, disk, record, row, files>> /\ job.pc = "search" /\ job' = Idle
    BY DEF SearchEnds, env, Completes
  <1>2. settled' \in {"no", "yes"} /\ (settled' = "yes" => media = arr /\ RecordHolds)
    BY <1>1 DEF FollowInv, Progress, SearchEnds, Completes
  <1> QED  BY <1>1, <1>2, Ends DEF Moving

LEMMA FollowCancelled ==
    ASSUME FollowInv, SidecarsType', Cancelled
    PROVE  FollowInv'
  <1>1. UNCHANGED <<arr, media, lost, disk, record, row, files>> /\ job.pc \notin Moving
    BY DEF Cancelled, env, Moving
  <1> QED  BY <1>1, FailsEnds DEF Cancelled

\* The start after a crash: a row of a move whose sidecar has both names takes
\* the old one away.
LEMMA FollowRestart ==
    ASSUME FollowInv, SidecarsType', Restart
    PROVE  FollowInv'
  <1>1. UNCHANGED <<arr, media, lost, files, record>>
    BY DEF Restart, env
  <1>2. CASE row = NoRow
    BY <1>1, <1>2, FailsEnds DEF Restart
  <1>3. CASE row # NoRow
    <2>1. job' = Idle /\ job'.pc = "idle" /\ settled' = "no" /\ disk' = RecoverPendingMove /\ row' = NoRow
      BY <1>3 DEF Restart, Idle
    <2>2. Undisturbed' /\ MoveNames' /\ Found' /\ RowWaits'
      BY <2>1 DEF Undisturbed, MoveNames, Found, RowWaits, Moving
    <2>3. RecordKnows' /\ Progress'
      BY <1>1, <2>1 DEF FollowInv, RecordKnows, Progress
    <2>4. \A n \in Paths : disk'[n] \in {disk[n], NoFile} /\ (n # row.from => disk'[n] = disk[n])
      <3>1. DiskType /\ (disk' = disk \/ disk' = SameFileRemoved(row.from, row.to))
        BY <2>1 DEF RecoverPendingMove, FollowInv, SidecarsType
      <3> QED  BY <3>1, RemovedName
    <2>5. Numbered'
      BY <1>1, <2>4 DEF FollowInv, Numbered
    <2>6. ~lost =>
             /\ row.from \in Paths /\ row.to = arr.path /\ row.from # row.to
             /\ job.pc # "link" => disk[row.from] = NoFile \/ (disk[row.from] = disk[row.to] /\ disk[row.from].ino = row.ino)
             /\ media = arr /\ SameFile(record, arr) /\ record.path = arr.path
             /\ job.pc \in {"link", "linked"} => row.from = record.mediaPath
      <3>1. CASE ~lost /\ job.pc \in Moving
        <4>1. job.from \in Paths /\ job.to \in Paths
          BY <3>1 DEF FollowInv, SidecarsType, JobOK, Named, Aimed
        <4>2. /\ row.from = job.from /\ row.to = job.to /\ job.to = arr.path /\ job.from # job.to
              /\ record.path = arr.path
              /\ job.pc # "link" => disk[job.from] \in {NoFile, disk[job.to]} /\ disk[job.to].ino = row.ino
              /\ job.pc \in {"link", "linked"} => job.from = record.mediaPath
          BY <3>1 DEF FollowInv, MoveNames, Moving
        <4>3. media = arr
          BY <3>1 DEF FollowInv, Undisturbed, Steady, Moving
        <4>4. SameFile(record, arr)
          BY <3>1 DEF FollowInv, Progress, MoveNames, Steady, Moving
        <4> QED  BY <4>1, <4>2, <4>3, <4>4
      <3>2. CASE ~lost /\ job.pc \notin Moving
        <4>1. /\ row.from \in Paths /\ row.to = arr.path /\ row.from # row.to
              /\ disk[row.from] \in {NoFile, disk[arr.path]} /\ disk[arr.path] = [ino |-> record.sub, own |-> FALSE]
              /\ row.ino = record.sub /\ media = arr /\ SameFile(record, arr) /\ record.path = arr.path
          BY <1>3, <3>2 DEF FollowInv, RowWaits
        <4>2. disk[arr.path].ino = row.ino
          BY <4>1
        <4>3. disk[row.from] = NoFile \/ (disk[row.from] = disk[row.to] /\ disk[row.from].ino = row.ino)
          BY <4>1, <4>2
        <4> QED  BY <3>2, <4>1, <4>3 DEF Moving
      <3> QED  BY <3>1, <3>2
    <2>7. ASSUME ~lost, job.pc # "link", Unedited(row.from)
          PROVE  disk'[row.from] = NoFile
      <3>1. /\ row.from \in Paths /\ row.from # row.to /\ disk[row.from] = disk[row.to]
            /\ disk[row.from].ino = row.ino /\ disk[row.from] # NoFile
        BY <2>6, <2>7 DEF Unedited
      <3>2. disk[row.from] = [ino |-> disk[row.from].ino, own |-> disk[row.from].own] /\ disk[row.from].own \in BOOLEAN
        BY <3>1, FileFields DEF FollowInv, SidecarsType
      <3>3. disk[row.from].own = FALSE
        BY <2>7, <3>2, Zenon DEF Unedited
      <3>4. disk[row.from] = [ino |-> row.ino, own |-> FALSE]
        BY <3>1, <3>2, <3>3
      <3>5. disk' = SameFileRemoved(row.from, row.to)
        BY <1>3, <2>1, <3>4 DEF RecoverPendingMove
      <3> QED  BY <3>1, <3>5, RemovedName DEF FollowInv, SidecarsType
    <2>8. Distinct'
      <3>1. SUFFICES ASSUME ~lost, NEW m \in Paths, NEW n \in Paths, disk'[m] # NoFile, ~disk'[m].own,
                            disk'[m].ino = disk'[n].ino, m # n
                     PROVE  FALSE
        BY <1>1 DEF Distinct, Unedited
      <3>2. disk'[n] # NoFile
        <4>1. disk'[m].ino # 0
          BY <3>1, <2>5, <1>1 DEF Numbered, FollowInv, SidecarsType, WorldOK
        <4> QED  BY <3>1, <4>1 DEF NoFile
      <3>3. disk'[m] = disk[m] /\ disk'[n] = disk[n]
        BY <2>4, <3>1, <3>2
      <3>4. {m, n} = {row.from, row.to} /\ job.pc # "link"
        BY <3>1, <3>3 DEF FollowInv, Distinct, Unedited
      <3>5. disk[row.from] = disk[row.to]
        BY <2>6, <3>1, <3>2, <3>3, <3>4
      <3>6. Unedited(row.from)
        BY <3>1, <3>3, <3>4, <3>5 DEF Unedited
      <3> QED  BY <2>7, <3>1, <3>2, <3>4, <3>6
    <2>9. Tracked'
      <3>1. SUFFICES ASSUME ~lost, NEW n \in Paths, Managed(n)'
                     PROVE  /\ record.file # 0 /\ record.sub = disk'[n].ino
                            /\ n \in Looks(RebaseInstallationPaths(record), arr)
        BY <1>1 DEF Tracked, Looks, SameFile, RebaseInstallationPaths
      <3>2. disk'[n] = disk[n] /\ Managed(n) /\ disk'[n] # NoFile
        BY <2>4, <3>1 DEF Managed, Unedited
      <3>3. /\ record.file # 0 /\ record.sub = disk[n].ino
            /\ n \in Looks(RebaseInstallationPaths(record), arr) \cup {row.from, row.to}
        BY <1>3, <3>1, <3>2 DEF FollowInv, Tracked, RowNames
      <3>4. RebaseInstallationPaths(record) = record
        BY <2>6, <3>1, NotRebased
      <3>5. row.to \in Looks(record, arr)
        BY <2>6, <3>1 DEF Looks
      <3>6. n = row.from => row.from \in Looks(record, arr)
        <4>1. CASE job.pc \in {"link", "linked"}
          BY <2>6, <3>1, <4>1 DEF Looks, Rebased
        <4>2. CASE job.pc \notin {"link", "linked"}
          BY <2>7, <3>1, <3>2, <4>2 DEF Managed
        <4> QED  BY <4>1, <4>2
      <3> QED  BY <3>2, <3>3, <3>4, <3>5, <3>6
    <2> QED  BY <2>1, <2>2, <2>3, <2>5, <2>8, <2>9 DEF FollowInv
  <1> QED  BY <1>2, <1>3

\* What Arr does to the sidecars: n's file is now what was at the name it came
\* from.
LEMMA Carried ==
    ASSUME FollowInv, NEW file, NEW size, NEW path \in Paths, NEW fate \in {"carry", "leave", "delete"},
           ArrChanges(file, size, path, fate)
    PROVE  \/ \A n \in Paths : disk'[n] \in {disk[n], NoFile}
           \/ /\ path # arr.path /\ disk[path] = NoFile
              /\ \A n \in Paths : disk'[n] = IF n = path THEN disk[arr.path]
                                             ELSE IF n = arr.path THEN NoFile ELSE disk[n]
  <1>1. arr.path \in Paths /\ disk \in [Paths -> FileType]
    BY DEF FollowInv, SidecarsType, WorldOK, DiskType
  <1>2. CASE fate = "delete"
    BY <1>1, <1>2 DEF ArrChanges
  <1>3. CASE fate = "carry"
    <2>1. /\ path # arr.path /\ disk[path] = NoFile
          /\ disk' = [disk EXCEPT ![arr.path] = NoFile, ![path] = disk[arr.path]]
      BY <1>3 DEF ArrChanges
    <2> QED  BY <1>1, <2>1
  <1>4. CASE fate = "leave"
    BY <1>4 DEF ArrChanges
  <1> QED  BY <1>2, <1>3, <1>4

LEMMA FollowArr ==
    ASSUME FollowInv, SidecarsType', NEW file, NEW size, NEW path \in Paths,
           NEW fate \in {"carry", "leave", "delete"}, ArrChanges(file, size, path, fate)
    PROVE  FollowInv'
  <1>1. /\ UNCHANGED <<media, record, row, job, files>> /\ settled' = "no"
        /\ arr'.file = file /\ arr'.size = size /\ arr'.path = path
        /\ file = arr.file => size = arr.size \/ path = arr.path
    BY DEF ArrChanges
  <1>2. ~lost' => ~lost /\ settled = "yes" /\ job = Idle /\ row = NoRow /\ job.pc = "idle"
    <2>1. lost' <=> (lost \/ settled # "yes" \/ job # Idle \/ row # NoRow)
      BY Zenon DEF ArrChanges
    <2>2. Idle.pc = "idle"
      BY DEF Idle
    <2> QED  BY <2>1, <2>2
  <1>3. Undisturbed' /\ MoveNames' /\ Found' /\ RowWaits'
    BY <1>1, <1>2 DEF Undisturbed, MoveNames, Found, RowWaits, Moving, Steady
  <1>4. RecordKnows'
    BY <1>1 DEF FollowInv, RecordKnows
  <1>5. arr.path \in Paths
    BY DEF FollowInv, SidecarsType, WorldOK
  <1>6. Numbered'
    BY <1>1, <1>5, Carried DEF FollowInv, Numbered
  <1>7. Progress'
    BY <1>1, <1>2 DEF Progress, Steady
  <1>8. Distinct'
    <2>1. SUFFICES ASSUME ~lost', NEW m \in Paths, NEW n \in Paths, disk'[m] # NoFile, ~disk'[m].own,
                          disk'[m].ino = disk'[n].ino, m # n
                   PROVE  FALSE
      BY DEF Distinct, Unedited
    <2>2. disk'[n] # NoFile
      <3>1. disk'[m].ino # 0
        BY <2>1, <1>6, <1>1 DEF Numbered, FollowInv, SidecarsType, WorldOK
      <3> QED  BY <2>1, <3>1 DEF NoFile
    <2>3. \A o, p \in Paths : Unedited(o) /\ disk[o].ino = disk[p].ino => o = p
      BY <1>2, <2>1 DEF FollowInv, Distinct
    <2>4. CASE \A k \in Paths : disk'[k] \in {disk[k], NoFile}
      BY <2>1, <2>2, <2>3, <2>4 DEF Unedited
    <2>5. CASE /\ path # arr.path /\ disk[path] = NoFile
               /\ \A k \in Paths : disk'[k] = IF k = path THEN disk[arr.path]
                                              ELSE IF k = arr.path THEN NoFile ELSE disk[k]
      <3> DEFINE src(o) == IF o = path THEN arr.path ELSE o
      <3>1. /\ src(m) \in Paths /\ src(n) \in Paths /\ src(m) # src(n)
            /\ disk'[m] = disk[src(m)] /\ disk'[n] = disk[src(n)]
        BY <1>5, <2>1, <2>2, <2>5
      <3> HIDE DEF src
      <3> QED  BY <2>1, <2>3, <3>1 DEF Unedited
    <2> QED  BY <2>4, <2>5, Carried
  <1>9. Tracked'
    <2>1. SUFFICES ASSUME ~lost', NEW n \in Paths, Managed(n)'
                   PROVE  /\ record.file # 0 /\ record.sub = disk'[n].ino
                          /\ n \in Looks(RebaseInstallationPaths(record), arr)'
      BY <1>1 DEF Tracked
    <2>2. /\ ~lost /\ row = NoRow /\ media = arr /\ RecordHolds
      BY <1>2, <2>1 DEF FollowInv, Progress
    <2>3. \E o \in Paths : /\ Managed(o) /\ disk'[n] = disk[o]
                           /\ o = n \/ (o = arr.path /\ n = path /\ path # arr.path)
      <3>1. disk'[n] # NoFile
        BY <2>1 DEF Managed, Unedited
      <3>2. CASE disk'[n] = disk[n]
        <4>1. Managed(n)
          BY <2>1, <3>2 DEF Managed, Unedited
        <4> QED  BY <3>2, <4>1
      <3>3. CASE disk'[n] # disk[n]
        <4>1. n = path /\ path # arr.path /\ disk'[n] = disk[arr.path]
          BY <3>1, <3>3, Carried
        <4>2. Managed(arr.path)
          BY <2>1, <4>1 DEF Managed, Unedited
        <4> QED  BY <1>5, <4>1, <4>2
      <3> QED  BY <3>2, <3>3
    <2>4. PICK o \in Paths : /\ Managed(o) /\ disk'[n] = disk[o]
                             /\ o = n \/ (o = arr.path /\ n = path /\ path # arr.path)
      BY <2>3
    <2>5. record.file # 0 /\ disk[o] = [ino |-> record.sub, own |-> FALSE] /\ o \in Looks(record, arr)
      BY <2>2, <2>4, TrackedAt
    <2>6. record # NoRecord /\ SameFile(record, arr) /\ record.mediaPath = arr.path
      BY <2>2, <2>5 DEF NoRecord, RecordHolds
    <2>7. o = record.path
      BY <2>5, <2>6 DEF Looks, Rebased
    <2>8. CASE file = arr.file /\ path # arr.path
      <3>1. (RebaseInstallationPaths(record))' = [record EXCEPT !.path = Rebased(record.path, arr.path, path)]
        BY <1>1, <2>2, <2>6, <2>8 DEF RebaseInstallationPaths, SameFile
      <3>2. PICK q : q = (RebaseInstallationPaths(record))'
        OBVIOUS
      <3>3. /\ q.path = Rebased(record.path, arr.path, path) /\ q.mediaPath = arr.path
            /\ q.file = record.file /\ q.size = record.size
        BY <2>6, <3>1, <3>2 DEF FollowInv, SidecarsType, RecordOK, RecordType
      <3>4. SameFile(q, arr')
        BY <1>1, <2>6, <2>8, <3>3 DEF SameFile
      <3>5. n \in {q.path, Rebased(q.path, path, arr.path)}
        BY <2>4, <2>7, <2>8, <3>3 DEF Rebased
      <3>6. n \in Looks(q, arr')
        BY <1>1, <3>3, <3>4, <3>5 DEF Looks
      <3> QED  BY <1>1, <2>4, <2>5, <3>2, <3>6 DEF Looks, SameFile
    <2>9. CASE ~(file = arr.file /\ path # arr.path)
      <3>1. (RebaseInstallationPaths(record))' = record
        BY <1>1, <2>2, <2>9 DEF RebaseInstallationPaths
      <3>2. path # arr.path => ~(SameFile(record, arr'))
        BY <1>1, <2>6, <2>9 DEF SameFile
      <3>3. n \in {record.path, Rebased(record.path, record.mediaPath, path)}
        BY <2>4, <2>6, <2>7 DEF Rebased
      <3>4. path = arr.path => n = record.path
        BY <2>4, <2>7
      <3>5. n \in Looks(record, arr')
        BY <1>1, <3>2, <3>3, <3>4 DEF Looks
      <3> QED  BY <1>1, <2>4, <2>5, <3>1, <3>5 DEF Looks, SameFile
    <2> QED  BY <2>8, <2>9
  <1> QED  BY <1>1, <1>3, <1>4, <1>6, <1>7, <1>8, <1>9 DEF FollowInv

\* The catalog takes Arr's change over: the record names the place the search
\* was going to look at.
LEMMA FollowImport ==
    ASSUME FollowInv, SidecarsType', ApplyImport
    PROVE  FollowInv'
  <1>1. /\ UNCHANGED <<arr, disk, row, job, settled, lost, files>> /\ media # arr /\ media' = arr
        /\ record' = RebaseInstallationPaths(record)
    BY DEF ApplyImport
  <1>2. settled = "no" /\ (~lost => job.pc = "idle" /\ row = NoRow)
    BY <1>1 DEF FollowInv, Progress, Undisturbed, Steady, RowWaits, Moving
  <1>3. Undisturbed' /\ MoveNames' /\ Found' /\ RowWaits'
    BY <1>1, <1>2 DEF Undisturbed, MoveNames, Found, RowWaits, Moving, Steady
  <1>4. /\ record'.file = record.file /\ record'.sub = record.sub /\ record'.mediaPath = record.mediaPath
    BY <1>1 DEF RebaseInstallationPaths, FollowInv, SidecarsType, RecordOK, RecordType
  <1>5. RecordKnows' /\ Numbered'
    BY <1>1, <1>4 DEF FollowInv, RecordKnows, Numbered
  <1>6. Progress'
    BY <1>1, <1>2 DEF Progress, Steady
  <1>7. Distinct'
    BY <1>1 DEF FollowInv, Distinct, Unedited
  <1>8. (RebaseInstallationPaths(record))' = record'
    BY <1>1 DEF RebaseInstallationPaths
  <1>9. Tracked'
    <2>1. SUFFICES ASSUME ~lost, NEW n \in Paths, Managed(n)
                   PROVE  /\ record'.file # 0 /\ record'.sub = disk[n].ino
                          /\ n \in Looks(RebaseInstallationPaths(record), arr)'
      BY <1>1 DEF Tracked, Managed, Unedited
    <2>2. /\ record.file # 0 /\ record.sub = disk[n].ino
          /\ n \in Looks(RebaseInstallationPaths(record), arr)
      BY <1>2, <2>1 DEF FollowInv, Tracked, RowNames
    <2>3. n \in Looks(record', arr)
      BY <1>1, <2>2
    <2>4. n \in Looks(RebaseInstallationPaths(record), arr)'
      BY <1>1, <1>8, <2>3 DEF Looks, SameFile
    <2> QED  BY <1>4, <2>2, <2>4
  <1> QED  BY <1>1, <1>3, <1>5, <1>6, <1>7, <1>9 DEF FollowInv

\* The owner adds, edits and deletes sidecars.
LEMMA FollowOwner ==
    ASSUME FollowInv, SidecarsType', NEW new, OwnerActs(new), files' \in {files, files + 1},
           \A n \in Paths : \/ new[n] \in {disk[n], NoFile}
                            \/ new[n].own = TRUE /\ disk[n] # NoFile /\ new[n].ino = disk[n].ino
                            \/ new[n].own = TRUE /\ new[n].ino = files + 1 /\ files' = files + 1
    PROVE  FollowInv'
  <1>1. /\ UNCHANGED <<arr, media, record, row, job>> /\ settled' = "no" /\ disk' = new
        /\ ~lost' => ~lost /\ row = NoRow
    BY DEF OwnerActs
  <1>2. ~lost' => job.pc \notin Moving
    BY <1>1 DEF FollowInv, MoveNames
  <1>3. files \in Nat
    BY DEF FollowInv, SidecarsType, WorldOK
  <1>4. Numbered'
    BY <1>1, <1>3 DEF FollowInv, Numbered
  <1>5. Undisturbed'
    BY <1>1 DEF FollowInv, Undisturbed, Steady
  <1>6. RecordKnows' /\ RowWaits'
    BY <1>1 DEF FollowInv, RecordKnows, RowWaits
  <1>7. MoveNames'
    BY <1>1, <1>2 DEF FollowInv, MoveNames, Moving
  <1>8. Progress'
    BY <1>1 DEF FollowInv, Progress, Steady, SameFile
  <1>9. \A n \in Paths : Unedited(n)' => Unedited(n) /\ disk'[n] = disk[n]
    BY <1>1 DEF Unedited
  <1>10. \A n \in Paths : Managed(n)' => Managed(n) /\ disk'[n] = disk[n]
    BY <1>9 DEF Managed
  <1>11. Found'
    BY <1>1, <1>10 DEF FollowInv, Found
  <1>12. Tracked'
    BY <1>1, <1>10 DEF FollowInv, Tracked, Looks, RowNames, RebaseInstallationPaths, SameFile
  <1>13. Distinct'
    <2>1. SUFFICES ASSUME ~lost', NEW m \in Paths, NEW n \in Paths, Unedited(m)',
                          disk'[m].ino = disk'[n].ino, m # n
                   PROVE  FALSE
      BY DEF Distinct
    <2>2. Unedited(m) /\ disk'[m] = disk[m] /\ disk[m].ino \in 1 .. files
      BY <1>9, <2>1 DEF FollowInv, Numbered, Unedited
    <2>3. disk'[n].ino \in {disk[n].ino, 0, files + 1}
      BY <1>1 DEF NoFile
    <2>4. disk[n].ino = disk[m].ino
      BY <1>3, <2>1, <2>2, <2>3
    <2> QED  BY <1>1, <2>1, <2>2, <2>4 DEF FollowInv, Distinct
  <1> QED  BY <1>1, <1>4, <1>5, <1>6, <1>7, <1>8, <1>11, <1>12, <1>13 DEF FollowInv

\* What is true after one more step, whoever takes it.
LEMMA FollowKept ==
    ASSUME FollowInv, NoPath \notin Paths, [Next]_vars
    PROVE  FollowInv'
  <1>1. SidecarsType'
    BY TypeKept DEF FollowInv
  <1>2. CASE World
    <2>1. ASSUME NEW file \in 1 .. MaxChanges + 1, NEW size \in Sizes, NEW path \in Paths,
                 NEW fate \in {"carry", "leave", "delete"}, ArrChanges(file, size, path, fate)
          PROVE  FollowInv'
      BY <1>1, <2>1, FollowArr
    <2>2. CASE ApplyImport
      BY <1>1, <2>2, FollowImport
    <2>3. ASSUME NEW name \in Paths, OwnerEdits(name)
          PROVE  FollowInv'
      <3> DEFINE new == [n \in Paths |-> IF disk[n] = disk[name] THEN [disk[n] EXCEPT !.own = TRUE] ELSE disk[n]]
      <3>1. OwnerActs(new) /\ files' = files /\ disk[name] # NoFile
        BY <2>3, Zenon DEF OwnerEdits
      <3>2. ASSUME NEW n \in Paths
            PROVE  new[n] = disk[n] \/ (new[n].own = TRUE /\ disk[n] # NoFile /\ new[n].ino = disk[n].ino)
        <4>1. disk[n] \in FileType
          BY DEF FollowInv, SidecarsType, DiskType
        <4>2. PICK f : f = disk[n]
          OBVIOUS
        <4>3. [f EXCEPT !.own = TRUE].own = TRUE /\ [f EXCEPT !.own = TRUE].ino = f.ino
          BY <4>1, <4>2 DEF FileType
        <4>4. new[n] = disk[n] \/ (new[n] = [f EXCEPT !.own = TRUE] /\ disk[n] = disk[name])
          BY <4>2
        <4> HIDE DEF new
        <4> QED  BY <3>1, <4>2, <4>3, <4>4
      <3> HIDE DEF new
      <3> QED  BY <1>1, <3>1, <3>2, FollowOwner
    <2>4. ASSUME NEW name \in Paths, OwnerDeletes(name)
          PROVE  FollowInv'
      <3> DEFINE new == [disk EXCEPT ![name] = NoFile]
      <3>1. OwnerActs(new) /\ files' = files
        BY <2>4 DEF OwnerDeletes
      <3>2. \A n \in Paths : new[n] \in {disk[n], NoFile}
        BY DEF FollowInv, SidecarsType, DiskType
      <3> HIDE DEF new
      <3> QED  BY <1>1, <3>1, <3>2, FollowOwner
    <2>5. ASSUME NEW name \in Paths, OwnerAdds(name)
          PROVE  FollowInv'
      <3> DEFINE new == [disk EXCEPT ![name] = [ino |-> files + 1, own |-> TRUE]]
      <3>1. OwnerActs(new) /\ files' = files + 1
        BY <2>5 DEF OwnerAdds
      <3>2. \A n \in Paths : new[n] = disk[n] \/ new[n] = [ino |-> files + 1, own |-> TRUE]
        BY DEF FollowInv, SidecarsType, DiskType
      <3> HIDE DEF new
      <3>3. \A n \in Paths : new[n] = disk[n] \/ (new[n].own = TRUE /\ new[n].ino = files + 1)
        BY <3>2
      <3> QED  BY <1>1, <3>1, <3>3, FollowOwner
    <2>6. CASE SlotFrees \/ SlotTaken
      <3>1. UNCHANGED <<arr, media, lost, disk, record, row, files, job, settled>>
        BY <2>6 DEF SlotFrees, SlotTaken, env
      <3> QED  BY <1>1, <3>1 DEF FollowInv, Undisturbed, Steady, RecordKnows, Numbered, Progress, RecordHolds,
                 MoveNames, RowWaits, Distinct, Unedited, Tracked, Managed, Looks, RowNames, Found,
                 RebaseInstallationPaths, SameFile
    <2> QED  BY <1>2, <2>1, <2>2, <2>3, <2>4, <2>5, <2>6 DEF World
  <1>3. CASE Move
    <2>1. CASE BeginMove
      BY <1>1, <2>1, FollowBeginMove
    <2>2. ASSUME NEW linked \in BOOLEAN, Link(linked)
          PROVE  FollowInv'
      BY <1>1, <2>2, FollowLink
    <2>3. CASE LinkFails
      BY <1>1, <2>3, FollowNoLink DEF LinkFails, env
    <2>4. CASE Unmovable
      BY <1>1, <2>4, FollowUnmovable
    <2>5. CASE RecordMove
      BY <1>1, <2>5, FollowRecordMove
    <2>8. CASE RecordMoveFails
      BY <1>1, <2>8, FollowUndoMove DEF RecordMoveFails
    <2>6. CASE Unlink
      BY <1>1, <2>6, FollowUnlink
    <2>7. CASE UnlinkFails
      BY <1>1, <2>7, FollowUnlinkFails
    <2> QED  BY <1>3, <2>1, <2>2, <2>3, <2>4, <2>5, <2>6, <2>7, <2>8 DEF Move
  <1>4. CASE Begin
    BY <1>1, <1>4, FollowBegin
  <1>5. CASE Reattach
    BY <1>1, <1>5, FollowReattach
  <1>6. CASE Decide
    BY <1>1, <1>6, FollowDecide
  <1>7. CASE Drop
    BY <1>1, <1>7, FollowDrop
  <1>8. CASE Aim
    BY <1>1, <1>8, FollowAim
  <1>9. CASE RemoveManaged
    BY <1>1, <1>9, FollowRemove
  <1>10. CASE Rebase
    BY <1>1, <1>10, FollowRebase
  <1>11. CASE Install
    BY <1>1, <1>11, FollowInstall
  <1>12. CASE SearchEnds
    BY <1>1, <1>12, FollowSearchEnds
  <1>13. CASE Cancelled
    BY <1>1, <1>13, FollowCancelled
  <1>14. CASE Restart
    BY <1>1, <1>14, FollowRestart
  <1>15. CASE UNCHANGED vars
    BY <1>1, <1>15 DEF vars, FollowInv, Undisturbed, Steady, RecordKnows, Numbered, Progress, RecordHolds,
      MoveNames, RowWaits, Distinct, Unedited, Tracked, Managed, Looks, RowNames, Found,
      RebaseInstallationPaths, SameFile
  <1> QED  BY <1>2, <1>3, <1>4, <1>5, <1>6, <1>7, <1>8, <1>9, <1>10, <1>11, <1>12, <1>13, <1>14, <1>15
           DEF Next, Settle

\* What the inductive invariant says between two searches.
LEMMA Follows ==
    ASSUME FollowInv
    PROVE  RecordFollows
  <1>1. Idle.pc = "idle" /\ "idle" # "link"
    BY DEF Idle
  <1>2. RecordTrue
    BY DEF FollowInv, Progress, RecordHolds, RecordTrue, SameFile
  <1>3. OneName
    <2>1. SUFFICES ASSUME row = NoRow, ~lost, NEW m \in Paths, NEW n \in Paths,
                          disk[m] # NoFile, ~disk[m].own, disk[m] = disk[n]
                   PROVE  m = n
      BY DEF OneName
    <2> QED  BY <2>1 DEF FollowInv, Distinct, Unedited
  <1>4. NoStaleSubtitle
    <2>1. SUFFICES ASSUME job = Idle, settled = "yes", ~lost, disk[arr.path] # NoFile,
                          ~disk[arr.path].own, disk[arr.path].ino # LegacySub
                   PROVE  record.path = arr.path /\ record.sub = disk[arr.path].ino
      BY DEF NoStaleSubtitle
    <2>2. arr.path \in Paths /\ Managed(arr.path) /\ RecordHolds /\ media = arr /\ job.pc \notin Moving
      BY <1>1, <2>1 DEF FollowInv, SidecarsType, WorldOK, Managed, Unedited, Progress, Moving
    <2>3. /\ record.file # 0 /\ record.sub = disk[arr.path].ino
          /\ arr.path \in Looks(RebaseInstallationPaths(record), arr) \cup RowNames
      BY <2>1, <2>2 DEF FollowInv, Tracked
    <2>4. record # NoRecord
      BY <2>3 DEF NoRecord
    <2>5. SameFile(record, arr) /\ record.mediaPath = arr.path
      BY <2>2, <2>3, <2>4 DEF RecordHolds
    <2>6. CASE row # NoRow
      BY <2>1, <2>2, <2>3, <2>6 DEF FollowInv, RowWaits
    <2>7. CASE row = NoRow
      <3>1. RebaseInstallationPaths(record) = record
        BY <2>2, NotRebased
      <3>2. Looks(record, arr) = {record.path}
        BY <2>5 DEF Looks, Rebased
      <3> QED  BY <2>3, <2>7, <3>1, <3>2 DEF RowNames
    <2> QED  BY <2>6, <2>7
  <1> QED  BY <1>2, <1>3, <1>4 DEF RecordFollows

\* The record and the subtitle follow the media file: after a search that
\* settled it the record is true of the current file, an unedited subtitle has
\* one name, and none that was installed for an earlier file is left untracked
\* beside it, whatever Arr, the owner, crashes and failed calls did before and
\* however many files, names and faults there are (ReconcileInstallation,
\* moveRenamedSidecar, settleReplaced, recoverPendingMove).
THEOREM RecordsFollow == Spec => []RecordFollows
  <1>1. Init => FollowInv
    BY FollowInit
  <1>2. FollowInv /\ [Next]_vars => FollowInv'
    BY FollowKept, PathsAssumption
  <1>3. FollowInv => RecordFollows
    BY Follows
  <1> QED  BY <1>1, <1>2, <1>3, PTL DEF Spec

-----------------------------------------------------------------------------
(* The catalog: induction over the steps of a transaction.  The library's   *)
(* induction theorems take an operator; the least element of a well-founded *)
(* relation (WFMin) gives the same for a set, and every induction below     *)
(* says that the set of the counts it holds for is Nat.                     *)

\* Induction over the natural numbers, for a set.
LEMMA NatSet ==
  ASSUME NEW S \in SUBSET Nat, 0 \in S, \A n \in S : n + 1 \in S
  PROVE  S = Nat
<1> DEFINE Less == {ss \in Nat \X Nat : ss[1] < ss[2]}
<1>1. SUFFICES ASSUME Nat \ S # {} PROVE FALSE
  OBVIOUS
<1>2. IsWellFoundedOn(Less, Nat)
  BY NatLessThanWellFounded, Zenon DEF OpToRel
<1>3. PICK x \in Nat \ S : \A y \in Nat \ S : ~(<<y, x>> \in Less)
  <2> HIDE DEF Less
  <2> QED
    BY <1>1, <1>2, WFMin, Zenon
<1>4. x # 0 /\ x - 1 \in Nat /\ <<x - 1, x>> \in Less
  BY <1>3
<1>5. x - 1 \in S
  BY <1>3, <1>4
<1> QED
  BY <1>3, <1>4, <1>5

\* f lists the tables of the transaction AppliedAll(t, s, skipped).
After(f, t, s, skipped) ==
  f = [n \in 0..Len(s) |->
            IF n = 0 THEN t
            ELSE IF s[n].id \in skipped THEN f[n - 1]
                 ELSE Applied(f[n - 1], s[n])]

\* A transaction exists for any mutations, and ends where its last step does.
LEMMA AfterExists ==
  ASSUME NEW t, NEW s, NEW skipped, Len(s) \in Nat
  PROVE  \E f : After(f, t, s, skipped) /\ AppliedAll(t, s, skipped) = f[Len(s)]
<1> DEFINE Upto(f, n) ==
             f = [i \in 0..n |->
                    IF i = 0 THEN t
                    ELSE IF s[i].id \in skipped THEN f[i - 1]
                         ELSE Applied(f[i - 1], s[i])]
           Done == {n \in Nat : \E f : Upto(f, n)}
<1>1. 0 \in Done
  <2>1. Upto([i \in 0..0 |-> t], 0)
    OBVIOUS
  <2> QED
    BY <2>1
<1>2. ASSUME NEW n \in Done PROVE n + 1 \in Done
  <2>1. PICK f : Upto(f, n)
    BY <1>2
  <2> DEFINE next == IF s[n + 1].id \in skipped THEN f[n] ELSE Applied(f[n], s[n + 1])
             g == [i \in 0..(n + 1) |-> IF i = n + 1 THEN next ELSE f[i]]
  <2> HIDE DEF next
  <2>2. ASSUME NEW i \in 0..(n + 1)
        PROVE  g[i] = IF i = 0 THEN t
                      ELSE IF s[i].id \in skipped THEN g[i - 1]
                           ELSE Applied(g[i - 1], s[i])
    <3>1. CASE i = n + 1
      <4>1. g[i] = next /\ g[i - 1] = f[n]
        BY <3>1
      <4> QED
        BY <3>1, <4>1 DEF next
    <3>2. CASE i # n + 1
      <4>1. i \in 0..n /\ g[i] = f[i] /\ (i # 0 => g[i - 1] = f[i - 1])
        BY <3>2
      <4>2. f[i] = IF i = 0 THEN t
                   ELSE IF s[i].id \in skipped THEN f[i - 1]
                        ELSE Applied(f[i - 1], s[i])
        BY <2>1, <4>1
      <4> QED
        BY <4>1, <4>2
    <3> QED
      BY <3>1, <3>2
  <2>3. Upto(g, n + 1)
    BY <2>2
  <2>4. n + 1 \in Nat
    OBVIOUS
  <2> HIDE DEF g, Upto
  <2> QED
    BY <2>3, <2>4
<1>3. Len(s) \in Done
  <2> HIDE DEF Done
  <2> QED
    BY <1>1, <1>2, NatSet DEF Done
<1>4. \E f : After(f, t, s, skipped)
  BY <1>3 DEF After
<1> QED
  BY <1>4 DEF AppliedAll, After

\* What holds of the table at the start and is kept by every mutation that is
\* applied holds of the table a transaction leaves: T[n] is the set of tables
\* that are possible after n mutations.
LEMMA Transaction ==
  ASSUME NEW t, NEW s, NEW skipped, Len(s) \in Nat, NEW T, t \in T[0],
         \A n \in 1..Len(s) : \A u \in T[n - 1] :
            IF s[n].id \in skipped THEN u \in T[n] ELSE Applied(u, s[n]) \in T[n]
  PROVE  AppliedAll(t, s, skipped) \in T[Len(s)]
<1>1. PICK f : After(f, t, s, skipped) /\ AppliedAll(t, s, skipped) = f[Len(s)]
  BY AfterExists
<1> DEFINE Good == {n \in Nat : n <= Len(s) => f[n] \in T[n]}
<1>2. 0 \in Good
  BY <1>1 DEF After
<1>3. ASSUME NEW n \in Good PROVE n + 1 \in Good
  <2> SUFFICES ASSUME n + 1 <= Len(s) PROVE f[n + 1] \in T[n + 1]
    OBVIOUS
  <2>1. n + 1 \in 1..Len(s) /\ (n + 1) - 1 = n /\ f[n] \in T[n]
    BY <1>3
  <2>2. f[n + 1] = IF s[n + 1].id \in skipped THEN f[n] ELSE Applied(f[n], s[n + 1])
    BY <1>1, <2>1 DEF After
  <2> QED
    BY <2>1, <2>2
<1>4. Len(s) \in Good
  <2> HIDE DEF Good
  <2> QED
    BY <1>2, <1>3, NatSet DEF Good
<1> QED
  BY <1>1, <1>4

-----------------------------------------------------------------------------
(* What one mutation does to the table *)

Row == [file : Nat, path : Nat, deleted : BOOLEAN, deletedAt : Nat,
        entityDeletedAt : Nat, updatedAt : Nat]

TablesOver(ids) == [rows : [Entities -> Row], events : SUBSET ids, asked : SUBSET Nat]

IsTable(t) == t \in TablesOver(t.events) /\ IsFiniteSet(t.events)

\* What a mutation the program makes looks like.
IsMutation(m) ==
  /\ m.at \in Nat
  /\ m.type = "import" => m.entity \in Entities /\ m.file \in Nat \ {0} /\ m.path \in Nat

Searched(t) == \A e \in Entities : Active(t, e) => t.rows[e].file \in t.asked

\* The file of a row of u is the one it has in t, or the one m imports.
FilesFrom(u, t, m) ==
  \A e \in Entities :
     \/ u.rows[e].file = t.rows[e].file
     \/ m.type = "import" /\ m.entity = e /\ u.rows[e].file = m.file

LEMMA LargerNat ==
  ASSUME NEW a \in Nat, NEW b \in Nat
  PROVE  Larger(a, b) \in Nat
BY DEF Larger

LEMMA RecordedTable ==
  ASSUME NEW t, IsTable(t), NEW id
  PROVE  /\ IsTable(Recorded(t, id))
         /\ Recorded(t, id).rows = t.rows
         /\ Recorded(t, id).asked = t.asked
         /\ Recorded(t, id).events = t.events \cup {id}
<1>1. /\ Recorded(t, id).rows = t.rows
      /\ Recorded(t, id).asked = t.asked
      /\ Recorded(t, id).events = t.events \cup {id}
      /\ Recorded(t, id) = [rows |-> t.rows, events |-> t.events \cup {id}, asked |-> t.asked]
  BY DEF Recorded, IsTable, TablesOver
<1>2. IsFiniteSet(t.events \cup {id})
  BY FS_AddElement DEF IsTable
<1>3. Recorded(t, id) \in TablesOver(t.events \cup {id})
  BY <1>1 DEF IsTable, TablesOver
<1> QED
  BY <1>1, <1>2, <1>3 DEF IsTable

LEMMA ImportedTable ==
  ASSUME NEW t, IsTable(t), NEW m, IsMutation(m), m.type = "import"
  PROVE  /\ IsTable(Imported(t, m))
         /\ Imported(t, m).events = t.events
         /\ Imported(t, m).asked = IF ReplayOfApplied(t, m) THEN t.asked ELSE t.asked \cup {m.file}
         /\ \A e \in Entities \ {m.entity} : Imported(t, m).rows[e] = t.rows[e]
         /\ Imported(t, m).rows[m.entity] = ImportedRow(t.rows[m.entity], m)
         /\ Imported(t, m).rows[m.entity].file = m.file
<1> DEFINE entry == ImportedRow(t.rows[m.entity], m)
           rows == [t.rows EXCEPT ![m.entity] = entry]
           asked == IF ReplayOfApplied(t, m) THEN t.asked ELSE t.asked \cup {m.file}
<1>1. t.rows \in [Entities -> Row] /\ t.asked \in SUBSET Nat /\ t.rows[m.entity] \in Row
  BY DEF IsTable, TablesOver, IsMutation
<1>2. entry \in Row /\ entry.file = m.file
  <2>1. Larger(t.rows[m.entity].updatedAt, m.at) \in Nat
    BY <1>1, LargerNat DEF IsMutation, Row
  <2> QED
    BY <1>1, <2>1 DEF IsMutation, Row, ImportedRow
<1>3. asked \in SUBSET Nat
  BY <1>1 DEF IsMutation
<1>4. Imported(t, m) = [rows |-> rows, events |-> t.events, asked |-> asked]
  <2>1. t = [rows |-> t.rows, events |-> t.events, asked |-> t.asked]
    BY DEF IsTable, TablesOver
  <2>2. Imported(t, m) = [t EXCEPT !.rows = rows, !.asked = asked]
    BY <1>1, <2>1 DEF Imported
  <2> HIDE DEF rows, asked
  <2> QED
    BY <2>1, <2>2
<1> HIDE DEF entry
<1>5. rows \in [Entities -> Row] /\ rows[m.entity] = entry /\ \A e \in Entities \ {m.entity} : rows[e] = t.rows[e]
  BY <1>1, <1>2 DEF IsMutation
<1> HIDE DEF rows, asked
<1>6. IsTable(Imported(t, m))
  BY <1>3, <1>4, <1>5 DEF IsTable, TablesOver
<1>7. Imported(t, m).rows = rows /\ Imported(t, m).events = t.events /\ Imported(t, m).asked = asked
  BY <1>4
<1> QED
  BY <1>2, <1>5, <1>6, <1>7 DEF entry, asked

LEMMA DeletedRowType ==
  ASSUME NEW entry \in Row, NEW at \in Nat, NEW whole \in BOOLEAN
  PROVE  /\ DeletedRow(entry, at, whole) \in Row
         /\ DeletedRow(entry, at, whole).file = entry.file
         /\ DeletedRow(entry, at, whole).deleted
<1> DEFINE entityAt == IF whole THEN at ELSE 0
<1>1. /\ Larger(entry.deletedAt, at) \in Nat /\ Larger(entry.entityDeletedAt, entityAt) \in Nat
      /\ Larger(entry.updatedAt, at) \in Nat /\ entityAt \in Nat
  BY LargerNat DEF Row
<1> QED
  BY <1>1 DEF DeletedRow, Row

\* The events a deletion records.
Deletions(t, m) ==
  {m.id} \cup IF m.type = "deleteIdentity" THEN {<<"episode", m.id, e>> : e \in Hit(t, m)} ELSE {}

LEMMA DeleteTable ==
  ASSUME NEW t, IsTable(t), NEW m, IsMutation(m)
  PROVE  /\ IsTable(DeleteApplied(t, m))
         /\ DeleteApplied(t, m).events = t.events \cup Deletions(t, m)
         /\ DeleteApplied(t, m).asked = t.asked
         /\ \A e \in Entities : DeleteApplied(t, m).rows[e] =
               IF e \in Hit(t, m) THEN DeletedRow(t.rows[e], m.at, m.type # "deleteFile")
               ELSE t.rows[e]
         /\ \A e \in Entities : DeleteApplied(t, m).rows[e].file = t.rows[e].file
         /\ \A e \in Entities : Active(DeleteApplied(t, m), e) => Active(t, e)
<1> DEFINE rows == [e \in Entities |->
                      IF e \in Hit(t, m) THEN DeletedRow(t.rows[e], m.at, m.type # "deleteFile")
                      ELSE t.rows[e]]
           events == t.events \cup Deletions(t, m)
<1>1. t.rows \in [Entities -> Row] /\ t.asked \in SUBSET Nat
  BY DEF IsTable, TablesOver
<1>2. ASSUME NEW e \in Entities
      PROVE  /\ rows[e] \in Row /\ rows[e].file = t.rows[e].file
             /\ ~rows[e].deleted => ~t.rows[e].deleted
  <2>1. t.rows[e] \in Row /\ m.at \in Nat /\ (m.type # "deleteFile") \in BOOLEAN
    BY <1>1 DEF IsMutation
  <2> QED
    BY <2>1, DeletedRowType, Zenon
<1>3. IsFiniteSet(events)
  <2>1. IsFiniteSet(Hit(t, m))
    BY CatalogAssumption, FS_Subset DEF Hit
  <2> DEFINE children == {<<"episode", m.id, e>> : e \in Hit(t, m)}
             child == [e \in Hit(t, m) |-> <<"episode", m.id, e>>]
  <2>2. child \in Surjection(Hit(t, m), children)
    BY DEF Surjection
  <2>3. IsFiniteSet(children)
    <3> HIDE DEF child, children
    <3> QED
      BY <2>1, <2>2, FS_Surjection
  <2>4. IsFiniteSet(Deletions(t, m))
    <3>1. Deletions(t, m) = {m.id} \cup children \/ Deletions(t, m) = {m.id}
      BY DEF Deletions
    <3>2. IsFiniteSet({m.id})
      BY FS_Singleton
    <3> HIDE DEF children
    <3> QED
      BY <2>3, <3>1, <3>2, FS_Union
  <2> QED
    BY <2>4, FS_Union DEF IsTable
<1>4. DeleteApplied(t, m) = [rows |-> rows, events |-> events, asked |-> t.asked]
  <2>1. t = [rows |-> t.rows, events |-> t.events, asked |-> t.asked]
    BY DEF IsTable, TablesOver
  <2>2. DeleteApplied(t, m) = [t EXCEPT !.rows = rows, !.events = events]
    BY <2>1 DEF DeleteApplied, Deletions
  <2> HIDE DEF rows, events
  <2> QED
    BY <2>1, <2>2
<1>5. rows \in [Entities -> Row]
  BY <1>2
<1>6. \A e \in Entities : rows[e] = IF e \in Hit(t, m) THEN DeletedRow(t.rows[e], m.at, m.type # "deleteFile")
                                    ELSE t.rows[e]
  OBVIOUS
<1> HIDE DEF rows, events
<1>7. /\ DeleteApplied(t, m).rows = rows /\ DeleteApplied(t, m).events = events
      /\ DeleteApplied(t, m).asked = t.asked
  BY <1>4
<1>8. IsTable(DeleteApplied(t, m))
  BY <1>1, <1>3, <1>4, <1>5, <1>7 DEF IsTable, TablesOver
<1> QED
  BY <1>2, <1>6, <1>7, <1>8 DEF Active, Known, events

\* One mutation: the table stays one, events are only added and are added
\* whenever anything changes, a file is the old one or the imported one, and
\* every active file still had its searches opened.
LEMMA AppliedTable ==
  ASSUME NEW t, IsTable(t), NEW m, IsMutation(m)
  PROVE  /\ IsTable(Applied(t, m))
         /\ t.events \subseteq Applied(t, m).events
         /\ Applied(t, m) = t \/ m.id \in Applied(t, m).events \ t.events
         /\ Applied(t, m).events \subseteq t.events \cup {m.id} \cup {<<"episode", m.id, e>> : e \in Entities}
         /\ FilesFrom(Applied(t, m), t, m)
         /\ Searched(t) => Searched(Applied(t, m))
<1>1. CASE ~FirstTime(t, m)
  BY <1>1 DEF Applied, FilesFrom
<1>2. CASE FirstTime(t, m) /\ m.type = "import" /\ DeletedAfter(t, m)
  BY <1>2, RecordedTable DEF Applied, FilesFrom, FirstTime, Searched, Active, Known
<1>3. CASE FirstTime(t, m) /\ m.type = "import" /\ ~DeletedAfter(t, m)
  <2> DEFINE r == Recorded(t, m.id)
             u == Imported(r, m)
  <2>1. Applied(t, m) = u
    BY <1>3 DEF Applied
  <2>2. IsTable(r) /\ r.rows = t.rows /\ r.asked = t.asked /\ r.events = t.events \cup {m.id}
    BY RecordedTable
  <2> HIDE DEF r
  <2>3. /\ IsTable(u) /\ u.events = r.events
        /\ u.asked = IF ReplayOfApplied(r, m) THEN r.asked ELSE r.asked \cup {m.file}
        /\ \A e \in Entities \ {m.entity} : u.rows[e] = r.rows[e]
        /\ u.rows[m.entity].file = m.file
    BY <1>3, <2>2, ImportedTable
  <2> HIDE DEF u
  <2>4. FilesFrom(u, t, m)
    BY <1>3, <2>2, <2>3 DEF FilesFrom
  <2>5. ASSUME Searched(t), NEW e \in Entities, Active(u, e) PROVE u.rows[e].file \in u.asked
    <3>1. CASE e # m.entity
      BY <2>2, <2>3, <2>5, <3>1 DEF Searched, Active, Known
    <3>2. CASE e = m.entity
      BY <2>2, <2>3, <2>5, <3>2 DEF Searched, Active, Known, ReplayOfApplied
    <3> QED
      BY <3>1, <3>2
  <2> QED
    BY <1>3, <2>1, <2>2, <2>3, <2>4, <2>5 DEF Searched, FirstTime
<1>4. CASE FirstTime(t, m) /\ m.type # "import"
  <2>1. Applied(t, m) = DeleteApplied(t, m)
    BY <1>4 DEF Applied
  <2>2. Hit(t, m) \subseteq Entities
    BY DEF Hit
  <2>3. Deletions(t, m) \subseteq {m.id} \cup {<<"episode", m.id, e>> : e \in Entities} /\ m.id \in Deletions(t, m)
    BY <2>2 DEF Deletions
  <2> QED
    BY <1>4, <2>1, <2>3, DeleteTable DEF FirstTime, FilesFrom, Searched
<1> QED
  BY <1>1, <1>2, <1>3, <1>4

\* What the mutations of a transaction s may leave of the table t.
PageOf(u, t, s) ==
  /\ IsTable(u) /\ Searched(u)
  /\ t.events \subseteq u.events
  /\ u = t \/ u.events # t.events
  /\ \A e \in Entities :
        \/ u.rows[e].file = t.rows[e].file
        \/ \E i \in 1..Len(s) : s[i].type = "import" /\ s[i].entity = e /\ u.rows[e].file = s[i].file

LEMMA PageApplied ==
  ASSUME NEW t, IsTable(t), Searched(t), NEW s, Len(s) \in Nat, NEW skipped,
         \A i \in 1..Len(s) : IsMutation(s[i])
  PROVE  PageOf(AppliedAll(t, s, skipped), t, s)
<1> DEFINE ids == t.events \cup {s[i].id : i \in 1..Len(s)}
                    \cup {<<"episode", s[i].id, e>> : i \in 1..Len(s), e \in Entities}
           Pages == {u \in TablesOver(ids) : PageOf(u, t, s)}
           T == [n \in 0..Len(s) |-> Pages]
<1>1. t \in T[0]
  <2>1. t \in TablesOver(ids)
    BY DEF IsTable, TablesOver
  <2> QED
    BY <2>1 DEF PageOf
<1>2. ASSUME NEW n \in 1..Len(s), NEW u \in T[n - 1]
      PROVE  u \in T[n] /\ Applied(u, s[n]) \in T[n]
  <2> DEFINE v == Applied(u, s[n])
  <2>1. n \in 0..Len(s) /\ n - 1 \in 0..Len(s) /\ u \in TablesOver(ids) /\ PageOf(u, t, s)
    BY <1>2
  <2>2. IsTable(u) /\ Searched(u) /\ IsMutation(s[n])
    BY <2>1 DEF PageOf
  <2>3. /\ IsTable(v) /\ u.events \subseteq v.events /\ Searched(v)
        /\ v = u \/ s[n].id \in v.events \ u.events
        /\ v.events \subseteq u.events \cup {s[n].id} \cup {<<"episode", s[n].id, e>> : e \in Entities}
        /\ FilesFrom(v, u, s[n])
    BY <2>2, AppliedTable
  <2> HIDE DEF v
  <2>4. PageOf(v, t, s)
    <3>1. t.events \subseteq v.events /\ (v = t \/ v.events # t.events)
      BY <2>1, <2>3 DEF PageOf
    <3>2. ASSUME NEW e \in Entities
          PROVE  \/ v.rows[e].file = t.rows[e].file
                 \/ \E i \in 1..Len(s) : s[i].type = "import" /\ s[i].entity = e /\ v.rows[e].file = s[i].file
      BY <2>1, <2>3 DEF PageOf, FilesFrom
    <3> QED
      BY <2>3, <3>1, <3>2 DEF PageOf
  <2>5. v.events \subseteq ids
    <3>1. u.events \subseteq ids
      BY <2>1 DEF TablesOver
    <3> QED
      BY <2>3, <3>1
  <2>6. v \in TablesOver(ids)
    <3> HIDE DEF ids
    <3> QED
      BY <2>3, <2>5 DEF IsTable, TablesOver
  <2> HIDE DEF ids
  <2> QED
    BY <2>1, <2>4, <2>6 DEF v
<1>3. AppliedAll(t, s, skipped) \in T[Len(s)]
  <2> HIDE DEF T
  <2> QED
    BY <1>1, <1>2, Transaction
<1> QED
  BY <1>3

-----------------------------------------------------------------------------
(* The inductive invariant *)

Media == [file : Nat, path : Nat]

Hooks == [type : {"import", "rename", "delete"}, entity : Entities, file : Nat, path : Nat]
           \cup [type : {"remove"}, identity : Identities]

Items == [hook : Hooks, at : Nat, attempt : Nat]

\* A file Arr held for e at some time: Arr replaces a file by later ones only.
Held(e, f) == f <= now /\ (library[e].file # 0 => f <= library[e].file)

ArrSound ==
  /\ now \in Nat
  /\ library \in [Entities -> Media]
  /\ \A e \in Entities : library[e].file <= now
  /\ history \in SUBSET (Entities \X Nat) /\ IsFiniteSet(history)
  /\ sent \in SUBSET Hooks
  /\ inbox \in Seq(Items)

TableSound == IsTable(table) /\ \A e \in Entities : Held(e, table.rows[e].file)

\* A mutation read from Arr.
Timely(m) == IsMutation(m) /\ (m.type = "import" => Held(m.entity, m.file))

HandlerSound ==
  \/ handler = Resting
  \/ /\ handler = [phase |-> handler.phase, item |-> handler.item, mutation |-> handler.mutation]
     /\ handler.phase \in {"apply", "done"}
     /\ handler.phase = "apply" => Timely(handler.mutation)

ListedSound ==
  run.phase = "listed" =>
     /\ DOMAIN run.items \subseteq Entities
     /\ \A e \in DOMAIN run.items :
           run.items[e] \in Media /\ run.items[e].file # 0 /\ Held(e, run.items[e].file)

WindowSound ==
  /\ run.phase = "window" => run.latest \in SUBSET (Entities \X Nat) /\ IsFiniteSet(run.latest)
  /\ run.phase \in {"window", "changes", "commit"} =>
        run.revision \in Nat /\ run.revision <= Revision(table) /\ run.pageEnd \in Nat

\* Nothing was applied since the page was begun, or the files it imports are
\* not older than the table's.
Current(m) ==
  Revision(table) = run.revision /\ m.type = "import" => table.rows[m.entity].file <= m.file

ChangesSound ==
  run.phase \in {"changes", "commit"} =>
     /\ IsFiniteSet(run.changes)
     /\ \A m \in run.changes : Timely(m) /\ Current(m)

CatalogInv ==
  /\ ArrSound /\ TableSound /\ HandlerSound
  /\ ListedSound /\ WindowSound /\ ChangesSound
  /\ FilesSearched

LEMMA CatalogInitSound == CatalogInit => CatalogInv
<1> SUFFICES ASSUME CatalogInit PROVE CatalogInv
  OBVIOUS
<1> USE DEF CatalogInit
<1>1. ArrSound
  BY FS_EmptySet DEF ArrSound, Empty, Media
<1>2. IsTable(table)
  BY FS_EmptySet DEF EmptyTable, IsTable, TablesOver, Row, UnknownMedia
<1>3. TableSound
  BY <1>2 DEF TableSound, Held, EmptyTable, UnknownMedia, Empty
<1>4. HandlerSound
  BY DEF HandlerSound
<1>5. ListedSound /\ WindowSound /\ ChangesSound
  BY DEF ListedSound, WindowSound, ChangesSound, Resting
<1>6. FilesSearched
  BY DEF FilesSearched, Active, Known, EmptyTable, UnknownMedia
<1> QED
  BY <1>1, <1>3, <1>4, <1>5, <1>6 DEF CatalogInv

\* When Arr moves on, what it held once stays what it held once.
LEMMA ArrMovesOn ==
  ASSUME CatalogInv, ArrSound', UNCHANGED <<table, handler, run>>,
         \A e \in Entities, f \in Nat : Held(e, f) => Held(e, f)'
  PROVE  CatalogInv'
<1> USE DEF CatalogInv
<1>1. TableSound'
  BY DEF TableSound, IsTable, TablesOver, Row
<1>2. ASSUME NEW m, Timely(m) PROVE Timely(m)'
  BY <1>2 DEF Timely, IsMutation
<1>3. HandlerSound'
  BY <1>2 DEF HandlerSound
<1>4. ListedSound' /\ WindowSound'
  BY DEF ListedSound, WindowSound, Media
<1>5. ChangesSound'
  BY <1>2 DEF ChangesSound, Current
<1>6. FilesSearched'
  BY DEF FilesSearched
<1> QED
  BY <1>1, <1>3, <1>4, <1>5, <1>6

LEMMA HistoryGrows ==
  ASSUME ArrSound, NEW e \in Entities, history' = history \cup {<<e, now + 1>>}
  PROVE  history' \in SUBSET (Entities \X Nat) /\ IsFiniteSet(history')
<1>1. IsFiniteSet(history \cup {<<e, now + 1>>})
  BY FS_AddElement DEF ArrSound
<1> QED
  BY <1>1 DEF ArrSound

LEMMA ArrSteps == CatalogInv /\ Arr => CatalogInv'
<1> SUFFICES ASSUME CatalogInv, Arr PROVE CatalogInv'
  OBVIOUS
<1> USE DEF CatalogInv, ArrSound
<1>0. FilePaths \subseteq Nat
  BY CatalogAssumption
<1>1. ASSUME NEW e \in Entities, NEW p \in FilePaths, ArrImport(e, p) PROVE CatalogInv'
  <2> USE <1>1 DEF ArrImport, Changed
  <2>1. /\ now' = now + 1 /\ UNCHANGED <<table, handler, run, inbox>>
        /\ library' = [library EXCEPT ![e] = [file |-> now + 1, path |-> p]]
    BY DEF inboxVars, storeVars
  <2>2. library' \in [Entities -> Media]
    BY <1>0, <2>1 DEF Media
  <2>3. \A x \in Entities : library'[x].file <= now' /\ (x # e => library'[x] = library[x]) /\ library'[e].file = now'
    BY <2>1 DEF Media
  <2>4. history' \in SUBSET (Entities \X Nat) /\ IsFiniteSet(history')
    BY HistoryGrows
  <2>5. sent' \in SUBSET Hooks
    <3>1. Hook("import", e, now + 1, p) \in Hooks
      BY <1>0 DEF Hook, Hooks
    <3>2. \A f \in {library[e].file} \ {0} : Hook("delete", e, f, library[e].path) \in Hooks
      BY DEF Hook, Hooks, Media
    <3> QED
      BY <3>1, <3>2
  <2>6. ArrSound'
    BY <2>1, <2>2, <2>3, <2>4, <2>5
  <2>7. \A x \in Entities, f \in Nat : Held(x, f) => Held(x, f)'
    BY <2>1, <2>3 DEF Held
  <2> QED
    BY <2>1, <2>6, <2>7, ArrMovesOn
<1>2. ASSUME NEW e \in Entities, NEW p \in FilePaths, ArrRename(e, p) PROVE CatalogInv'
  <2> USE <1>2 DEF ArrRename, Changed
  <2>1. /\ now' = now + 1 /\ UNCHANGED <<table, handler, run, inbox>>
        /\ library' = [library EXCEPT ![e] = [library[e] EXCEPT !.path = p]]
    BY DEF inboxVars, storeVars
  <2>2. library' \in [Entities -> Media]
    BY <1>0, <2>1 DEF Media
  <2>3. \A x \in Entities : library'[x].file = library[x].file
    BY <2>1 DEF Media
  <2>4. history' \in SUBSET (Entities \X Nat) /\ IsFiniteSet(history')
    BY HistoryGrows
  <2>5. sent' \in SUBSET Hooks
    BY <1>0 DEF Hook, Hooks, Media
  <2>6. ArrSound'
    BY <2>1, <2>2, <2>3, <2>4, <2>5 DEF Media
  <2>7. \A x \in Entities, f \in Nat : Held(x, f) => Held(x, f)'
    BY <2>1, <2>3 DEF Held
  <2> QED
    BY <2>1, <2>6, <2>7, ArrMovesOn
<1>3. ASSUME NEW e \in Entities, ArrDeleteFile(e) PROVE CatalogInv'
  <2> USE <1>3 DEF ArrDeleteFile, Changed
  <2>1. /\ now' = now + 1 /\ UNCHANGED <<table, handler, run, inbox>>
        /\ library' = [library EXCEPT ![e] = Empty]
    BY DEF inboxVars, storeVars
  <2>2. library' \in [Entities -> Media]
    BY <2>1 DEF Media, Empty
  <2>3. \A x \in Entities : library'[x].file = library[x].file \/ library'[x].file = 0
    BY <2>1 DEF Media, Empty
  <2>4. history' \in SUBSET (Entities \X Nat) /\ IsFiniteSet(history')
    BY HistoryGrows
  <2>5. sent' \in SUBSET Hooks
    BY DEF Hook, Hooks, Media
  <2>6. ArrSound'
    BY <2>1, <2>2, <2>3, <2>4, <2>5 DEF Media
  <2>7. \A x \in Entities, f \in Nat : Held(x, f) => Held(x, f)'
    BY <2>1, <2>3 DEF Held
  <2> QED
    BY <2>1, <2>6, <2>7, ArrMovesOn
<1>4. ASSUME NEW i \in Identities, ArrRemove(i) PROVE CatalogInv'
  <2> USE <1>4 DEF ArrRemove
  <2>1. /\ now' = now + 1 /\ UNCHANGED <<table, handler, run, inbox>>
        /\ library' = [e \in Entities |-> IF IdentityOf[e] = i THEN Empty ELSE library[e]]
    BY DEF inboxVars, storeVars
  <2>2. library' \in [Entities -> Media]
    BY <2>1 DEF Media, Empty
  <2>3. \A x \in Entities : library'[x].file = library[x].file \/ library'[x].file = 0
    BY <2>1 DEF Media, Empty
  <2>4. history' \in SUBSET (Entities \X Nat) /\ IsFiniteSet(history')
    BY FS_Subset
  <2>5. sent' \in SUBSET Hooks
    BY DEF Hooks
  <2>6. ArrSound'
    BY <2>1, <2>2, <2>3, <2>4, <2>5 DEF Media
  <2>7. \A x \in Entities, f \in Nat : Held(x, f) => Held(x, f)'
    BY <2>1, <2>3 DEF Held
  <2> QED
    BY <2>1, <2>6, <2>7, ArrMovesOn
<1> QED
  BY <1>1, <1>2, <1>3, <1>4 DEF Arr

\* The mount and the webhooks on their way.
LEMMA WorldSteps ==
  ASSUME CatalogInv,
         MountLost \/ MountBack \/ \E h \in sent : HookLost(h) \/ Receive(h)
  PROVE  CatalogInv'
<1> USE DEF CatalogInv, ArrSound
<1>1. UNCHANGED <<now, library, history, table, handler, run>>
  BY DEF MountLost, MountBack, HookLost, Receive, arrVars, inboxVars, storeVars
<1>2. sent' \in SUBSET Hooks
  BY DEF MountLost, MountBack, HookLost, Receive, arrVars
<1>3. inbox' \in Seq(Items)
  <2>1. CASE \E h \in sent : Receive(h)
    <3>1. PICK h \in sent : Receive(h)
      BY <2>1
    <3>2. [hook |-> h, at |-> now, attempt |-> 0] \in Items
      BY DEF Items
    <3> QED
      BY <3>1, <3>2 DEF Receive
  <2> QED
    BY <2>1 DEF MountLost, MountBack, HookLost, inboxVars
<1>4. \A e \in Entities, f \in Nat : Held(e, f) => Held(e, f)'
  BY <1>1 DEF Held
<1>5. ArrSound'
  BY <1>1, <1>2, <1>3
<1> QED
  BY <1>1, <1>4, <1>5, ArrMovesOn

\* The inbox without one of its rows.
LEMMA WithoutRow ==
  ASSUME ArrSound, NEW n
  PROVE  Without(n) \in Seq(Items)
<1>1. CASE Len(inbox) # 0
  <2>1. Len(inbox) - 1 \in Nat /\ \A m \in 1..(Len(inbox) - 1) : (IF m < n THEN m ELSE m + 1) \in 1..Len(inbox)
    BY <1>1 DEF ArrSound
  <2>2. \A m \in 1..(Len(inbox) - 1) : inbox[IF m < n THEN m ELSE m + 1] \in Items
    BY <2>1 DEF ArrSound
  <2> QED
    BY <2>1, <2>2 DEF Without
<1>2. CASE Len(inbox) = 0
  <2>1. 1..(Len(inbox) - 1) = 1..0
    BY <1>2
  <2>2. Without(n) \in [1..0 -> Items]
    BY <2>1 DEF Without
  <2> QED
    BY <2>2
<1> QED
  BY <1>1, <1>2

\* Steps of the inbox and the reconciler that change neither table nor library.
LEMMA StoreKept ==
  ASSUME CatalogInv, UNCHANGED <<now, library, history, sent, table>>,
         inbox' \in Seq(Items), HandlerSound',
         (ListedSound /\ WindowSound /\ ChangesSound)'
  PROVE  CatalogInv'
<1>1. \A e \in Entities, f \in Nat : Held(e, f) => Held(e, f)'
  BY DEF Held
<1>2. ArrSound'
  BY DEF CatalogInv, ArrSound
<1>3. TableSound'
  BY <1>1 DEF CatalogInv, TableSound, IsTable, TablesOver, Row
<1> QED
  BY <1>2, <1>3 DEF CatalogInv, FilesSearched

\* The run stays as it is while the table does.
LEMMA RunKept ==
  ASSUME ListedSound, WindowSound, ChangesSound, UNCHANGED <<run, table, now, library>>
  PROVE  (ListedSound /\ WindowSound /\ ChangesSound)'
BY DEF ListedSound, WindowSound, ChangesSound, Held, Timely, Current

LEMMA HydratedMedia ==
  ASSUME ArrSound, NEW e \in Entities, Hydrated(e) = "present"
  PROVE  library[e] \in Media /\ library[e].file \in Nat \ {0} /\ Held(e, library[e].file)
BY DEF ArrSound, Hydrated, Held, Media

LEMMA HandleStep ==
  ASSUME CatalogInv, NEW n \in DOMAIN inbox, Handle(n)
  PROVE  CatalogInv'
<1> USE DEF CatalogInv
<1> DEFINE h == inbox[n].hook
<1>1. inbox[n] \in Items /\ UNCHANGED <<now, library, history, sent, table, inbox, run>>
  BY DEF Handle, ArrSound, world, arrVars, storeVars
<1>2. handler'.phase = "apply" => Timely(handler'.mutation)
  <2>1. CASE HookID(h) \in table.events
    BY <2>1 DEF Handle
  <2>2. CASE HookID(h) \notin table.events /\ h.type \in {"delete", "remove"}
    <3>1. handler'.mutation = Mutation(inbox[n], {})
      BY <2>2 DEF Handle
    <3>2. Mutation(inbox[n], {}).type # "import" /\ Mutation(inbox[n], {}).at \in Nat
      BY <1>1, <2>2 DEF Mutation, DeleteFile, DeleteTop, DeleteEntity, DeleteIdentity, Items
    <3> QED
      BY <3>1, <3>2 DEF Timely, IsMutation
  <2>3. CASE HookID(h) \notin table.events /\ h.type \notin {"delete", "remove"}
    <3> SUFFICES ASSUME handler'.phase = "apply" PROVE Timely(handler'.mutation)
      OBVIOUS
    <3>1. PICK e \in Holder(h) : Hydrated(e) = "present" /\ handler'.mutation = Mutation(inbox[n], e)
      BY <2>3 DEF Handle
    <3>2. e \in Entities /\ library[e] \in Media /\ library[e].file \in Nat \ {0} /\ Held(e, library[e].file)
      BY <3>1, HydratedMedia DEF Holder
    <3>3. Mutation(inbox[n], e) = Import(HookID(h), e, library[e], inbox[n].at, FALSE)
      BY <2>3 DEF Mutation
    <3>4. Timely(Import(HookID(h), e, library[e], inbox[n].at, FALSE))
      BY <1>1, <3>2 DEF Timely, IsMutation, Import, Items, Media
    <3> QED
      BY <1>1, <3>1, <3>3, <3>4
  <2> QED
    BY <2>1, <2>2, <2>3
<1>3. HandlerSound'
  <2>1. /\ handler' = [phase |-> handler'.phase, item |-> handler'.item, mutation |-> handler'.mutation]
        /\ handler'.phase \in {"apply", "done"}
    BY DEF Handle
  <2>2. \A m : Timely(m) => Timely(m)'
    BY <1>1 DEF Timely, Held
  <2> QED
    BY <1>2, <2>1, <2>2 DEF HandlerSound
<1> QED
  BY <1>1, <1>3, RunKept, StoreKept DEF ArrSound

LEMMA OneMoreAttempt ==
  ASSUME NEW item \in Items
  PROVE  [item EXCEPT !.attempt = @ + 1] \in Items
BY DEF Items

LEMMA InboxSteps ==
  ASSUME CatalogInv, (\E n \in DOMAIN inbox : HandleFails(n)) \/ DeleteWebhook
  PROVE  CatalogInv'
<1> USE DEF CatalogInv
<1>1. UNCHANGED <<now, library, history, sent, table, run>>
  BY DEF HandleFails, DeleteWebhook, world, arrVars, storeVars
<1>2. inbox' \in Seq(Items)
  <2>1. CASE DeleteWebhook
    BY <2>1, WithoutRow DEF DeleteWebhook
  <2>2. ASSUME NEW n \in DOMAIN inbox, HandleFails(n) PROVE inbox' \in Seq(Items)
    <3>1. inbox \in Seq(Items) /\ inbox[n] \in Items
      BY <2>2 DEF ArrSound
    <3>2. [inbox EXCEPT ![n].attempt = @ + 1] \in Seq(Items)
      <4> DEFINE item == [inbox[n] EXCEPT !.attempt = @ + 1]
      <4>1. item \in Items
        BY <3>1, OneMoreAttempt
      <4>2. [inbox EXCEPT ![n].attempt = @ + 1] = [inbox EXCEPT ![n] = item]
        OBVIOUS
      <4> HIDE DEF item
      <4> QED
        BY <3>1, <4>1, <4>2
    <3> QED
      BY <2>2, <3>2, WithoutRow DEF HandleFails
  <2> QED
    BY <2>1, <2>2
<1>3. HandlerSound'
  <2>1. \A m : Timely(m) => Timely(m)'
    BY <1>1 DEF Timely, Held
  <2> QED
    BY <2>1 DEF HandleFails, DeleteWebhook, HandlerSound
<1> QED
  BY <1>1, <1>2, <1>3, RunKept, StoreKept

-----------------------------------------------------------------------------
(* Steps that change the table *)

\* Events only ever grow, so a revision that is as it was read means that
\* nothing was applied since.
LEMMA RevisionGrows ==
  ASSUME NEW t, NEW u, IsTable(t), IsTable(u), t.events \subseteq u.events
  PROVE  /\ Revision(t) \in Nat /\ Revision(u) \in Nat
         /\ Revision(t) <= Revision(u)
         /\ t.events # u.events => Revision(t) < Revision(u)
<1>1. IsFiniteSet(t.events) /\ IsFiniteSet(u.events)
  BY DEF IsTable
<1>2. Cardinality(t.events) \in Nat /\ Cardinality(u.events) \in Nat
  BY <1>1, FS_CardinalityType
<1>3. Cardinality(t.events) <= Cardinality(u.events) /\ (Cardinality(t.events) = Cardinality(u.events) => t.events = u.events)
  BY <1>1, FS_Subset
<1> QED
  BY <1>2, <1>3 DEF Revision

\* A step that leaves a later table whose files Arr held keeps the invariant.
LEMMA TableMoves ==
  ASSUME CatalogInv, UNCHANGED <<now, library, history, sent, inbox>>,
         IsTable(table'), Searched(table'), HandlerSound',
         table.events \subseteq table'.events, table' = table \/ table'.events # table.events,
         \A e \in Entities : Held(e, table'.rows[e].file),
         run' = run \/ run'.phase \in {"idle", "ready"}
  PROVE  CatalogInv'
<1> USE DEF CatalogInv
<1>1. ArrSound'
  BY DEF ArrSound
<1>2. TableSound' /\ FilesSearched'
  BY DEF TableSound, Held, FilesSearched, Searched
<1>3. /\ Revision(table) \in Nat /\ Revision(table') \in Nat /\ Revision(table) <= Revision(table')
      /\ table' = table \/ Revision(table) < Revision(table')
  BY RevisionGrows DEF TableSound
<1>4. (ListedSound /\ WindowSound /\ ChangesSound)'
  <2>1. CASE run' = run
    <3>1. ListedSound'
      BY <2>1 DEF ListedSound, Held
    <3>2. WindowSound'
      BY <1>3, <2>1 DEF WindowSound
    <3>3. ASSUME run.phase \in {"changes", "commit"}, NEW m \in run.changes
          PROVE  Timely(m)' /\ Current(m)'
      <4>1. Timely(m)'
        BY <3>3 DEF ChangesSound, Timely, Held
      <4>2. Current(m) /\ run.revision \in Nat /\ run.revision <= Revision(table)
        BY <3>3 DEF ChangesSound, WindowSound
      <4>3. Current(m)'
        BY <1>3, <2>1, <4>2 DEF Current
      <4> QED
        BY <4>1, <4>3
    <3> QED
      BY <2>1, <3>1, <3>2, <3>3 DEF ChangesSound
  <2>2. CASE run'.phase \in {"idle", "ready"}
    BY <2>2 DEF ListedSound, WindowSound, ChangesSound
  <2> QED
    BY <2>1, <2>2
<1> QED
  BY <1>1, <1>2, <1>4

LEMMA ApplyStep ==
  ASSUME CatalogInv, ApplyEvent
  PROVE  CatalogInv' /\ handler' # handler
<1> USE DEF CatalogInv
<1> DEFINE m == handler.mutation
<1>1. /\ UNCHANGED <<now, library, history, sent, inbox, run>>
      /\ handler.phase = "apply" /\ handler' = [handler EXCEPT !.phase = "done"]
      /\ table' = EventApplied(table, m)
  BY DEF ApplyEvent, world, arrVars
<1>2. /\ handler = [phase |-> handler.phase, item |-> handler.item, mutation |-> m]
      /\ Timely(m)
  BY <1>1 DEF HandlerSound, Resting
<1>3. HandlerSound' /\ handler' # handler
  <2>1. handler' = [phase |-> "done", item |-> handler.item, mutation |-> m]
    BY <1>1, <1>2
  <2>2. handler'.phase = "done" /\ handler'.item = handler.item /\ handler'.mutation = m
    BY <2>1
  <2> QED
    BY <1>1, <2>1, <2>2 DEF HandlerSound
<1>4. /\ IsTable(table') /\ Searched(table') /\ table.events \subseteq table'.events
      /\ table' = table \/ table'.events # table.events
      /\ FilesFrom(table', table, m)
  <2>1. IsTable(table) /\ Searched(table) /\ IsMutation(m)
    BY <1>2 DEF TableSound, Timely, FilesSearched, Searched
  <2>2. CASE table' = table
    BY <2>1, <2>2 DEF FilesFrom
  <2>3. CASE table' = Applied(table, m)
    BY <2>1, <2>3, AppliedTable
  <2> QED
    BY <1>1, <2>2, <2>3 DEF EventApplied
<1>5. \A e \in Entities : Held(e, table'.rows[e].file)
  BY <1>2, <1>4 DEF FilesFrom, Timely, TableSound
<1> QED
  BY <1>1, <1>3, <1>4, <1>5, TableMoves

-----------------------------------------------------------------------------
(* The reconciler *)

\* The steps that begin or end a run without a commit.
LEMMA RunEnds ==
  ASSUME CatalogInv, StartRun \/ RunFails \/ Crash
  PROVE  CatalogInv'
<1> USE DEF CatalogInv
<1>1. UNCHANGED <<now, library, history, sent, table, inbox>>
  BY DEF StartRun, RunFails, Crash, world, arrVars, storeVars, inboxVars
<1>2. run'.phase \in {"idle", "ready", "discover"}
  BY DEF StartRun, RunFails, Crash, Resting
<1>3. HandlerSound'
  <2>1. \A m : Timely(m) => Timely(m)'
    BY <1>1 DEF Timely, Held
  <2>2. handler' = handler \/ handler' = Resting
    BY DEF StartRun, RunFails, Crash, inboxVars
  <2> QED
    BY <2>1, <2>2 DEF HandlerSound
<1>4. (ListedSound /\ WindowSound /\ ChangesSound)'
  BY <1>2 DEF ListedSound, WindowSound, ChangesSound
<1> QED
  BY <1>1, <1>3, <1>4, StoreKept DEF ArrSound

LEMMA HandlerKept ==
  ASSUME HandlerSound, UNCHANGED <<handler, now, library>>
  PROVE  HandlerSound'
<1>1. \A m : Timely(m) => Timely(m)'
  BY DEF Timely, Held
<1> QED
  BY <1>1 DEF HandlerSound

LEMMA ListStep ==
  ASSUME CatalogInv, ListLibrary
  PROVE  CatalogInv'
<1> USE DEF CatalogInv
<1>1. UNCHANGED <<now, library, history, sent, table, inbox, handler>>
  BY DEF ListLibrary, world, arrVars, storeVars, inboxVars
<1> DEFINE present == {x \in Entities : Hydrated(x) = "present"}
<1>2. run'.phase = "listed" /\ run'.items = [e \in present |-> library[e]]
  BY DEF ListLibrary
<1>3. \A e \in present : library[e] \in Media /\ library[e].file # 0 /\ Held(e, library[e].file)
  BY HydratedMedia
<1>4. ListedSound'
  <2> HIDE DEF present
  <2>1. present \subseteq Entities
    BY DEF present
  <2> QED
    BY <1>1, <1>2, <1>3, <2>1 DEF ListedSound, Held
<1>5. WindowSound' /\ ChangesSound'
  BY <1>2 DEF WindowSound, ChangesSound
<1>6. HandlerSound'
  BY <1>1, HandlerKept
<1> QED
  BY <1>1, <1>4, <1>5, <1>6, StoreKept DEF ArrSound

LEMMA WindowStep ==
  ASSUME CatalogInv, ReadHistory
  PROVE  CatalogInv'
<1> USE DEF CatalogInv
<1>1. UNCHANGED <<now, library, history, sent, table, inbox, handler>>
  BY DEF ReadHistory, world, arrVars, storeVars, inboxVars
<1>2. /\ run'.phase = "window" /\ run'.revision = Revision(table) /\ run'.pageEnd = now
      /\ run'.latest \subseteq history
  BY DEF ReadHistory
<1>3. Revision(table) \in Nat
  BY RevisionGrows DEF TableSound
<1>4. IsFiniteSet(run'.latest) /\ run'.latest \in SUBSET (Entities \X Nat)
  BY <1>2, FS_Subset DEF ArrSound
<1>5. ListedSound' /\ WindowSound' /\ ChangesSound'
  BY <1>1, <1>2, <1>3, <1>4 DEF ListedSound, WindowSound, ChangesSound, ArrSound
<1>6. HandlerSound'
  BY <1>1, HandlerKept
<1> QED
  BY <1>1, <1>5, <1>6, StoreKept DEF ArrSound

LEMMA HydrateStep ==
  ASSUME CatalogInv, HydrateChanges
  PROVE  CatalogInv'
<1> USE DEF CatalogInv
<1> DEFINE readable == {r \in run.latest : Hydrated(r[1]) # "unavailable"}
           pending == {HistoryMutation(r) : r \in readable}
<1>1. /\ UNCHANGED <<now, library, history, sent, table, inbox, handler>>
      /\ run.phase = "window"
  BY DEF HydrateChanges, world, arrVars, storeVars, inboxVars
<1>2. /\ run'.phase = "changes" /\ run'.revision = run.revision /\ run'.pageEnd = run.pageEnd
      /\ run'.changes = pending
  BY DEF HydrateChanges
<1>3. readable \in SUBSET (Entities \X Nat) /\ IsFiniteSet(readable)
  BY <1>1, FS_Subset DEF WindowSound
<1>4. IsFiniteSet(pending)
  <2> DEFINE f == [r \in readable |-> HistoryMutation(r)]
  <2>1. f \in Surjection(readable, pending)
    BY DEF Surjection
  <2> HIDE DEF f, pending, readable
  <2> QED
    BY <1>3, <2>1, FS_Surjection
<1>5. ASSUME NEW r \in readable
      PROVE  /\ Timely(HistoryMutation(r))
             /\ HistoryMutation(r).type = "import" =>
                   /\ HistoryMutation(r).entity \in Entities
                   /\ table.rows[HistoryMutation(r).entity].file <= HistoryMutation(r).file
  <2>1. r[1] \in Entities /\ r[2] \in Nat
    BY <1>3
  <2>2. CASE Hydrated(r[1]) = "present"
    <3>1. /\ library[r[1]] \in Media /\ library[r[1]].file \in Nat \ {0}
          /\ Held(r[1], library[r[1]].file)
      BY <2>1, <2>2, HydratedMedia
    <3>2. table.rows[r[1]].file <= library[r[1]].file
      BY <2>1, <3>1 DEF TableSound, Held
    <3>3. HistoryMutation(r) = Import(<<"reconcile", r[1], r[2]>>, r[1], library[r[1]], r[2], TRUE)
      BY <2>2 DEF HistoryMutation
    <3> QED
      BY <2>1, <3>1, <3>2, <3>3 DEF Import, Timely, IsMutation, Media
  <2>3. CASE Hydrated(r[1]) # "present"
    BY <2>1, <2>3 DEF HistoryMutation, DeleteEntity, Timely, IsMutation
  <2> QED
    BY <2>2, <2>3
<1>6. ASSUME NEW m \in pending PROVE Timely(m)' /\ Current(m)'
  <2>1. PICK r \in readable : m = HistoryMutation(r)
    BY <1>6
  <2> HIDE DEF readable, pending
  <2>2. Timely(m)
    BY <1>5, <2>1
  <2>3. m.type = "import" => table.rows[m.entity].file <= m.file
    BY <1>5, <2>1
  <2> QED
    BY <1>1, <2>2, <2>3 DEF Timely, Current, Held
<1> HIDE DEF pending, readable
<1>7. ListedSound' /\ WindowSound' /\ ChangesSound'
  <2>1. ChangesSound'
    BY <1>2, <1>4, <1>6 DEF ChangesSound
  <2> QED
    BY <1>1, <1>2, <2>1 DEF ListedSound, WindowSound
<1>8. HandlerSound'
  BY <1>1, HandlerKept
<1> QED
  BY <1>1, <1>7, <1>8, StoreKept DEF ArrSound

LEMMA SnapshotStep ==
  ASSUME CatalogInv, ListIdentitySnapshot
  PROVE  CatalogInv'
<1> USE DEF CatalogInv
<1>1. UNCHANGED <<now, library, history, sent, table, inbox, handler>>
  BY DEF ListIdentitySnapshot, world, arrVars, storeVars, inboxVars
<1>2. /\ run.phase = "changes" /\ run'.phase = "commit" /\ run'.revision = run.revision
      /\ run'.pageEnd = run.pageEnd /\ run'.changes = run.changes
  BY DEF ListIdentitySnapshot
<1>3. ListedSound' /\ WindowSound'
  BY <1>1, <1>2 DEF ListedSound, WindowSound
<1>4. ChangesSound'
  BY <1>1, <1>2 DEF ChangesSound, Timely, Held, Current
<1>5. HandlerSound'
  BY <1>1, HandlerKept
<1> QED
  BY <1>1, <1>3, <1>4, <1>5, StoreKept DEF ArrSound

LEMMA InOrderSeq ==
  ASSUME NEW S, IsFiniteSet(S), NEW s \in InOrder(S)
  PROVE  s \in Seq(S) /\ \A i \in 1..Len(s) : s[i] \in S
<1>1. Cardinality(S) \in Nat
  BY FS_CardinalityType
<1>2. s \in [1..Cardinality(S) -> S]
  BY DEF InOrder
<1> QED
  BY <1>1, <1>2

LEMMA DiscoveryStep ==
  ASSUME CatalogInv, CommitDiscovery
  PROVE  CatalogInv' /\ NotTakenBack
<1> USE DEF CatalogInv
<1>1. /\ UNCHANGED <<now, library, history, sent, inbox, handler>>
      /\ run.phase = "listed" /\ run'.phase \in {"idle", "ready"}
  BY DEF CommitDiscovery, world, arrVars, storeVars, inboxVars, Resting
<1>2. HandlerSound'
  BY <1>1, HandlerKept
<1>3. IsTable(table) /\ Searched(table)
  BY DEF TableSound, FilesSearched, Searched
<1>4. CASE UNCHANGED table
  <2>1. CatalogInv'
    BY <1>1, <1>2, <1>3, <1>4, TableMoves DEF TableSound
  <2>2. \A e \in Entities : table.rows[e].file \in Nat
    BY <1>3 DEF IsTable, TablesOver, Row
  <2> QED
    BY <1>4, <2>1, <2>2 DEF NotTakenBack
<1>5. CASE \E page \in InOrder({Discovery(e) : e \in FoundNew(run.items)}) : table' = AppliedAll(table, page, {})
  <2> DEFINE found == {Discovery(e) : e \in FoundNew(run.items)}
  <2>1. FoundNew(run.items) \subseteq Entities /\ FoundNew(run.items) \subseteq DOMAIN run.items
    BY <1>1 DEF FoundNew, ListedSound
  <2>2. IsFiniteSet(found)
    <3> DEFINE f == [e \in FoundNew(run.items) |-> Discovery(e)]
    <3>1. f \in Surjection(FoundNew(run.items), found)
      BY DEF Surjection
    <3>2. IsFiniteSet(FoundNew(run.items))
      BY <2>1, CatalogAssumption, FS_Subset
    <3> HIDE DEF f, found
    <3> QED
      BY <3>1, <3>2, FS_Surjection
  <2>3. ASSUME NEW m \in found
        PROVE  IsMutation(m) /\ Held(m.entity, m.file) /\ table.rows[m.entity].file = 0
    <3>1. PICK e \in FoundNew(run.items) : m = Discovery(e)
      BY <2>3
    <3>2. run.items[e] \in Media /\ run.items[e].file # 0 /\ Held(e, run.items[e].file) /\ now \in Nat
      BY <1>1, <2>1 DEF ListedSound, ArrSound
    <3>3. table.rows[e].file = 0
      BY DEF FoundNew, Known
    <3> QED
      BY <2>1, <3>1, <3>2, <3>3 DEF Discovery, Import, IsMutation, Media
  <2>4. PICK page \in InOrder(found) : table' = AppliedAll(table, page, {})
    BY <1>5
  <2> HIDE DEF found
  <2>5. page \in Seq(found) /\ \A i \in 1..Len(page) : page[i] \in found
    BY <2>2, InOrderSeq
  <2>6. PageOf(table', table, page)
    BY <1>3, <2>3, <2>4, <2>5, PageApplied
  <2>7. ASSUME NEW e \in Entities
        PROVE  Held(e, table'.rows[e].file) /\ table'.rows[e].file >= table.rows[e].file
    <3>1. table'.rows[e].file \in Nat /\ table.rows[e].file \in Nat
      BY <1>3, <2>6 DEF PageOf, IsTable, TablesOver, Row
    <3> QED
      BY <2>3, <2>5, <2>6, <3>1 DEF PageOf, TableSound
  <2>8. CatalogInv'
    BY <1>1, <1>2, <2>6, <2>7, TableMoves DEF PageOf
  <2> QED
    BY <2>7, <2>8 DEF NotTakenBack
<1> QED
  BY <1>4, <1>5 DEF CommitDiscovery

\* The deletions a snapshot asks for.
LEMMA SnapshotFinite ==
  ASSUME WindowSound, run.phase = "commit"
  PROVE  /\ IsFiniteSet(SnapshotDeletions)
         /\ \A m \in SnapshotDeletions : IsMutation(m) /\ m.type # "import"
<1> DEFINE missing == Missing \ Spared
           gone(i) == DeleteTop(<<"snapshot", i, run.pageEnd>>, i, run.pageEnd)
           deletions == {gone(i) : i \in missing}
<1>1. IsFiniteSet(missing)
  <2> DEFINE active == {x \in Entities : Active(table, x)}
             f == [e \in active |-> IdentityOf[e]]
  <2>1. IsFiniteSet(active)
    BY CatalogAssumption, FS_Subset
  <2>2. f \in Surjection(active, ActiveIdentities(table))
    BY DEF Surjection, ActiveIdentities
  <2> HIDE DEF f, active
  <2>3. IsFiniteSet(ActiveIdentities(table))
    BY <2>1, <2>2, FS_Surjection
  <2> QED
    BY <2>3, FS_Subset DEF Missing
<1>2. IsFiniteSet(deletions)
  <2> DEFINE f == [i \in missing |-> gone(i)]
  <2>1. f \in Surjection(missing, deletions)
    BY DEF Surjection
  <2> HIDE DEF f, missing, deletions
  <2> QED
    BY <1>1, <2>1, FS_Surjection
<1>3. \A i \in missing : IsMutation(gone(i)) /\ gone(i).type # "import"
  BY DEF DeleteTop, DeleteEntity, DeleteIdentity, IsMutation, WindowSound
<1>4. SnapshotDeletions = deletions
  BY DEF SnapshotDeletions
<1> HIDE DEF missing, gone
<1> QED
  BY <1>2, <1>3, <1>4, FS_EmptySet

LEMMA CommitStep ==
  ASSUME CatalogInv, CommitRun
  PROVE  CatalogInv' /\ NotTakenBack
<1> USE DEF CatalogInv
<1>1. /\ UNCHANGED <<now, library, history, sent, inbox, handler>>
      /\ run.phase = "commit" /\ run'.phase \in {"idle", "ready"}
  BY DEF CommitRun, world, arrVars, storeVars, inboxVars, Resting
<1>2. HandlerSound'
  BY <1>1, HandlerKept
<1>3. IsTable(table) /\ Searched(table)
  BY DEF TableSound, FilesSearched, Searched
<1>4. CASE ~Unmoved
  <2>1. UNCHANGED table
    BY <1>4 DEF CommitRun
  <2>2. CatalogInv'
    BY <1>1, <1>2, <1>3, <2>1, TableMoves DEF TableSound
  <2>3. \A e \in Entities : table.rows[e].file \in Nat
    BY <1>3 DEF IsTable, TablesOver, Row
  <2> QED
    BY <2>1, <2>2, <2>3 DEF NotTakenBack
<1>5. CASE Unmoved
  <2>1. PICK page \in InOrder(run.changes), gone \in InOrder(SnapshotDeletions) :
           table' = AppliedAll(AppliedAll(table, page, replays), gone, replays)
    BY <1>5 DEF CommitRun
  <2>2. IsFiniteSet(run.changes) /\ \A m \in run.changes : Timely(m) /\ Current(m)
    BY <1>1 DEF ChangesSound
  <2>3. IsFiniteSet(SnapshotDeletions) /\ \A m \in SnapshotDeletions : IsMutation(m) /\ m.type # "import"
    BY <1>1, SnapshotFinite
  <2>4. /\ page \in Seq(run.changes) /\ gone \in Seq(SnapshotDeletions)
        /\ \A i \in 1..Len(page) : page[i] \in run.changes
        /\ \A i \in 1..Len(gone) : gone[i] \in SnapshotDeletions
    BY <2>2, <2>3, InOrderSeq
  <2> DEFINE mid == AppliedAll(table, page, replays)
  <2>5. \A i \in 1..Len(page) :
           /\ IsMutation(page[i])
           /\ page[i].type = "import" =>
                 Held(page[i].entity, page[i].file) /\ table.rows[page[i].entity].file <= page[i].file
    BY <1>5, <2>2, <2>4 DEF Timely, Current, Unmoved
  <2>6. PageOf(mid, table, page)
    BY <1>3, <2>4, <2>5, PageApplied
  <2> HIDE DEF mid
  <2>7. PageOf(table', mid, gone)
    BY <2>1, <2>3, <2>4, <2>6, PageApplied DEF mid, PageOf
  <2>8. ASSUME NEW e \in Entities
        PROVE  Held(e, table'.rows[e].file) /\ table'.rows[e].file >= table.rows[e].file
    <3>1. table'.rows[e].file \in Nat /\ table.rows[e].file \in Nat
      BY <1>3, <2>7 DEF PageOf, IsTable, TablesOver, Row
    <3>2. table'.rows[e].file = mid.rows[e].file
      BY <2>3, <2>4, <2>7 DEF PageOf
    <3> QED
      BY <2>5, <2>6, <3>1, <3>2 DEF PageOf, TableSound
  <2>9. table.events \subseteq table'.events /\ (table' = table \/ table'.events # table.events)
    BY <2>6, <2>7 DEF PageOf
  <2>10. CatalogInv'
    BY <1>1, <1>2, <2>7, <2>8, <2>9, TableMoves DEF PageOf
  <2> QED
    BY <2>8, <2>10 DEF NotTakenBack
<1> QED
  BY <1>4, <1>5

-----------------------------------------------------------------------------
(* The theorems *)

LEMMA CatalogSteps == CatalogInv /\ [CatalogNext]_catalogVars => CatalogInv' /\ [NotTakenBack]_catalogVars
<1> SUFFICES ASSUME CatalogInv, [CatalogNext]_catalogVars
             PROVE  CatalogInv' /\ [NotTakenBack]_catalogVars
  OBVIOUS
<1>1. ASSUME UNCHANGED table PROVE NotTakenBack
  <2>1. \A e \in Entities : table.rows[e].file \in Nat
    BY DEF CatalogInv, TableSound, IsTable, TablesOver, Row
  <2> QED
    BY <1>1, <2>1 DEF NotTakenBack
<1>2. CASE UNCHANGED catalogVars
  <2>1. UNCHANGED <<now, library, history, sent, inbox, handler, table, run>>
    BY <1>2 DEF catalogVars, world, arrVars, inboxVars, storeVars
  <2>2. inbox' \in Seq(Items) /\ HandlerSound' /\ (ListedSound /\ WindowSound /\ ChangesSound)'
    BY <2>1, HandlerKept, RunKept DEF CatalogInv, ArrSound
  <2>3. CatalogInv'
    BY <2>1, <2>2, StoreKept
  <2> QED
    BY <1>2, <2>3
<1>3. CASE Arr
  BY <1>1, <1>3, ArrSteps DEF Arr, ArrImport, ArrRename, ArrDeleteFile, ArrRemove, Changed, storeVars
<1>4. CASE MountLost \/ MountBack \/ \E h \in sent : HookLost(h) \/ Receive(h)
  BY <1>1, <1>4, WorldSteps DEF MountLost, MountBack, HookLost, Receive, storeVars
<1>5. CASE Inbox
  <2>1. ASSUME NEW n \in DOMAIN inbox, Handle(n) PROVE CatalogInv' /\ NotTakenBack
    BY <1>1, <2>1, HandleStep DEF Handle, storeVars
  <2>2. ASSUME NEW n \in DOMAIN inbox, HandleFails(n) PROVE CatalogInv' /\ NotTakenBack
    BY <1>1, <2>2, InboxSteps DEF HandleFails, storeVars
  <2>3. CASE DeleteWebhook
    BY <1>1, <2>3, InboxSteps DEF DeleteWebhook, storeVars
  <2>4. CASE ApplyEvent
    BY <2>4, ApplyStep DEF NotTakenBack
  <2> QED
    BY <1>5, <2>1, <2>2, <2>3, <2>4 DEF Inbox
<1>6. CASE Reconcile
  <2>1. CASE CommitDiscovery
    BY <2>1, DiscoveryStep
  <2>2. CASE CommitRun
    BY <2>2, CommitStep
  <2>3. CASE StartRun \/ ListLibrary \/ ReadHistory \/ HydrateChanges \/ ListIdentitySnapshot
    <3>1. UNCHANGED table
      BY <2>3 DEF StartRun, ListLibrary, ReadHistory, HydrateChanges, ListIdentitySnapshot, storeVars
    <3> QED
      BY <1>1, <2>3, <3>1, RunEnds, ListStep, WindowStep, HydrateStep, SnapshotStep
  <2> QED
    BY <1>6, <2>1, <2>2, <2>3 DEF Reconcile
<1>7. CASE RunFails \/ Crash
  BY <1>1, <1>7, RunEnds DEF RunFails, Crash, storeVars
<1> QED
  BY <1>2, <1>3, <1>4, <1>5, <1>6, <1>7 DEF CatalogNext

\* Every file the catalog tracks had its searches opened, for any library, any
\* number of webhooks, lost, late or repeated, and any interleaving of the inbox
\* with discovery and reconciliation (replayOfAppliedImportTx, upsertMediaTx,
\* commitLibraryDiscovery, CommitReconciliation).
THEOREM EveryFileSearched == CatalogSpec => []FilesSearched
<1>1. CatalogInv => FilesSearched
  BY DEF CatalogInv
<1> QED
  BY <1>1, CatalogInitSound, CatalogSteps, PTL DEF CatalogSpec

\* What a reconciliation commits was read before other events may have been
\* applied, and still never takes a row back to an earlier file: the revision
\* fences of CommitReconciliation and commitLibraryDiscovery suffice, for any
\* library and any number of changes, outages and restarts.
THEOREM NeverTakenBack == CatalogSpec => NoRegress
<1> QED
  BY CatalogInitSound, CatalogSteps, PTL DEF CatalogSpec, NoRegress

-----------------------------------------------------------------------------
(* What the page of a reconciliation does to each row.                      *)

\* A page applies every mutation, each once.
LEMMA InOrderAll ==
  ASSUME NEW S, IsFiniteSet(S), NEW s \in InOrder(S)
  PROVE  /\ Len(s) \in Nat
         /\ \A i \in 1..Len(s) : s[i] \in S
         /\ \A i, j \in 1..Len(s) : i < j => s[i] # s[j]
         /\ S = {s[i] : i \in 1..Len(s)}
<1>1. Cardinality(S) \in Nat
  BY FS_CardinalityType
<1> DEFINE D == 1..Cardinality(S)
<1>2. s \in [D -> S] /\ \A i, j \in DOMAIN s : i < j => s[i] # s[j]
  BY DEF InOrder
<1>3. Len(s) = Cardinality(S) /\ DOMAIN s = D
  BY <1>1, <1>2
<1>4. s \in Injection(D, S)
  <2>1. ASSUME NEW i \in D, NEW j \in D, s[i] = s[j] PROVE i = j
    <3>1. i \in Nat /\ j \in Nat
      BY <1>1
    <3> QED
      BY <1>2, <1>3, <2>1, <3>1
  <2> HIDE DEF D
  <2> QED
    BY <1>2, <2>1 DEF Injection, IsInjective
<1>5. Cardinality(D) = Cardinality(S)
  BY <1>1, FS_Interval
<1>6. s \in Surjection(D, S)
  <2> HIDE DEF D
  <2> QED
    BY <1>4, <1>5, FS_Injection
<1>7. \A m \in S : \E i \in D : s[i] = m
  BY <1>6 DEF Surjection
<1> QED
  BY <1>2, <1>3, <1>7

-----------------------------------------------------------------------------
(* Imports and deletions of entities *)

\* The row says that the file, or the whole entity, was deleted after m.
LateFor(entry, m) ==
  /\ entry.file # 0 /\ entry.deleted
  /\ (entry.file = m.file /\ entry.deletedAt > m.at) \/ entry.entityDeletedAt > m.at

RowAfter(entry, m) ==
  IF m.type = "import" THEN IF LateFor(entry, m) THEN entry ELSE ImportedRow(entry, m)
  ELSE IF entry.file # 0 THEN DeletedRow(entry, m.at, TRUE) ELSE entry

\* No file is in the rows of two entities: own names the one it belongs to.
OwnedIn(own, t) == \A e \in Entities : t.rows[e].file # 0 => own[t.rows[e].file] = e

OwnedBy(own, m) ==
  /\ m.type \in {"import", "deleteEntity"} /\ m.entity \in Entities
  /\ m.type = "import" => own[m.file] = m.entity

LEMMA RowAfterType ==
  ASSUME NEW entry \in Row, NEW m, IsMutation(m)
  PROVE  RowAfter(entry, m).file = entry.file \/ (m.type = "import" /\ RowAfter(entry, m).file = m.file)
<1>1. DeletedRow(entry, m.at, TRUE).file = entry.file
  BY DeletedRowType DEF IsMutation
<1>2. ImportedRow(entry, m).file = m.file
  BY DEF ImportedRow, Row
<1> QED
  BY <1>1, <1>2 DEF RowAfter

LEMMA LateOne ==
  ASSUME NEW own, NEW t, IsTable(t), OwnedIn(own, t), NEW m, IsMutation(m),
         OwnedBy(own, m), m.type = "import"
  PROVE  DeletedAfter(t, m) <=> LateFor(t.rows[m.entity], m)
<1>1. ASSUME NEW e \in Entities, Known(t, e), t.rows[e].file = m.file PROVE e = m.entity
  BY <1>1 DEF OwnedIn, OwnedBy, Known
<1> QED
  BY <1>1 DEF DeletedAfter, LateFor, Known, OwnedBy

LEMMA OneApplied ==
  ASSUME NEW own, NEW t, IsTable(t), OwnedIn(own, t), NEW m, IsMutation(m), OwnedBy(own, m)
  PROVE  LET u == Applied(t, m)
         IN  /\ IsTable(u) /\ OwnedIn(own, u)
             /\ u.events = t.events \cup {m.id}
             /\ \A e \in Entities \ {m.entity} : u.rows[e] = t.rows[e]
             /\ u.rows[m.entity] = IF m.id \in t.events THEN t.rows[m.entity]
                                   ELSE RowAfter(t.rows[m.entity], m)
<1> DEFINE u == Applied(t, m)
<1>0. m.entity \in Entities
  BY DEF OwnedBy
<1>1. CASE m.id \in t.events
  <2>1. u = t /\ t.events = t.events \cup {m.id}
    BY <1>1 DEF Applied, FirstTime
  <2> QED
    BY <1>1, <2>1
<1>2. CASE m.id \notin t.events
  <2>1. /\ IsTable(u) /\ u.events = t.events \cup {m.id}
        /\ \A e \in Entities \ {m.entity} : u.rows[e] = t.rows[e]
        /\ u.rows[m.entity] = RowAfter(t.rows[m.entity], m)
    <3>1. CASE m.type = "import" /\ DeletedAfter(t, m)
      <4>1. u = Recorded(t, m.id) /\ LateFor(t.rows[m.entity], m)
        BY <1>2, <3>1, LateOne DEF Applied, FirstTime
      <4> QED
        BY <3>1, <4>1, RecordedTable DEF RowAfter
    <3>2. CASE m.type = "import" /\ ~DeletedAfter(t, m)
      <4> DEFINE r == Recorded(t, m.id)
      <4>1. u = Imported(r, m) /\ ~LateFor(t.rows[m.entity], m)
        BY <1>2, <3>2, LateOne DEF Applied, FirstTime
      <4>2. IsTable(r) /\ r.rows = t.rows /\ r.events = t.events \cup {m.id}
        BY RecordedTable
      <4> HIDE DEF r
      <4> DEFINE v == Imported(r, m)
      <4>3. IsTable(r) /\ m.type = "import"
        BY <3>2, <4>2
      <4>4. /\ IsTable(v)
            /\ v.events = r.events
            /\ v.asked = IF ReplayOfApplied(r, m) THEN r.asked ELSE r.asked \cup {m.file}
            /\ \A e \in Entities \ {m.entity} : v.rows[e] = r.rows[e]
            /\ v.rows[m.entity] = ImportedRow(r.rows[m.entity], m)
            /\ v.rows[m.entity].file = m.file
        BY <4>3, ImportedTable
      <4> QED
        BY <3>2, <4>1, <4>2, <4>4 DEF RowAfter
    <3>3. CASE m.type = "deleteEntity"
      <4>1. u = DeleteApplied(t, m)
        BY <1>2, <3>3 DEF Applied, FirstTime
      <4>2. Deletions(t, m) = {m.id}
        BY <3>3 DEF Deletions
      <4>3. Hit(t, m) = {e \in Entities : Known(t, e) /\ e = m.entity}
        BY <3>3 DEF Hit
      <4> DEFINE v == DeleteApplied(t, m)
      <4>4. /\ IsTable(v) /\ v.events = t.events \cup Deletions(t, m)
            /\ \A e \in Entities : v.rows[e] =
                  IF e \in Hit(t, m) THEN DeletedRow(t.rows[e], m.at, m.type # "deleteFile") ELSE t.rows[e]
        BY DeleteTable
      <4>5. (m.type # "deleteFile") = TRUE
        BY <3>3
      <4>6. \A e \in Entities : u.rows[e] =
               IF e \in Hit(t, m) THEN DeletedRow(t.rows[e], m.at, TRUE) ELSE t.rows[e]
        BY <4>1, <4>4, <4>5, Zenon
      <4>7. IsTable(u) /\ u.events = t.events \cup {m.id}
        BY <4>1, <4>2, <4>4
      <4> QED
        BY <1>0, <3>3, <4>3, <4>6, <4>7 DEF RowAfter, Known
    <3> QED
      BY <3>1, <3>2, <3>3 DEF OwnedBy
  <2>2. OwnedIn(own, u)
    <3> HIDE DEF u
    <3> SUFFICES ASSUME NEW e \in Entities, u.rows[e].file # 0 PROVE own[u.rows[e].file] = e
      BY DEF OwnedIn
    <3>1. CASE e # m.entity
      BY <2>1, <3>1 DEF OwnedIn
    <3>2. CASE e = m.entity
      <4>1. t.rows[e] \in Row
        BY DEF IsTable, TablesOver
      <4>2. u.rows[e].file = t.rows[e].file \/ (m.type = "import" /\ u.rows[e].file = m.file)
        BY <2>1, <3>2, <4>1, RowAfterType
      <4> QED
        BY <3>2, <4>2 DEF OwnedIn, OwnedBy
    <3> QED
      BY <3>1, <3>2
  <2> QED
    BY <1>2, <2>1, <2>2
<1> QED
  BY <1>1, <1>2

\* The table after the first n mutations of a page.
PagedUpto(u, t, own, s, n) ==
  /\ IsTable(u) /\ OwnedIn(own, u)
  /\ u.events = t.events \cup {s[i].id : i \in 1..n}
  /\ \A e \in Entities : (\A i \in 1..n : s[i].entity # e) => u.rows[e] = t.rows[e]
  /\ \A i \in 1..n : u.rows[s[i].entity] =
        IF s[i].id \in t.events THEN t.rows[s[i].entity] ELSE RowAfter(t.rows[s[i].entity], s[i])

\* A page that has one mutation per entity changes each row as that mutation
\* alone would, whatever the order.
LEMMA PageRows ==
  ASSUME NEW own, NEW t, IsTable(t), OwnedIn(own, t),
         NEW S, IsFiniteSet(S), \A m \in S : IsMutation(m) /\ OwnedBy(own, m),
         \A m, n \in S : m.entity = n.entity \/ m.id = n.id => m = n,
         NEW s \in InOrder(S), NEW skipped \in SUBSET t.events
  PROVE  LET u == AppliedAll(t, s, skipped)
         IN  /\ IsTable(u) /\ OwnedIn(own, u)
             /\ u.events = t.events \cup {m.id : m \in S}
             /\ \A e \in Entities : (\A m \in S : m.entity # e) => u.rows[e] = t.rows[e]
             /\ \A m \in S : u.rows[m.entity] =
                   IF m.id \in t.events THEN t.rows[m.entity] ELSE RowAfter(t.rows[m.entity], m)
<1>1. /\ Len(s) \in Nat /\ \A i \in 1..Len(s) : s[i] \in S
      /\ \A i, j \in 1..Len(s) : i < j => s[i] # s[j]
      /\ S = {s[i] : i \in 1..Len(s)}
  BY InOrderAll
<1> DEFINE ids == t.events \cup {m.id : m \in S}
           T == [n \in 0..Len(s) |-> {u \in TablesOver(ids) : PagedUpto(u, t, own, s, n)}]
<1>2. t \in T[0]
  <2>1. t \in TablesOver(ids)
    BY DEF IsTable, TablesOver
  <2>2. 1..0 = {}
    OBVIOUS
  <2>3. PagedUpto(t, t, own, s, 0)
    BY <2>2 DEF PagedUpto
  <2> QED
    BY <1>1, <2>1, <2>3
<1>3. ASSUME NEW n \in 1..Len(s), NEW u \in T[n - 1]
      PROVE  IF s[n].id \in skipped THEN u \in T[n] ELSE Applied(u, s[n]) \in T[n]
  <2> DEFINE v == IF s[n].id \in skipped THEN u ELSE Applied(u, s[n])
             m == s[n]
  <2>1. n \in 0..Len(s) /\ n - 1 \in 0..Len(s) /\ u \in TablesOver(ids) /\ PagedUpto(u, t, own, s, n - 1)
    BY <1>1, <1>3
  <2>2. m \in S /\ IsMutation(m) /\ OwnedBy(own, m) /\ m.entity \in Entities
    BY <1>1 DEF OwnedBy
  <2>3. 1..n = 1..(n - 1) \cup {n} /\ 1..(n - 1) \subseteq 1..Len(s) /\ n \notin 1..(n - 1)
    BY <1>1
  <2>4. \A i \in 1..(n - 1) : s[i].entity # m.entity /\ s[i].id # m.id
    <3> SUFFICES ASSUME NEW i \in 1..(n - 1) PROVE s[i].entity # m.entity /\ s[i].id # m.id
      OBVIOUS
    <3>1. i \in 1..Len(s) /\ i < n /\ s[i] # s[n] /\ s[i] \in S
      BY <1>1
    <3> QED
      BY <2>2, <3>1
  <2>5. u.rows[m.entity] = t.rows[m.entity] /\ (m.id \in u.events <=> m.id \in t.events)
    BY <2>1, <2>2, <2>4 DEF PagedUpto
  <2>6. /\ IsTable(v) /\ OwnedIn(own, v)
        /\ v.events = u.events \cup {m.id}
        /\ \A e \in Entities \ {m.entity} : v.rows[e] = u.rows[e]
        /\ v.rows[m.entity] = IF m.id \in t.events THEN t.rows[m.entity]
                              ELSE RowAfter(t.rows[m.entity], m)
    <3>1. CASE m.id \in skipped
      <4>1. m.id \in t.events /\ v = u /\ u.events = u.events \cup {m.id}
        BY <2>5, <3>1
      <4> QED
        BY <2>1, <2>5, <4>1 DEF PagedUpto
    <3>2. CASE m.id \notin skipped
      <4>1. v = Applied(u, m) /\ IsTable(u) /\ OwnedIn(own, u)
        BY <2>1, <3>2 DEF PagedUpto
      <4> QED
        BY <2>2, <2>5, <4>1, OneApplied
    <3> QED
      BY <3>1, <3>2
  <2> HIDE DEF v
  <2>7. v.events = t.events \cup {s[i].id : i \in 1..n}
    BY <2>1, <2>3, <2>6 DEF PagedUpto
  <2>8. ASSUME NEW e \in Entities, \A i \in 1..n : s[i].entity # e PROVE v.rows[e] = t.rows[e]
    <3>1. e # m.entity /\ \A i \in 1..(n - 1) : s[i].entity # e
      BY <2>3, <2>8
    <3> QED
      BY <2>1, <2>6, <3>1 DEF PagedUpto
  <2>9. ASSUME NEW i \in 1..n
        PROVE  v.rows[s[i].entity] = IF s[i].id \in t.events THEN t.rows[s[i].entity]
                                     ELSE RowAfter(t.rows[s[i].entity], s[i])
    <3>1. CASE i = n
      BY <2>6, <3>1
    <3>2. CASE i \in 1..(n - 1)
      <4>1. s[i].entity \in Entities \ {m.entity}
        BY <1>1, <2>3, <2>4, <3>2 DEF OwnedBy
      <4> QED
        BY <2>1, <2>6, <3>2, <4>1 DEF PagedUpto
    <3> QED
      BY <2>3, <3>1, <3>2
  <2>10. PagedUpto(v, t, own, s, n)
    BY <2>6, <2>7, <2>8, <2>9 DEF PagedUpto
  <2>11. v \in TablesOver(ids)
    <3>1. v.events \subseteq ids
      BY <2>1, <2>2, <2>6 DEF TablesOver
    <3> HIDE DEF ids
    <3> QED
      BY <2>6, <3>1 DEF IsTable, TablesOver
  <2>12. v \in T[n]
    <3> HIDE DEF ids
    <3> QED
      BY <2>1, <2>10, <2>11
  <2> QED
    BY <2>12 DEF v
<1> DEFINE u == AppliedAll(t, s, skipped)
<1>4. u \in T[Len(s)]
  <2> HIDE DEF T
  <2> QED
    BY <1>1, <1>2, <1>3, Transaction
<1>5. PagedUpto(u, t, own, s, Len(s))
  BY <1>1, <1>4
<1> HIDE DEF u, T
<1> QED
  BY <1>1, <1>5 DEF PagedUpto, u

-----------------------------------------------------------------------------
(* Deletions of whole entities and identities *)

Whole(m) == IsMutation(m) /\ m.type \in {"deleteEntity", "deleteIdentity"}

Targets(m, e) == IF m.type = "deleteEntity" THEN e = m.entity ELSE IdentityOf[e] = m.identity

Children(m) == {<<"episode", m.id, e>> : e \in Entities}

LEMMA OneGone ==
  ASSUME NEW t, IsTable(t), NEW m, Whole(m)
  PROVE  LET u == Applied(t, m)
         IN  /\ IsTable(u) /\ t.events \cup {m.id} \subseteq u.events
             /\ u.events \subseteq t.events \cup {m.id} \cup Children(m)
             /\ \A e \in Entities : /\ u.rows[e].file = t.rows[e].file
                                    /\ Active(u, e) => Active(t, e)
                                    /\ ~Targets(m, e) => u.rows[e] = t.rows[e]
                                    /\ Targets(m, e) /\ m.id \notin t.events => ~Active(u, e)
<1> DEFINE u == Applied(t, m)
<1>1. CASE m.id \in t.events
  <2>1. u = t
    BY <1>1 DEF Applied, FirstTime
  <2> QED
    BY <1>1, <2>1
<1>2. CASE m.id \notin t.events
  <2> DEFINE v == DeleteApplied(t, m)
  <2>1. u = v
    BY <1>2 DEF Applied, FirstTime, Whole
  <2>2. /\ IsTable(v) /\ v.events = t.events \cup Deletions(t, m)
        /\ \A e \in Entities : v.rows[e] =
              IF e \in Hit(t, m) THEN DeletedRow(t.rows[e], m.at, m.type # "deleteFile") ELSE t.rows[e]
        /\ \A e \in Entities : v.rows[e].file = t.rows[e].file
        /\ \A e \in Entities : Active(v, e) => Active(t, e)
    BY DeleteTable DEF Whole
  <2>3. Hit(t, m) = {e \in Entities : Known(t, e) /\ Targets(m, e)}
    BY DEF Hit, Targets, Whole
  <2>4. m.id \in Deletions(t, m) /\ Deletions(t, m) \subseteq {m.id} \cup Children(m)
    BY <2>3 DEF Deletions, Children
  <2>5. ASSUME NEW e \in Entities, Targets(m, e) PROVE ~Active(v, e)
    <3>1. CASE Known(t, e)
      <4>1. t.rows[e] \in Row /\ m.at \in Nat /\ (m.type # "deleteFile") \in BOOLEAN
        BY DEF IsTable, TablesOver, Whole, IsMutation
      <4>2. v.rows[e] = DeletedRow(t.rows[e], m.at, m.type # "deleteFile")
        BY <2>2, <2>3, <2>5, <3>1
      <4>3. v.rows[e].deleted
        BY <4>1, <4>2, DeletedRowType, Zenon
      <4> QED
        BY <4>3 DEF Active
    <3>2. CASE ~Known(t, e)
      BY <2>2, <3>2 DEF Active
    <3> QED
      BY <3>1, <3>2
  <2>6. ASSUME NEW e \in Entities, ~Targets(m, e) PROVE v.rows[e] = t.rows[e]
    BY <2>2, <2>3, <2>6
  <2> HIDE DEF u, v
  <2>7. /\ IsTable(v) /\ t.events \cup {m.id} \subseteq v.events
        /\ v.events \subseteq t.events \cup {m.id} \cup Children(m)
    BY <2>2, <2>4
  <2> QED
    BY <2>1, <2>2, <2>5, <2>6, <2>7 DEF u
<1> QED
  BY <1>1, <1>2

GoneUpto(u, t, s, n) ==
  /\ IsTable(u) /\ t.events \subseteq u.events
  /\ \A x \in u.events : x \in t.events \/ \E i \in 1..n : x = s[i].id \/ x \in Children(s[i])
  /\ \A i \in 1..n : s[i].id \in u.events
  /\ \A e \in Entities : /\ u.rows[e].file = t.rows[e].file
                         /\ Active(u, e) => Active(t, e)
                         /\ (\A i \in 1..n : ~Targets(s[i], e)) => u.rows[e] = t.rows[e]
                         /\ Active(u, e) => \A i \in 1..n : Targets(s[i], e) => s[i].id \in t.events

\* The deletions of a snapshot leave the rows of other identities alone, and no
\* active row of theirs unless they were applied before.
LEMMA GoneRows ==
  ASSUME NEW t, IsTable(t), NEW G, IsFiniteSet(G), \A m \in G : Whole(m),
         \A m, n \in G : (m.id = n.id => m = n) /\ m.id \notin Children(n),
         NEW s \in InOrder(G), NEW skipped \in SUBSET t.events
  PROVE  LET u == AppliedAll(t, s, skipped)
         IN  /\ IsTable(u) /\ t.events \subseteq u.events
             /\ \A x \in u.events : x \in t.events \/ \E m \in G : x = m.id \/ x \in Children(m)
             /\ \A m \in G : m.id \in u.events
             /\ \A e \in Entities :
                   /\ u.rows[e].file = t.rows[e].file
                   /\ Active(u, e) => Active(t, e)
                   /\ (\A m \in G : ~Targets(m, e)) => u.rows[e] = t.rows[e]
                   /\ Active(u, e) => \A m \in G : Targets(m, e) => m.id \in t.events
<1>1. /\ Len(s) \in Nat /\ \A i \in 1..Len(s) : s[i] \in G
      /\ \A i, j \in 1..Len(s) : i < j => s[i] # s[j]
      /\ G = {s[i] : i \in 1..Len(s)}
  BY InOrderAll
<1> DEFINE ids == t.events \cup {m.id : m \in G} \cup UNION {Children(m) : m \in G}
           T == [n \in 0..Len(s) |-> {u \in TablesOver(ids) : GoneUpto(u, t, s, n)}]
<1>2. t \in T[0]
  <2>1. t \in TablesOver(ids)
    BY DEF IsTable, TablesOver
  <2>2. 1..0 = {}
    OBVIOUS
  <2>3. GoneUpto(t, t, s, 0)
    BY <2>2 DEF GoneUpto
  <2> QED
    BY <1>1, <2>1, <2>3
<1>3. ASSUME NEW n \in 1..Len(s), NEW u \in T[n - 1]
      PROVE  IF s[n].id \in skipped THEN u \in T[n] ELSE Applied(u, s[n]) \in T[n]
  <2> DEFINE v == IF s[n].id \in skipped THEN u ELSE Applied(u, s[n])
             m == s[n]
  <2>1. n \in 0..Len(s) /\ n - 1 \in 0..Len(s) /\ u \in TablesOver(ids) /\ GoneUpto(u, t, s, n - 1)
    BY <1>1, <1>3
  <2>2. m \in G /\ Whole(m)
    BY <1>1
  <2>3. 1..n = 1..(n - 1) \cup {n} /\ 1..(n - 1) \subseteq 1..Len(s) /\ n \notin 1..(n - 1)
    BY <1>1
  <2>4. \A i \in 1..(n - 1) : s[i].id # m.id /\ m.id \notin Children(s[i])
    <3> SUFFICES ASSUME NEW i \in 1..(n - 1) PROVE s[i].id # m.id /\ m.id \notin Children(s[i])
      OBVIOUS
    <3>1. i \in 1..Len(s) /\ i < n /\ s[i] # s[n] /\ s[i] \in G
      BY <1>1
    <3> QED
      BY <2>2, <3>1
  <2>5. m.id \in u.events => m.id \in t.events
    BY <2>1, <2>4 DEF GoneUpto
  <2>6. /\ IsTable(v) /\ u.events \cup {m.id} \subseteq v.events
        /\ v.events \subseteq u.events \cup {m.id} \cup Children(m)
        /\ \A e \in Entities : /\ v.rows[e].file = u.rows[e].file
                               /\ Active(v, e) => Active(u, e)
                               /\ ~Targets(m, e) => v.rows[e] = u.rows[e]
                               /\ Active(v, e) /\ Targets(m, e) => m.id \in t.events
    <3>1. CASE m.id \in skipped
      <4>1. m.id \in t.events /\ v = u
        BY <3>1
      <4> QED
        BY <2>1, <4>1 DEF GoneUpto
    <3>2. CASE m.id \notin skipped
      <4>1. v = Applied(u, m) /\ IsTable(u)
        BY <2>1, <3>2 DEF GoneUpto
      <4> QED
        BY <2>2, <2>5, <4>1, OneGone
    <3> QED
      BY <3>1, <3>2
  <2> HIDE DEF v
  <2>7. /\ t.events \subseteq v.events
        /\ \A x \in v.events : x \in t.events \/ \E i \in 1..n : x = s[i].id \/ x \in Children(s[i])
        /\ \A i \in 1..n : s[i].id \in v.events
    BY <2>1, <2>3, <2>6 DEF GoneUpto
  <2>8. ASSUME NEW e \in Entities
        PROVE  /\ v.rows[e].file = t.rows[e].file
               /\ Active(v, e) => Active(t, e)
               /\ (\A i \in 1..n : ~Targets(s[i], e)) => v.rows[e] = t.rows[e]
               /\ Active(v, e) => \A i \in 1..n : Targets(s[i], e) => s[i].id \in t.events
    BY <2>1, <2>3, <2>6 DEF GoneUpto
  <2>9. GoneUpto(v, t, s, n)
    BY <2>6, <2>7, <2>8 DEF GoneUpto
  <2>10. v \in TablesOver(ids)
    <3>1. v.events \subseteq ids
      BY <2>1, <2>2, <2>6 DEF TablesOver
    <3> HIDE DEF ids
    <3> QED
      BY <2>6, <3>1 DEF IsTable, TablesOver
  <2>11. v \in T[n]
    <3> HIDE DEF ids
    <3> QED
      BY <2>1, <2>9, <2>10
  <2> QED
    BY <2>11 DEF v
<1> DEFINE u == AppliedAll(t, s, skipped)
<1>4. u \in T[Len(s)]
  <2> HIDE DEF T
  <2> QED
    BY <1>1, <1>2, <1>3, Transaction
<1>5. GoneUpto(u, t, s, Len(s))
  BY <1>1, <1>4
<1> HIDE DEF u, T
<1> QED
  BY <1>1, <1>5 DEF GoneUpto, u

-----------------------------------------------------------------------------
(* The accounts.  That the catalog agrees with Arr at the end of a          *)
(* reconciliation needs an account of everything that is on its way then:   *)
(* what the webhooks, the handler, the rows, the recorded events, the       *)
(* cursor and each phase of a running reconciliation may still hold, set    *)
(* against Arr's library and history.                                       *)

\* Arr holds a file of e that the daemon is to track.
Inside(e) == library[e].file # 0 /\ library[e].path \notin Outside

\* The table holds of e what Arr holds, were the mount readable.
Right(e) ==
  IF Inside(e)
  THEN Active(table, e) /\ table.rows[e].file = library[e].file /\ table.rows[e].path = library[e].path
  ELSE ~Active(table, e)

\* Arr's latest record of e, and whether it was applied.
Last(e, t) == <<e, t>> \in history /\ \A q \in history : q[1] = e => q[2] <= t

Reconciled(e, t) == <<"reconcile", e, t>> \in table.events

Snapped(i) == \E at \in Nat : <<"snapshot", i, at>> \in table.events

Gone(e) == IdentityOf[e] \in removed

Seen(e) == Gone(e) \/ \E t \in Nat : Last(e, t)

\* A file that Arr deleted or replaced, never to return.
Dead(f) == f \in Nat \ {0} /\ f <= now /\ \A e \in Entities : library[e].file # f

\* Arr's history is of identities it lists, and a removed one has no files.
ArrAccount ==
  /\ listed \cap removed = {}
  /\ \A r \in history : r[2] <= now /\ IdentityOf[r[1]] \in listed
  /\ \A e \in Entities : Gone(e) => library[e].file = 0

\* A webhook that deletes names what is gone for good: Arr reuses no id.
HookAccount(h) ==
  /\ h.type = "delete" => Dead(h.file)
  /\ h.type = "remove" => h.identity \in removed

HooksAccount ==
  /\ \A h \in sent : HookAccount(h)
  /\ \A n \in DOMAIN inbox : HookAccount(inbox[n].hook)

\* The mutation in the handler's hands was not applied before, and if it
\* deletes, it deletes what is gone for good.
EventAccount(m) ==
  /\ \E h \in Hooks : m.id = HookID(h)
  /\ m.id \notin table.events
  /\ m.type \in {"import", "deleteFile", "deleteEntity", "deleteIdentity"}
  /\ m.type = "import" => m.path \notin Outside
  /\ m.type = "deleteFile" => Dead(m.file)
  /\ m.type = "deleteEntity" => m.entity \in Entities /\ Gone(m.entity)
  /\ m.type = "deleteIdentity" => m.identity \in removed

HandlerAccount == handler.phase = "apply" => EventAccount(handler.mutation)

\* A deletion the table knows of is not later than Arr's last record of the
\* entity, unless its file or its identity is gone for good.
RowAccount(entry, e) ==
  entry.file # 0 /\ entry.deleted =>
     \/ Gone(e)
     \/ \E t \in Nat : /\ Last(e, t) /\ entry.entityDeletedAt <= t
                       /\ entry.deletedAt <= t \/ Dead(entry.file)

RowsAccount == \A e \in Entities : RowAccount(table.rows[e], e)

\* No applied event is from the future, and an identity the snapshot deleted
\* stays deleted unless a webhook outdated it.
EventsAccount ==
  /\ \A e \in Entities, t \in Nat : Reconciled(e, t) => t <= now
  /\ \A e \in Entities : Snapped(IdentityOf[e]) => Gone(e) /\ (Active(table, e) => e \in outdated)
  /\ replays \subseteq table.events

\* Everything up to the cursor was applied, where Arr has no later record.
CursorAccount ==
  /\ cursor \in Nat /\ cursor <= now
  /\ \A e \in Entities, t \in Nat : Last(e, t) /\ t <= cursor => Reconciled(e, t)

\* What the discovery listed is what Arr holds, or a page still to come will
\* say otherwise.
ListedAccount ==
  run.phase = "listed" => \A e \in DOMAIN run.items :
     /\ run.items[e].path \notin Outside /\ ~Snapped(IdentityOf[e])
     /\ run.items[e] # library[e] => cursor # now /\ \A t \in Nat : Last(e, t) => ~Reconciled(e, t)

\* No event applied during a page is later than the page's end.
PageAccount ==
  run.phase \in {"window", "changes", "commit"} =>
     /\ run.cursor \in Nat /\ run.cursor <= run.pageEnd /\ run.pageEnd <= now
     /\ \A e \in Entities, t \in Nat : Reconciled(e, t) => t <= run.pageEnd

\* The page read the last record of every entity Arr changed since the cursor.
LatestAccount ==
  run.phase = "window" =>
     /\ \A r \in run.latest : /\ r[2] <= run.pageEnd /\ Seen(r[1])
                              /\ \A t \in Nat : Last(r[1], t) => t = r[2] \/ t > run.pageEnd
     /\ \A r, q \in run.latest : r[1] = q[1] => r = q
     /\ \A e \in Entities, t \in Nat : Last(e, t) /\ t <= run.pageEnd => t < run.cursor \/ <<e, t>> \in run.latest

\* The mutation says what Arr holds.
Matches(m) ==
  IF Inside(m.entity) THEN m.type = "import" /\ library[m.entity] = [file |-> m.file, path |-> m.path]
  ELSE m.type = "deleteEntity"

\* A change carries the last record of its entity as of the page's end, and
\* what Arr holds unless Arr changed the entity since.
ChangeAccount(m) ==
  /\ m.type \in {"import", "deleteEntity"} /\ m.entity \in Entities
  /\ m.id = <<"reconcile", m.entity, m.at>>
  /\ m.at <= run.pageEnd /\ Seen(m.entity)
  /\ \A t \in Nat : Last(m.entity, t) => t = m.at \/ t > run.pageEnd
  /\ Last(m.entity, m.at) \/ run.pageEnd = now => Matches(m)
  /\ m.type = "import" => m.path \notin Outside /\ ~Snapped(IdentityOf[m.entity])

\* There is one change per entity, and unless some were deferred one for every
\* entity that Arr changed since the cursor.
ChangesAccount ==
  run.phase \in {"changes", "commit"} =>
     /\ \A m \in run.changes : ChangeAccount(m)
     /\ \A m, n \in run.changes : m.entity = n.entity => m = n
     /\ ~run.deferred => \A e \in Entities, t \in Nat :
           Last(e, t) /\ t <= run.pageEnd /\ run.cursor <= t => \E m \in run.changes : m.entity = e /\ m.at = t

\* An identity that the snapshot lacks was removed from Arr, if nothing was
\* applied since the page began.
CommitAccount ==
  run.phase = "commit" =>
     /\ run.pageEnd = now => run.identities = listed
     /\ Revision(table) = run.revision => Missing \subseteq removed

\* The table is right about every entity whose last record was applied, and
\* about removed ones once the cursor is at the last change.
Agreement ==
  \A e \in Entities \ outdated :
     /\ \A t \in Nat : Last(e, t) /\ Reconciled(e, t) => Right(e)
     /\ cursor = now /\ Gone(e) /\ IdentityOf[e] \notin spared => ~Active(table, e)

\* Arr gives a file to one entity: own names it.
Met(own, e, f) == f # 0 => own[f] = e /\ Seen(e)

Owners(own) ==
  /\ own = [f \in Nat |-> own[f]]
  /\ \A e \in Entities : Met(own, e, library[e].file) /\ Met(own, e, table.rows[e].file)
  /\ handler.phase = "apply" /\ handler.mutation.type = "import" =>
        Met(own, handler.mutation.entity, handler.mutation.file)
  /\ run.phase = "listed" => \A e \in DOMAIN run.items : Met(own, e, run.items[e].file)
  /\ run.phase \in {"changes", "commit"} =>
        \A m \in run.changes : m.type = "import" => Met(own, m.entity, m.file)

Account ==
  /\ ArrAccount /\ HooksAccount /\ HandlerAccount /\ RowsAccount /\ EventsAccount /\ CursorAccount
  /\ ListedAccount /\ PageAccount /\ LatestAccount /\ ChangesAccount /\ CommitAccount
  /\ Agreement
  /\ \E own : Owners(own)

-----------------------------------------------------------------------------
(* Every step keeps the accounts.                                           *)

LEMMA AccountInit == CatalogInit => Account
<1> SUFFICES ASSUME CatalogInit PROVE Account
  OBVIOUS
<1> USE DEF CatalogInit
<1>1. \A e \in Entities : library[e].file = 0 /\ table.rows[e].file = 0 /\ ~Active(table, e)
  BY DEF Empty, EmptyTable, UnknownMedia, Active, Known
<1>2. table.events = {}
  BY DEF EmptyTable
<1>3. ArrAccount /\ HooksAccount /\ HandlerAccount
  BY <1>1 DEF ArrAccount, HooksAccount, HandlerAccount, Resting
<1>4. RowsAccount /\ EventsAccount /\ CursorAccount
  BY <1>1, <1>2 DEF RowsAccount, RowAccount, EventsAccount, CursorAccount, Reconciled, Snapped, Last
<1>5. ListedAccount /\ PageAccount /\ LatestAccount /\ ChangesAccount /\ CommitAccount
  BY DEF ListedAccount, PageAccount, LatestAccount, ChangesAccount, CommitAccount, Resting
<1>6. Agreement
  BY <1>1, <1>2 DEF Agreement, Last
<1>7. Owners([f \in Nat |-> 0])
  BY <1>1 DEF Owners, Met, Resting
<1> QED
  BY <1>3, <1>4, <1>5, <1>6, <1>7 DEF Account

LEMMA AccountAgrees == CatalogInv /\ Account => CatalogAgrees
<1> SUFFICES ASSUME CatalogInv, Account, mounted, cursor = now,
                    NEW e \in Entities \ outdated, IdentityOf[e] \notin spared
             PROVE  Agrees(e)
  BY DEF CatalogAgrees
<1>0. Right(e) => Agrees(e)
  BY DEF Right, Agrees, Hydrated, Inside
<1>1. CASE Gone(e)
  <2>1. ~Active(table, e) /\ library[e].file = 0
    BY <1>1 DEF Account, Agreement, ArrAccount
  <2> QED
    BY <1>0, <2>1 DEF Right, Inside
<1>2. CASE \E t \in Nat : Last(e, t)
  <2>1. PICK t \in Nat : Last(e, t)
    BY <1>2
  <2>2. t <= now
    BY <2>1 DEF Account, ArrAccount, Last
  <2>3. Reconciled(e, t)
    BY <2>1, <2>2 DEF Account, CursorAccount
  <2> QED
    BY <1>0, <2>1, <2>3 DEF Account, Agreement
<1>3. CASE ~Seen(e)
  <2>1. PICK own : Owners(own)
    BY DEF Account
  <2>2. library[e].file = 0 /\ table.rows[e].file = 0
    BY <1>3, <2>1 DEF Owners, Met
  <2> QED
    BY <1>0, <2>2 DEF Right, Inside, Active, Known
<1> QED
  BY <1>1, <1>2, <1>3 DEF Seen

-----------------------------------------------------------------------------
(* Arr moves on *)

\* What a change of Arr's may do to an entity: nothing; give it a later record;
\* or remove it.
Same(e) ==
  library'[e] = library[e] /\ (Gone(e)' <=> Gone(e)) /\ \A t \in Nat : Last(e, t)' <=> Last(e, t)

Fresh(e) ==
  /\ ~Gone(e)' /\ \A t \in Nat : Last(e, t)' <=> t = now + 1
  /\ library'[e].file \in {library[e].file, 0, now + 1}

Left(e) == Gone(e)' /\ library'[e].file = 0 /\ \A t \in Nat : ~Last(e, t)'

Moves == now \in Nat /\ now' = now + 1 /\ \A e \in Entities : Same(e) \/ Fresh(e) \/ Left(e)

\* A deleted file stays deleted.
LEMMA DeadKept ==
  ASSUME Moves
  PROVE  \A f : Dead(f) => Dead(f)'
<1> SUFFICES ASSUME NEW f, Dead(f) PROVE Dead(f)'
  OBVIOUS
<1>1. f \in Nat \ {0} /\ f <= now /\ \A e \in Entities : library[e].file # f
  BY DEF Dead
<1>2. \A e \in Entities : library'[e].file # f
  BY <1>1 DEF Moves, Same, Fresh, Left
<1> QED
  BY <1>1, <1>2 DEF Dead, Moves

LEMMA SeenKept ==
  ASSUME Moves
  PROVE  \A e \in Entities : Seen(e) => Seen(e)'
<1>1. now + 1 \in Nat
  BY DEF Moves
<1> QED
  BY <1>1 DEF Moves, Seen, Same, Fresh, Left

LEMMA ArrKeeps ==
  ASSUME CatalogInv, Account, removed \subseteq removed',
         UNCHANGED <<table, handler, run, cursor, replays, outdated, spared>>,
         Moves, (ArrAccount /\ HooksAccount)', (\E own : Owners(own))'
  PROVE  Account'
<1>1. now \in Nat /\ cursor \in Nat /\ cursor <= now /\ now' = now + 1
  BY DEF Moves, Account, CursorAccount
<1>2. \A f : Dead(f) => Dead(f)'
  BY DeadKept
<1>3. \A e : Gone(e) => Gone(e)'
  BY DEF Gone
<1>4. \A e \in Entities : Seen(e) => Seen(e)'
  BY SeenKept
<1>5. \A e \in Entities, t \in Nat : Last(e, t)' => (Last(e, t) /\ Same(e)) \/ (t = now + 1 /\ Fresh(e))
  BY DEF Moves, Same, Fresh, Left
<1>6. \A e, t : Reconciled(e, t)' <=> Reconciled(e, t)
  BY DEF Reconciled
<1>7. \A i : Snapped(i)' <=> Snapped(i)
  BY DEF Snapped
<1>8. HandlerAccount'
  <2> SUFFICES ASSUME handler.phase = "apply", EventAccount(handler.mutation)
               PROVE  EventAccount(handler.mutation)'
    BY DEF Account, HandlerAccount
  <2> QED
    BY <1>2, <1>3 DEF EventAccount
<1>9. RowsAccount'
  <2> SUFFICES ASSUME NEW e \in Entities, table.rows[e].file # 0, table.rows[e].deleted, ~Gone(e)'
               PROVE  \E t \in Nat : /\ Last(e, t)' /\ table.rows[e].entityDeletedAt <= t
                                     /\ table.rows[e].deletedAt <= t \/ Dead(table.rows[e].file)'
    BY DEF RowsAccount, RowAccount
  <2>1. PICK t \in Nat : /\ Last(e, t) /\ table.rows[e].entityDeletedAt <= t
                         /\ table.rows[e].deletedAt <= t \/ Dead(table.rows[e].file)
    BY <1>3 DEF Account, RowsAccount, RowAccount
  <2>2. t <= now /\ table.rows[e].entityDeletedAt \in Nat /\ table.rows[e].deletedAt \in Nat
    BY <2>1 DEF Account, ArrAccount, Last, CatalogInv, TableSound, IsTable, TablesOver, Row
  <2>3. CASE Same(e)
    BY <1>2, <2>1, <2>3 DEF Same
  <2>4. CASE Fresh(e)
    <3>1. PICK n \in Nat : n = now + 1
      BY <1>1
    <3>2. Last(e, n)' /\ table.rows[e].entityDeletedAt <= n
      BY <1>1, <2>1, <2>2, <2>4, <3>1 DEF Fresh
    <3>3. table.rows[e].deletedAt <= n \/ Dead(table.rows[e].file)'
      BY <1>1, <1>2, <2>1, <2>2, <3>1
    <3> QED
      BY <3>2, <3>3
  <2> QED
    BY <2>3, <2>4 DEF Left, Moves
<1>10. EventsAccount' /\ CursorAccount'
  BY <1>1, <1>3, <1>5, <1>6, <1>7 DEF Account, EventsAccount, CursorAccount, Active, Known
<1>11. \A e \in Entities, t \in Nat : Reconciled(e, t) => t <= now
  BY DEF Account, EventsAccount
<1>12. ListedAccount'
  <2> SUFFICES ASSUME run.phase = "listed", NEW e \in DOMAIN run.items
               PROVE  /\ run.items[e].path \notin Outside /\ ~Snapped(IdentityOf[e])'
                      /\ run.items[e] # library'[e] =>
                            cursor # now + 1 /\ \A t \in Nat : Last(e, t)' => ~Reconciled(e, t)'
    BY DEF ListedAccount, Moves
  <2>1. e \in Entities
    BY DEF CatalogInv, ListedSound
  <2>2. /\ run.items[e].path \notin Outside /\ ~Snapped(IdentityOf[e])
        /\ run.items[e] # library[e] => \A t \in Nat : Last(e, t) => ~Reconciled(e, t)
    BY DEF Account, ListedAccount
  <2>3. cursor # now + 1
    BY <1>1
  <2>4. ASSUME run.items[e] # library'[e], NEW t \in Nat, Last(e, t)', Reconciled(e, t)' PROVE FALSE
    BY <1>1, <1>5, <1>6, <1>11, <2>1, <2>2, <2>4 DEF Same
  <2> QED
    BY <1>7, <2>2, <2>3, <2>4
<1>13. PageAccount'
  BY <1>1, <1>6 DEF Account, PageAccount, CatalogInv, WindowSound
<1>14. ASSUME run.phase \in {"window", "changes", "commit"}
       PROVE  run.pageEnd \in Nat /\ run.pageEnd < now + 1 /\ run.pageEnd # now'
  BY <1>1, <1>14 DEF Account, PageAccount, CatalogInv, WindowSound
<1>15. LatestAccount'
  <2> SUFFICES ASSUME run.phase = "window" PROVE LatestAccount'
    BY DEF LatestAccount
  <2>1. \A r \in run.latest : r[1] \in Entities /\ r[2] \in Nat
    BY DEF CatalogInv, WindowSound
  <2> QED
    BY <1>1, <1>4, <1>5, <1>14, <2>1 DEF Account, LatestAccount
<1>16. ChangesAccount'
  <2> SUFFICES ASSUME run.phase \in {"changes", "commit"} PROVE ChangesAccount'
    BY DEF ChangesAccount
  <2>1. run.pageEnd \in Nat /\ run.pageEnd < now + 1 /\ run.pageEnd # now'
    BY <1>14
  <2>2. ASSUME NEW m \in run.changes PROVE ChangeAccount(m)'
    <3>1. ChangeAccount(m) /\ m.at \in Nat
      BY DEF Account, ChangesAccount, CatalogInv, ChangesSound, Timely, IsMutation
    <3>2. m.entity \in Entities
      BY <3>1 DEF ChangeAccount
    <3>3. Last(m.entity, m.at)' => Last(m.entity, m.at) /\ library'[m.entity] = library[m.entity]
      BY <1>1, <1>5, <2>1, <3>1, <3>2 DEF ChangeAccount, Same
    <3>4. Last(m.entity, m.at)' => Matches(m)'
      BY <3>1, <3>3 DEF ChangeAccount, Matches, Inside
    <3>5. \A t \in Nat : Last(m.entity, t)' => t = m.at \/ t > run.pageEnd
      BY <1>5, <2>1, <3>1, <3>2 DEF ChangeAccount
    <3> QED
      BY <1>4, <1>7, <2>1, <3>1, <3>2, <3>4, <3>5 DEF ChangeAccount
  <2>3. \A m, n \in run.changes : m.entity = n.entity => m = n
    BY DEF Account, ChangesAccount
  <2>4. ASSUME ~run.deferred, NEW e \in Entities, NEW t \in Nat, Last(e, t)', t <= run.pageEnd, run.cursor <= t
        PROVE  \E m \in run.changes : m.entity = e /\ m.at = t
    <3>1. Last(e, t)
      BY <1>1, <1>5, <2>1, <2>4
    <3> QED
      BY <2>4, <3>1 DEF Account, ChangesAccount
  <2> QED
    BY <2>2, <2>3, <2>4 DEF ChangesAccount
<1>17. CommitAccount'
  BY <1>14 DEF Account, CommitAccount, Missing, ActiveIdentities, Active, Known, Revision
<1>18. Agreement'
  <2> SUFFICES ASSUME NEW e \in Entities \ outdated
               PROVE  /\ \A t \in Nat : Last(e, t)' /\ Reconciled(e, t)' => Right(e)'
                      /\ cursor # now + 1
    BY DEF Agreement, Moves
  <2>1. ASSUME NEW t \in Nat, Last(e, t)', Reconciled(e, t)' PROVE Right(e)'
    <3>1. Last(e, t) /\ Same(e)
      BY <1>1, <1>5, <1>6, <1>11, <2>1
    <3>2. Right(e)
      BY <1>6, <2>1, <3>1 DEF Account, Agreement
    <3> QED
      BY <3>1, <3>2 DEF Same, Right, Inside, Active, Known
  <2> QED
    BY <1>1, <2>1
<1> QED
  BY <1>8, <1>9, <1>10, <1>12, <1>13, <1>15, <1>16, <1>17, <1>18 DEF Account

\* Files Arr held before keep their owner, whoever owns the new one.
LEMMA OwnersMove ==
  ASSUME CatalogInv, NEW own, Owners(own), NEW new, new = [f \in Nat |-> new[f]],
         \A f \in Nat : f <= now => new[f] = own[f],
         Moves, UNCHANGED <<table, handler, run>>,
         \A e \in Entities : library'[e].file \in {library[e].file, 0} \/ Met(new, e, library[e].file)'
  PROVE  Owners(new)'
<1>1. ASSUME NEW e \in Entities, NEW f \in Nat, Held(e, f), Met(own, e, f) PROVE Met(new, e, f)'
  BY <1>1, SeenKept DEF Met, Held
<1>2. ASSUME NEW e \in Entities PROVE Met(new, e, library[e].file)' /\ Met(new, e, table.rows[e].file)'
  <2>1. table.rows[e].file \in Nat /\ library[e].file \in Nat
    BY DEF CatalogInv, ArrSound, TableSound, IsTable, TablesOver, Row, Media
  <2>2. Held(e, table.rows[e].file) /\ Held(e, library[e].file)
    BY <2>1 DEF CatalogInv, ArrSound, TableSound, Held
  <2>3. Met(new, e, table.rows[e].file)'
    BY <1>1, <2>1, <2>2 DEF Owners
  <2>4. CASE library'[e].file = 0
    BY <2>3, <2>4 DEF Met
  <2>5. CASE library'[e].file = library[e].file
    BY <1>1, <2>1, <2>2, <2>3, <2>5 DEF Owners
  <2> QED
    BY <2>3, <2>4, <2>5
<1>3. ASSUME handler.phase = "apply", handler.mutation.type = "import"
      PROVE  Met(new, handler.mutation.entity, handler.mutation.file)'
  <2>1. Timely(handler.mutation)
    BY <1>3 DEF CatalogInv, HandlerSound, Resting
  <2> QED
    BY <1>1, <1>3, <2>1 DEF Owners, Timely, IsMutation
<1>4. ASSUME run.phase = "listed", NEW e \in DOMAIN run.items PROVE Met(new, e, run.items[e].file)'
  BY <1>1, <1>4 DEF Owners, CatalogInv, ListedSound, Media
<1>5. ASSUME run.phase \in {"changes", "commit"}, NEW m \in run.changes, m.type = "import"
      PROVE  Met(new, m.entity, m.file)'
  BY <1>1, <1>5 DEF Owners, CatalogInv, ChangesSound, Timely, IsMutation
<1> QED
  BY <1>2, <1>3, <1>4, <1>5 DEF Owners

\* A record is added to Arr's history.
LEMMA RecordAdded ==
  ASSUME CatalogInv, Account, NEW e \in Entities, ~Gone(e), UNCHANGED removed, now' = now + 1,
         history' = history \cup {<<e, now + 1>>},
         \A x \in Entities : x # e => library'[x] = library[x],
         library'[e].file \in {library[e].file, 0, now + 1}
  PROVE  Moves /\ Fresh(e) /\ \A r \in history' : r[2] <= now'
<1>1. now \in Nat /\ history \in SUBSET (Entities \X Nat) /\ \A r \in history : r[2] <= now
  BY DEF CatalogInv, ArrSound, Account, ArrAccount
<1>2. \A x \in Entities : Gone(x)' <=> Gone(x)
  BY DEF Gone
<1>3. \A r \in history' : r[2] <= now'
  BY <1>1
<1>4. ASSUME NEW t \in Nat PROVE Last(e, t)' <=> t = now + 1
  <2>1. \A q \in history' : q[2] <= now + 1
    BY <1>1
  <2>2. <<e, now + 1>> \in history' /\ <<e, now + 1>>[1] = e /\ <<e, now + 1>>[2] = now + 1
    OBVIOUS
  <2>3. <<e, t>>[2] = t /\ (<<e, t>> \in history => t <= now)
    BY <1>1
  <2>4. ASSUME Last(e, t)' PROVE t = now + 1
    <3>1. now + 1 <= t /\ <<e, t>> \in history'
      BY <2>2, <2>4 DEF Last
    <3> QED
      BY <1>1, <2>3, <3>1
  <2>5. ASSUME t = now + 1 PROVE Last(e, t)'
    BY <2>1, <2>2, <2>5 DEF Last
  <2> QED
    BY <2>4, <2>5
<1>5. Fresh(e)
  BY <1>2, <1>4 DEF Fresh
<1>6. ASSUME NEW x \in Entities, x # e PROVE Same(x)
  <2>1. ASSUME NEW t \in Nat PROVE Last(x, t)' <=> Last(x, t)
    BY <1>1, <1>6, <2>1 DEF Last
  <2> QED
    BY <1>2, <1>6, <2>1 DEF Same
<1> QED
  BY <1>1, <1>3, <1>5, <1>6 DEF Moves

LEMMA HooksMove ==
  ASSUME CatalogInv, Account, Moves, removed \subseteq removed', UNCHANGED inbox,
         \A h \in sent' : h \in sent \/ HookAccount(h)'
  PROVE  HooksAccount'
<1>1. \A h : HookAccount(h) => HookAccount(h)'
  BY DeadKept DEF HookAccount
<1> QED
  BY <1>1 DEF Account, HooksAccount

\* What Arr holds is listed.
LEMMA HeldListed ==
  ASSUME Account, NEW e \in Entities, library[e].file # 0
  PROVE  ~Gone(e) /\ IdentityOf[e] \in listed
<1>1. ~Gone(e) /\ Seen(e)
  BY DEF Account, ArrAccount, Owners, Met
<1>2. PICK t \in Nat : Last(e, t)
  BY <1>1 DEF Seen
<1>3. \A r \in history : IdentityOf[r[1]] \in listed
  BY DEF Account, ArrAccount
<1>4. <<e, t>> \in history /\ <<e, t>>[1] = e
  BY <1>2 DEF Last
<1>5. IdentityOf[<<e, t>>[1]] \in listed
  BY <1>3, <1>4
<1> QED
  BY <1>1, <1>4, <1>5

\* A file that leaves the library is dead.
LEMMA FileDies ==
  ASSUME CatalogInv, Account, NEW e \in Entities, library[e].file # 0, Moves,
         \A x \in Entities : x # e => library'[x] = library[x],
         library'[e].file \in {0, now + 1}, NEW h, h.type = "delete", h.file = library[e].file
  PROVE  HookAccount(h)'
<1>1. PICK own : Owners(own)
  BY DEF Account
<1>2. library[e].file \in Nat \ {0} /\ library[e].file <= now
  BY DEF CatalogInv, ArrSound, Media
<1>3. ASSUME NEW x \in Entities PROVE library'[x].file # h.file
  <2>1. CASE x = e
    BY <1>2, <2>1 DEF Moves
  <2>2. CASE x # e
    BY <1>1, <1>2, <2>2 DEF Owners, Met
  <2> QED
    BY <2>1, <2>2
<1> QED
  BY <1>2, <1>3 DEF HookAccount, Dead, Moves

LEMMA ArrAccounts == CatalogInv /\ Account /\ Arr => Account'
<1> SUFFICES ASSUME CatalogInv, Account, Arr PROVE Account'
  OBVIOUS
<1>1. PICK own : Owners(own)
  BY DEF Account
<1>2. library \in [Entities -> Media] /\ now \in Nat
  BY DEF CatalogInv, ArrSound
<1>3. /\ listed \cap removed = {}
      /\ \A r \in history : r[2] <= now /\ IdentityOf[r[1]] \in listed
      /\ \A e \in Entities : Gone(e) => library[e].file = 0
  BY DEF Account, ArrAccount
<1>4. ASSUME NEW e \in Entities, NEW p \in FilePaths, ArrImport(e, p) PROVE Account'
  <2> USE <1>4 DEF ArrImport, Changed
  <2>1. /\ UNCHANGED <<table, handler, run, cursor, replays, outdated, spared, inbox, removed>>
        /\ now' = now + 1 /\ history' = history \cup {<<e, now + 1>>}
        /\ library' = [library EXCEPT ![e] = [file |-> now + 1, path |-> p]]
        /\ listed' = listed \cup {IdentityOf[e]} /\ ~Gone(e)
    BY DEF inboxVars, storeVars, ghosts, Gone
  <2>2. library'[e].file = now + 1 /\ \A x \in Entities : x # e => library'[x] = library[x]
    BY <1>2, <2>1
  <2>3. Moves /\ Fresh(e) /\ \A r \in history' : r[2] <= now'
    BY <2>1, <2>2, RecordAdded
  <2>4. ArrAccount'
    <3>1. listed' \cap removed' = {}
      BY <1>3, <2>1 DEF Gone
    <3>2. \A r \in history' : IdentityOf[r[1]] \in listed'
      BY <1>3, <2>1
    <3>3. \A x \in Entities : Gone(x)' => library'[x].file = 0
      BY <1>3, <2>1, <2>2 DEF Gone
    <3> QED
      BY <2>3, <3>1, <3>2, <3>3 DEF ArrAccount
  <2>5. HooksAccount'
    <3>1. ASSUME NEW h \in sent', h \notin sent PROVE HookAccount(h)'
      <4>1. CASE h = Hook("import", e, now + 1, p)
        BY <4>1 DEF Hook, HookAccount
      <4>2. CASE \E f \in {library[e].file} \ {0} : h = Hook("delete", e, f, library[e].path)
        <5>1. library[e].file # 0 /\ h.type = "delete" /\ h.file = library[e].file
          BY <4>2 DEF Hook
        <5> QED
          BY <2>2, <2>3, <5>1, FileDies
      <4> QED
        BY <3>1, <4>1, <4>2
    <3> QED
      BY <2>1, <2>3, <3>1, HooksMove
  <2> DEFINE new == [f \in Nat |-> IF f = now + 1 THEN e ELSE own[f]]
  <2>6. \E n : Owners(n)'
    <3>1. Seen(e)'
      <4>1. PICK n \in Nat : n = now + 1
        BY <1>2
      <4>2. Last(e, n)'
        BY <2>3, <4>1 DEF Fresh
      <4> QED
        BY <4>2 DEF Seen
    <3>2. new = [f \in Nat |-> new[f]] /\ \A f \in Nat : f <= now => new[f] = own[f]
      BY <1>2
    <3>3. \E n : n = new
      OBVIOUS
    <3>4. PICK n : n = new
      BY <3>3
    <3>5. n[now + 1] = e /\ n = [f \in Nat |-> n[f]] /\ \A f \in Nat : f <= now => n[f] = own[f]
      BY <1>2, <3>2, <3>4
    <3>6. Met(n, e, library[e].file)'
      BY <2>2, <3>1, <3>5 DEF Met
    <3> HIDE DEF new
    <3>7. \A x \in Entities : library'[x].file \in {library[x].file, 0} \/ Met(n, x, library[x].file)'
      BY <2>2, <3>6
    <3>8. Owners(n)'
      BY <1>1, <2>1, <2>3, <3>5, <3>7, OwnersMove
    <3> QED
      BY <3>8
  <2> QED
    BY <2>1, <2>3, <2>4, <2>5, <2>6, ArrKeeps
<1>5. ASSUME NEW e \in Entities, NEW p \in FilePaths, ArrRename(e, p) PROVE Account'
  <2> USE <1>5 DEF ArrRename, Changed
  <2>1. /\ UNCHANGED <<table, handler, run, cursor, replays, outdated, spared, inbox, removed, listed>>
        /\ now' = now + 1 /\ history' = history \cup {<<e, now + 1>>}
        /\ library' = [library EXCEPT ![e] = [library[e] EXCEPT !.path = p]]
        /\ library[e].file # 0
    BY DEF inboxVars, storeVars, ghosts
  <2>2. /\ \A x \in Entities : library'[x].file = library[x].file
        /\ \A x \in Entities : x # e => library'[x] = library[x]
    BY <1>2, <2>1 DEF Media
  <2>3. ~Gone(e) /\ IdentityOf[e] \in listed
    BY <2>1, HeldListed
  <2>4. Moves /\ \A r \in history' : r[2] <= now'
    BY <2>1, <2>2, <2>3, RecordAdded
  <2>5. ArrAccount'
    BY <1>3, <2>1, <2>2, <2>3, <2>4 DEF ArrAccount, Gone
  <2>6. HooksAccount'
    <3>1. \A h \in sent' : h \in sent \/ HookAccount(h)'
      BY DEF HookAccount, Hook
    <3> QED
      BY <2>1, <2>4, <3>1, HooksMove
  <2>7. Owners(own)'
    BY <1>1, <2>1, <2>2, <2>4, OwnersMove DEF Owners
  <2> QED
    BY <2>1, <2>4, <2>5, <2>6, <2>7, ArrKeeps
<1>6. ASSUME NEW e \in Entities, ArrDeleteFile(e) PROVE Account'
  <2> USE <1>6 DEF ArrDeleteFile, Changed
  <2>1. /\ UNCHANGED <<table, handler, run, cursor, replays, outdated, spared, inbox, removed, listed>>
        /\ now' = now + 1 /\ history' = history \cup {<<e, now + 1>>}
        /\ library' = [library EXCEPT ![e] = Empty]
        /\ library[e].file # 0
    BY DEF inboxVars, storeVars, ghosts
  <2>2. /\ library'[e].file = 0
        /\ \A x \in Entities : x # e => library'[x] = library[x]
    BY <1>2, <2>1 DEF Empty
  <2>3. ~Gone(e) /\ IdentityOf[e] \in listed
    BY <2>1, HeldListed
  <2>4. Moves /\ \A r \in history' : r[2] <= now'
    BY <2>1, <2>2, <2>3, RecordAdded
  <2>5. ArrAccount'
    BY <1>3, <2>1, <2>2, <2>3, <2>4 DEF ArrAccount, Gone
  <2>6. HooksAccount'
    <3>1. ASSUME NEW h \in sent', h \notin sent PROVE HookAccount(h)'
      <4>1. h.type = "delete" /\ h.file = library[e].file
        BY <3>1 DEF Hook
      <4> QED
        BY <2>1, <2>2, <2>4, <4>1, FileDies
    <3> QED
      BY <2>1, <2>4, <3>1, HooksMove
  <2>7. Owners(own)'
    BY <1>1, <2>1, <2>2, <2>4, OwnersMove DEF Owners
  <2> QED
    BY <2>1, <2>4, <2>5, <2>6, <2>7, ArrKeeps
<1>7. ASSUME NEW i \in Identities, ArrRemove(i) PROVE Account'
  <2> USE <1>7 DEF ArrRemove
  <2>1. /\ UNCHANGED <<table, handler, run, cursor, replays, outdated, spared, inbox>>
        /\ now' = now + 1 /\ history' = {r \in history : IdentityOf[r[1]] # i}
        /\ library' = [e \in Entities |-> IF IdentityOf[e] = i THEN Empty ELSE library[e]]
        /\ removed' = removed \cup {i} /\ listed' = listed \ {i} /\ i \in listed
    BY DEF inboxVars, storeVars, ghosts
  <2>2. ASSUME NEW e \in Entities, IdentityOf[e] = i PROVE Left(e)
    BY <2>1, <2>2 DEF Left, Gone, Last, Empty
  <2>3. ASSUME NEW e \in Entities, IdentityOf[e] # i PROVE Same(e)
    <3>1. \A t \in Nat : Last(e, t)' <=> Last(e, t)
      BY <2>1, <2>3 DEF Last
    <3> QED
      BY <2>1, <2>3, <3>1 DEF Same, Gone
  <2>4. Moves
    BY <1>2, <2>1, <2>2, <2>3 DEF Moves
  <2>5. ArrAccount'
    <3>1. ASSUME NEW e \in Entities, Gone(e)' PROVE library'[e].file = 0
      BY <1>3, <2>2, <2>3, <3>1 DEF Same, Left
    <3>2. \A r \in history' : r[2] <= now' /\ IdentityOf[r[1]] \in listed'
      BY <1>2, <1>3, <2>1 DEF CatalogInv, ArrSound
    <3> QED
      BY <1>3, <2>1, <3>1, <3>2 DEF ArrAccount
  <2>6. HooksAccount'
    <3>1. \A h \in sent' : h \in sent \/ HookAccount(h)'
      BY <2>1 DEF HookAccount
    <3> QED
      BY <2>1, <2>4, <3>1, HooksMove
  <2>7. Owners(own)'
    <3>1. \A e \in Entities : library'[e].file \in {library[e].file, 0}
      BY <2>2, <2>3 DEF Same, Left
    <3> QED
      BY <1>1, <2>1, <2>4, <3>1, OwnersMove DEF Owners
  <2> QED
    BY <2>1, <2>4, <2>5, <2>6, <2>7, ArrKeeps
<1> QED
  BY <1>4, <1>5, <1>6, <1>7 DEF Arr

-----------------------------------------------------------------------------
(* Steps that change neither Arr nor the tables *)

RunAccount == ListedAccount /\ PageAccount /\ LatestAccount /\ ChangesAccount /\ CommitAccount

Calm == UNCHANGED <<now, library, listed, removed, history, table, cursor, replays, outdated, spared>>

LEMMA StoreAccounts ==
  ASSUME Account, Calm
  PROVE  (ArrAccount /\ RowsAccount /\ EventsAccount /\ CursorAccount /\ Agreement)'
<1> USE DEF Account, Calm
<1>1. \A e, t : Last(e, t)' <=> Last(e, t)
  BY DEF Last
<1>2. \A e : Gone(e)' <=> Gone(e)
  BY DEF Gone
<1>3. \A f : Dead(f)' <=> Dead(f)
  BY DEF Dead
<1>4. ArrAccount'
  BY <1>2 DEF ArrAccount
<1>5. RowsAccount'
  BY <1>1, <1>2, <1>3 DEF RowsAccount, RowAccount
<1>6. EventsAccount'
  BY <1>2 DEF EventsAccount, Reconciled, Snapped, Active, Known
<1>7. CursorAccount'
  BY <1>1 DEF CursorAccount, Reconciled
<1>8. Agreement'
  BY <1>1, <1>2 DEF Agreement, Reconciled, Right, Inside, Active, Known
<1> QED
  BY <1>4, <1>5, <1>6, <1>7, <1>8

LEMMA RunAccounts ==
  ASSUME Account, Calm, run' = run \/ run'.phase \in {"idle", "ready", "discover"}
  PROVE  RunAccount'
<1> USE DEF Account, Calm, RunAccount
<1>1. CASE run'.phase \in {"idle", "ready", "discover"}
  BY <1>1 DEF ListedAccount, PageAccount, LatestAccount, ChangesAccount, CommitAccount
<1>2. CASE run' = run
  <2>1. \A e, t : Last(e, t)' <=> Last(e, t)
    BY DEF Last
  <2>2. \A e : Seen(e)' <=> Seen(e)
    BY DEF Seen, Gone, Last
  <2>3. \A i : Snapped(i)' <=> Snapped(i)
    BY DEF Snapped
  <2>4. ListedAccount'
    BY <1>2, <2>1, <2>3 DEF ListedAccount, Reconciled
  <2>5. PageAccount'
    BY <1>2 DEF PageAccount, Reconciled
  <2>6. LatestAccount'
    BY <1>2, <2>1, <2>2 DEF LatestAccount
  <2>7. \A m : ChangeAccount(m) => ChangeAccount(m)'
    BY <1>2, <2>1, <2>2, <2>3 DEF ChangeAccount, Matches, Inside
  <2>8. ChangesAccount'
    BY <1>2, <2>1, <2>7 DEF ChangesAccount
  <2>9. CommitAccount'
    BY <1>2 DEF CommitAccount, Missing, ActiveIdentities, Active, Known, Revision
  <2> QED
    BY <2>4, <2>5, <2>6, <2>8, <2>9
<1> QED
  BY <1>1, <1>2

LEMMA HandlerAccounts ==
  ASSUME Account, Calm, handler' = handler \/ handler'.phase # "apply"
  PROVE  HandlerAccount'
<1> USE DEF Account, Calm
<1>1. \A m : EventAccount(m) => EventAccount(m)'
  BY DEF EventAccount, Dead, Gone
<1> QED
  BY <1>1 DEF HandlerAccount

\* The files the run and the handler brought along belong to their entities.
RunMet(own) ==
  /\ run.phase = "listed" => \A e \in DOMAIN run.items : Met(own, e, run.items[e].file)
  /\ run.phase \in {"changes", "commit"} =>
        \A m \in run.changes : m.type = "import" => Met(own, m.entity, m.file)

HandlerMet(own) ==
  handler.phase = "apply" /\ handler.mutation.type = "import" =>
     Met(own, handler.mutation.entity, handler.mutation.file)

LEMMA OwnersKept ==
  ASSUME Calm, NEW own, Owners(own),
         handler' = handler \/ HandlerMet(own)', run' = run \/ RunMet(own)'
  PROVE  Owners(own)'
<1>1. \A e, f : Met(own, e, f) => Met(own, e, f)'
  BY DEF Calm, Met, Seen, Gone, Last
<1>2. HandlerMet(own)' /\ RunMet(own)'
  BY <1>1 DEF Owners, HandlerMet, RunMet
<1> QED
  BY <1>1, <1>2 DEF Owners, HandlerMet, RunMet, Calm

\* The mount, the webhooks on their way, and the ends of a webhook or a run.
LEMMA CalmSteps ==
  ASSUME CatalogInv, Account, Calm, HooksAccount',
         handler' = handler \/ handler'.phase # "apply",
         run' = run \/ run'.phase \in {"idle", "ready", "discover"}
  PROVE  Account'
<1>1. PICK own : Owners(own)
  BY DEF Account
<1>2. HandlerMet(own)' \/ handler' = handler
  BY DEF HandlerMet
<1>3. RunMet(own)' \/ run' = run
  BY DEF RunMet
<1>4. Owners(own)'
  BY <1>1, <1>2, <1>3, OwnersKept
<1> QED
  BY <1>4, StoreAccounts, RunAccounts, HandlerAccounts DEF Account, RunAccount

LEMMA HooksKept ==
  ASSUME Account, UNCHANGED <<now, library, removed>>, \A h \in sent' : h \in sent,
         \A n \in DOMAIN inbox' : inbox'[n].hook \in sent \cup {inbox[k].hook : k \in DOMAIN inbox}
  PROVE  HooksAccount'
<1>1. \A h : HookAccount(h) => HookAccount(h)'
  BY DEF HookAccount, Dead
<1> QED
  BY <1>1 DEF Account, HooksAccount

LEMMA InboxKept ==
  ASSUME ArrSound, Account, UNCHANGED <<now, library, removed, sent>>,
         NEW n, inbox' = Without(n) \/ (n \in DOMAIN inbox /\ inbox' = [inbox EXCEPT ![n].attempt = @ + 1])
  PROVE  HooksAccount'
<1>1. inbox \in Seq(Items)
  BY DEF ArrSound
<1>2. CASE inbox' = Without(n)
  <2>1. ASSUME NEW m \in DOMAIN inbox' PROVE \E k \in DOMAIN inbox : inbox'[m].hook = inbox[k].hook
    <3>1. m \in 1..(Len(inbox) - 1) /\ inbox'[m] = inbox[IF m < n THEN m ELSE m + 1]
      BY <1>2, <2>1 DEF Without
    <3>2. m \in DOMAIN inbox /\ m + 1 \in DOMAIN inbox
      BY <1>1, <3>1
    <3> QED
      BY <3>1, <3>2
  <2> QED
    BY <2>1, HooksKept
<1>3. CASE n \in DOMAIN inbox /\ inbox' = [inbox EXCEPT ![n].attempt = @ + 1]
  <2>1. ASSUME NEW m \in DOMAIN inbox' PROVE m \in DOMAIN inbox /\ inbox'[m].hook = inbox[m].hook
    <3>1. DOMAIN inbox' = DOMAIN inbox /\ inbox[m] \in Items
      BY <1>1, <1>3, <2>1
    <3> QED
      BY <1>1, <1>3, <2>1, <3>1 DEF Items
  <2> QED
    BY <2>1, HooksKept
<1> QED
  BY <1>2, <1>3

LEMMA QuietAccounts ==
  ASSUME CatalogInv, Account,
         \/ MountLost \/ MountBack \/ \E h \in sent : HookLost(h) \/ Receive(h)
         \/ (\E n \in DOMAIN inbox : HandleFails(n)) \/ DeleteWebhook
         \/ StartRun \/ RunFails \/ Crash
  PROVE  Account'
<1> USE DEF world, arrVars, inboxVars, storeVars, ghosts
<1>1. Calm
  BY DEF Calm, MountLost, MountBack, HookLost, Receive, HandleFails, DeleteWebhook, StartRun, RunFails, Crash
<1>2. handler' \in {handler, Resting}
  <2>1. CASE MountLost \/ MountBack \/ \E h \in sent : HookLost(h) \/ Receive(h)
    BY <2>1 DEF MountLost, MountBack, HookLost, Receive
  <2>2. CASE (\E n \in DOMAIN inbox : HandleFails(n)) \/ DeleteWebhook
    BY <2>2 DEF HandleFails, DeleteWebhook
  <2>3. CASE StartRun \/ RunFails \/ Crash
    BY <2>3 DEF StartRun, RunFails, Crash
  <2> QED
    BY <2>1, <2>2, <2>3
<1>3. run' = run \/ run'.phase \in {"idle", "ready", "discover"}
  <2>1. CASE MountLost \/ MountBack \/ \E h \in sent : HookLost(h) \/ Receive(h)
    BY <2>1 DEF MountLost, MountBack, HookLost, Receive
  <2>2. CASE (\E n \in DOMAIN inbox : HandleFails(n)) \/ DeleteWebhook
    BY <2>2 DEF HandleFails, DeleteWebhook
  <2>3. CASE StartRun \/ RunFails \/ Crash
    BY <2>3 DEF StartRun, RunFails, Crash, Resting
  <2> QED
    BY <2>1, <2>2, <2>3
<1>4. HooksAccount'
  <2>1. inbox \in Seq(Items) /\ ArrSound
    BY DEF CatalogInv, ArrSound
  <2>2. CASE MountLost \/ MountBack \/ (\E h \in sent : HookLost(h)) \/ StartRun \/ RunFails \/ Crash
    <3>1. inbox' = inbox /\ \A h \in sent' : h \in sent
      BY <2>2 DEF MountLost, MountBack, HookLost, StartRun, RunFails, Crash
    <3> QED
      BY <1>1, <3>1, HooksKept DEF Calm
  <2>3. ASSUME NEW h \in sent, Receive(h) PROVE HooksAccount'
    <3> DEFINE item == [hook |-> h, at |-> now, attempt |-> 0]
    <3>1. inbox' = Append(inbox, item) /\ sent' = sent \ {h} /\ item.hook = h
      BY <2>3 DEF Receive
    <3> HIDE DEF item
    <3>2. ASSUME NEW m \in DOMAIN inbox' PROVE (m \in DOMAIN inbox /\ inbox'[m] = inbox[m]) \/ inbox'[m] = item
      BY <2>1, <3>1, <3>2
    <3> QED
      BY <1>1, <3>1, <3>2, HooksKept DEF Calm
  <2>4. ASSUME NEW n \in DOMAIN inbox, HandleFails(n) PROVE HooksAccount'
    <3>1. inbox' = Without(n) \/ inbox' = [inbox EXCEPT ![n].attempt = @ + 1]
      BY <2>4 DEF HandleFails
    <3>2. UNCHANGED <<now, library, removed, sent>>
      BY <2>4 DEF HandleFails
    <3> QED
      BY <2>1, <3>1, <3>2, InboxKept
  <2>5. CASE DeleteWebhook
    BY <2>1, <2>5, InboxKept DEF DeleteWebhook
  <2> QED
    BY <2>2, <2>3, <2>4, <2>5
<1>5. handler' = handler \/ handler'.phase # "apply"
  BY <1>2 DEF Resting
<1> QED
  BY <1>1, <1>3, <1>4, <1>5, CalmSteps

\* A webhook that is taken up says what Arr holds, or that something is gone.
LEMMA HandleAccounts ==
  ASSUME CatalogInv, Account, NEW n \in DOMAIN inbox, Handle(n)
  PROVE  Account'
<1> DEFINE h == inbox[n].hook
           m == handler'.mutation
<1>1. Calm /\ UNCHANGED <<sent, inbox, run>>
  BY DEF Handle, Calm, world, arrVars, storeVars, ghosts
<1>2. inbox[n] \in Items /\ h \in Hooks /\ HookAccount(h)
  <2>1. inbox[n] \in Items
    BY DEF CatalogInv, ArrSound
  <2> QED
    BY <2>1 DEF Items, Account, HooksAccount
<1>3. PICK own : Owners(own)
  BY DEF Account
<1>4. ASSUME handler'.phase = "apply" PROVE EventAccount(m) /\ (m.type = "import" => Met(own, m.entity, m.file))
  <2>1. HookID(h) \notin table.events
    BY <1>4 DEF Handle
  <2>2. CASE h.type = "delete"
    <3>1. m = DeleteFile(HookID(h), h.file, inbox[n].at)
      BY <1>4, <2>1, <2>2 DEF Handle, Mutation
    <3> QED
      BY <1>2, <2>1, <2>2, <3>1 DEF DeleteFile, EventAccount, HookAccount
  <2>3. CASE h.type = "remove"
    <3>1. m = DeleteTop(HookID(h), h.identity, inbox[n].at)
      BY <1>4, <2>1, <2>3 DEF Handle, Mutation
    <3>2. h.identity \in removed /\ h.identity \in Identities
      BY <1>2, <2>3 DEF HookAccount, Hooks
    <3>3. CASE h.identity \in Entities
      <4>1. m = DeleteEntity(HookID(h), h.identity, inbox[n].at)
        BY <3>1, <3>3 DEF DeleteTop
      <4>2. IdentityOf[h.identity] = h.identity
        BY <3>2, <3>3, CatalogAssumption DEF Identities
      <4> QED
        BY <1>2, <2>1, <3>2, <3>3, <4>1, <4>2 DEF DeleteEntity, EventAccount, Gone
    <3>4. CASE h.identity \notin Entities
      <4>1. m = DeleteIdentity(HookID(h), h.identity, inbox[n].at)
        BY <3>1, <3>4 DEF DeleteTop
      <4> QED
        BY <1>2, <2>1, <3>2, <4>1 DEF DeleteIdentity, EventAccount
    <3> QED
      BY <3>3, <3>4
  <2>4. CASE h.type \notin {"delete", "remove"}
    <3>1. PICK e \in Holder(h) : Hydrated(e) = "present" /\ m = Mutation(inbox[n], e)
      BY <1>4, <2>1, <2>4 DEF Handle
    <3>2. m = Import(HookID(h), e, library[e], inbox[n].at, FALSE) /\ e \in Entities
      BY <2>4, <3>1 DEF Mutation, Holder
    <3>3. library[e].path \notin Outside
      BY <3>1 DEF Hydrated
    <3>4. Met(own, e, library[e].file)
      BY <1>3, <3>2 DEF Owners
    <3> QED
      BY <1>2, <2>1, <3>2, <3>3, <3>4 DEF Import, EventAccount
  <2> QED
    BY <2>2, <2>3, <2>4
<1>5. HandlerAccount'
  <2>1. \A x : EventAccount(x) => EventAccount(x)'
    BY <1>1 DEF Calm, EventAccount, Dead, Gone
  <2> QED
    BY <1>4, <2>1 DEF HandlerAccount
<1>6. HandlerMet(own)'
  <2>1. \A e, f : Met(own, e, f) => Met(own, e, f)'
    BY <1>1 DEF Calm, Met, Seen, Gone, Last
  <2> QED
    BY <1>4, <2>1 DEF HandlerMet
<1>7. Owners(own)'
  BY <1>1, <1>3, <1>6, OwnersKept
<1>8. HooksAccount'
  BY <1>1, HooksKept DEF Calm
<1> QED
  BY <1>1, <1>5, <1>7, <1>8, StoreAccounts, RunAccounts DEF Account, RunAccount

-----------------------------------------------------------------------------
(* What the reconciler reads *)

LEMMA ReadSteps ==
  ASSUME Account, Calm, UNCHANGED <<sent, inbox, handler>>, RunAccount',
         NEW own, Owners(own), RunMet(own)'
  PROVE  Account'
<1>1. Owners(own)'
  BY OwnersKept
<1>2. HooksAccount'
  BY HooksKept DEF Calm
<1> QED
  BY <1>1, <1>2, StoreAccounts, HandlerAccounts DEF Account, RunAccount

LEMMA MetKept ==
  ASSUME Calm
  PROVE  /\ \A own, e, f : Met(own, e, f) => Met(own, e, f)'
         /\ \A e, t : Last(e, t)' <=> Last(e, t)
         /\ \A e : Seen(e)' <=> Seen(e)
         /\ \A i : Snapped(i)' <=> Snapped(i)
         /\ \A e, t : Reconciled(e, t)' <=> Reconciled(e, t)
BY DEF Calm, Met, Seen, Gone, Last, Snapped, Reconciled

\* A file Arr holds was not swept away by a snapshot.
LEMMA HeldStays ==
  ASSUME Account, NEW e \in Entities, Hydrated(e) = "present"
  PROVE  library[e].path \notin Outside /\ library[e].file # 0 /\ ~Snapped(IdentityOf[e])
BY DEF Hydrated, Account, EventsAccount, ArrAccount

LEMMA ListAccounts ==
  ASSUME CatalogInv, Account, ListLibrary
  PROVE  Account'
<1> DEFINE present == {x \in Entities : Hydrated(x) = "present"}
<1>1. Calm /\ UNCHANGED <<sent, inbox, handler>>
  BY DEF ListLibrary, Calm, world, arrVars, storeVars, inboxVars, ghosts
<1>2. run'.phase = "listed" /\ run'.items = [e \in present |-> library[e]]
  BY DEF ListLibrary
<1>3. PICK own : Owners(own)
  BY DEF Account
<1>4. ASSUME NEW e \in DOMAIN run'.items
      PROVE  /\ run'.items[e] = library'[e] /\ run'.items[e].path \notin Outside
             /\ ~Snapped(IdentityOf[e])' /\ Met(own, e, run.items[e].file)'
  <2>1. e \in Entities /\ Hydrated(e) = "present" /\ run'.items[e] = library[e]
    BY <1>2, <1>4
  <2>2. library' = library
    BY <1>1 DEF Calm
  <2>3. Met(own, e, library[e].file)
    BY <1>3, <2>1 DEF Owners
  <2>4. Met(own, e, library[e].file)'
    BY <1>1, <2>2, <2>3 DEF Met, Seen, Last, Gone, Calm
  <2> QED
    BY <1>1, <2>1, <2>2, <2>4, HeldStays, MetKept
<1>5. RunAccount'
  BY <1>2, <1>4 DEF RunAccount, ListedAccount, PageAccount, LatestAccount, ChangesAccount, CommitAccount
<1>6. RunMet(own)'
  BY <1>2, <1>4 DEF RunMet
<1> QED
  BY <1>1, <1>3, <1>5, <1>6, ReadSteps

LEMMA WindowAccounts ==
  ASSUME CatalogInv, Account, ReadHistory
  PROVE  Account'
<1>1. Calm /\ UNCHANGED <<sent, inbox, handler>>
  BY DEF ReadHistory, Calm, world, arrVars, storeVars, inboxVars, ghosts
<1>2. /\ run'.phase = "window" /\ run'.cursor = cursor /\ run'.pageEnd = now
      /\ run'.latest = {r \in history : InWindow(r) /\ \A q \in history : q[1] = r[1] => q[2] <= r[2]}
  BY DEF ReadHistory
<1>3. PICK own : Owners(own)
  BY DEF Account
<1>4. /\ now \in Nat /\ cursor \in Nat /\ cursor <= now
      /\ history \in SUBSET (Entities \X Nat) /\ \A r \in history : r[2] <= now
  BY DEF CatalogInv, ArrSound, Account, CursorAccount, ArrAccount
<1>5. PageAccount'
  BY <1>1, <1>2, <1>4, MetKept DEF PageAccount, Account, EventsAccount, Calm
<1>6. LatestAccount'
  <2>1. ASSUME NEW r \in run'.latest PROVE r = <<r[1], r[2]>> /\ r[1] \in Entities /\ r[2] \in Nat /\ Last(r[1], r[2])
    BY <1>2, <1>4, <2>1 DEF Last
  <2>2. \A e, t, u : t \in Nat /\ u \in Nat /\ Last(e, t) /\ Last(e, u) => t = u
    <3> SUFFICES ASSUME NEW e, NEW t \in Nat, NEW u \in Nat, Last(e, t), Last(e, u) PROVE t = u
      OBVIOUS
    <3>1. <<e, t>> \in history /\ <<e, t>>[1] = e /\ <<e, t>>[2] = t
      BY DEF Last
    <3>2. <<e, u>> \in history /\ <<e, u>>[1] = e /\ <<e, u>>[2] = u
      BY DEF Last
    <3>3. t <= u /\ u <= t
      BY <3>1, <3>2 DEF Last
    <3> QED
      BY <3>3
  <2>3. ASSUME NEW r \in run'.latest
        PROVE  /\ r[2] <= run'.pageEnd /\ Seen(r[1])'
               /\ \A t \in Nat : Last(r[1], t)' => t = r[2] \/ t > run'.pageEnd
    BY <1>1, <1>2, <1>4, <2>1, <2>2, MetKept DEF Seen
  <2>4. \A r, q \in run'.latest : r[1] = q[1] => r = q
    BY <2>1, <2>2
  <2>5. ASSUME NEW e \in Entities, NEW t \in Nat, Last(e, t)', t <= run'.pageEnd, ~(t < run'.cursor)
        PROVE  <<e, t>> \in run'.latest
    <3>1. Last(e, t)
      BY <1>1, <2>5, MetKept
    <3>2. <<e, t>> \in history /\ <<e, t>>[1] = e /\ <<e, t>>[2] = t
      BY <3>1 DEF Last
    <3>3. InWindow(<<e, t>>)
      BY <1>2, <1>4, <2>5, <3>2 DEF InWindow
    <3> QED
      BY <1>2, <3>1, <3>2, <3>3 DEF Last
  <2> QED
    BY <2>3, <2>4, <2>5 DEF LatestAccount
<1>7. RunAccount' /\ RunMet(own)'
  BY <1>2, <1>5, <1>6 DEF RunAccount, ListedAccount, ChangesAccount, CommitAccount, RunMet
<1> QED
  BY <1>1, <1>3, <1>7, ReadSteps

LEMMA HydrateAccounts ==
  ASSUME CatalogInv, Account, HydrateChanges
  PROVE  Account'
<1> DEFINE readable == {r \in run.latest : Hydrated(r[1]) # "unavailable"}
<1>1. Calm /\ UNCHANGED <<sent, inbox, handler>> /\ run.phase = "window"
  BY DEF HydrateChanges, Calm, world, arrVars, storeVars, inboxVars, ghosts
<1>2. /\ run'.phase = "changes" /\ run'.cursor = run.cursor /\ run'.pageEnd = run.pageEnd
      /\ run'.changes = {HistoryMutation(r) : r \in readable}
      /\ run'.deferred = (readable # run.latest)
  BY DEF HydrateChanges
<1>3. PICK own : Owners(own)
  BY DEF Account
<1>4. ASSUME NEW r \in readable
      PROVE  /\ r = <<r[1], r[2]>> /\ r[1] \in Entities /\ r[2] \in Nat
             /\ r[2] <= run.pageEnd /\ Seen(r[1])
             /\ \A t \in Nat : Last(r[1], t) => t = r[2] \/ t > run.pageEnd
  BY <1>1 DEF CatalogInv, WindowSound, Account, LatestAccount
<1>5. ASSUME NEW r \in readable
      PROVE  LET m == HistoryMutation(r)
             IN  /\ m.type \in {"import", "deleteEntity"} /\ m.entity = r[1] /\ m.at = r[2]
                 /\ m.id = <<"reconcile", r[1], r[2]>>
                 /\ Matches(m)
                 /\ m.type = "import" => /\ m.path \notin Outside /\ ~Snapped(IdentityOf[r[1]])
                                         /\ Met(own, r[1], m.file)
  <2> DEFINE m == HistoryMutation(r)
  <2>1. r[1] \in Entities /\ Hydrated(r[1]) # "unavailable"
    BY <1>4
  <2>2. CASE Hydrated(r[1]) = "present"
    <3>1. m = Import(<<"reconcile", r[1], r[2]>>, r[1], library[r[1]], r[2], TRUE)
      BY <2>2 DEF HistoryMutation
    <3>2. library[r[1]].path \notin Outside /\ library[r[1]].file # 0 /\ ~Snapped(IdentityOf[r[1]])
      BY <2>1, <2>2, HeldStays
    <3>3. library[r[1]] = [file |-> library[r[1]].file, path |-> library[r[1]].path]
      BY <2>1 DEF CatalogInv, ArrSound, Media
    <3>4. Met(own, r[1], library[r[1]].file)
      BY <1>3, <2>1 DEF Owners
    <3>5. /\ m.type = "import" /\ m.entity = r[1] /\ m.at = r[2] /\ m.id = <<"reconcile", r[1], r[2]>>
          /\ m.file = library[r[1]].file /\ m.path = library[r[1]].path
      BY <3>1 DEF Import
    <3> HIDE DEF m
    <3>6. Matches(m)
      BY <3>2, <3>3, <3>5 DEF Matches, Inside
    <3> QED
      BY <3>2, <3>4, <3>5, <3>6 DEF m
  <2>3. CASE Hydrated(r[1]) # "present"
    <3>1. m = DeleteEntity(<<"reconcile", r[1], r[2]>>, r[1], r[2])
      BY <2>3 DEF HistoryMutation
    <3>2. ~Inside(r[1])
      BY <2>1, <2>3 DEF Hydrated, Inside
    <3>3. m.type = "deleteEntity" /\ m.entity = r[1] /\ m.at = r[2] /\ m.id = <<"reconcile", r[1], r[2]>>
      BY <3>1 DEF DeleteEntity
    <3> HIDE DEF m
    <3>4. Matches(m)
      BY <3>2, <3>3 DEF Matches
    <3> QED
      BY <3>3, <3>4 DEF m
  <2> QED
    BY <2>2, <2>3
<1> HIDE DEF readable
<1>6. ASSUME NEW m \in run'.changes PROVE ChangeAccount(m)' /\ (m.type = "import" => Met(own, m.entity, m.file)')
  <2>1. PICK r \in readable : m = HistoryMutation(r)
    BY <1>2, <1>6
  <2>2. /\ m.type \in {"import", "deleteEntity"} /\ m.entity = r[1] /\ m.at = r[2]
        /\ m.id = <<"reconcile", r[1], r[2]>> /\ Matches(m)
        /\ m.type = "import" => /\ m.path \notin Outside /\ ~Snapped(IdentityOf[r[1]])
                                /\ Met(own, r[1], m.file)
    BY <1>5, <2>1
  <2>3. Matches(m)'
    BY <1>1, <2>2 DEF Matches, Inside, Calm
  <2>4. m.entity \in Entities /\ m.at <= run'.pageEnd /\ Seen(m.entity)'
    BY <1>1, <1>2, <1>4, <2>2, MetKept
  <2>5. \A t \in Nat : Last(m.entity, t)' => t = m.at \/ t > run'.pageEnd
    BY <1>1, <1>2, <1>4, <2>2, MetKept
  <2>6. m.type = "import" => m.path \notin Outside /\ ~Snapped(IdentityOf[m.entity])' /\ Met(own, m.entity, m.file)'
    BY <1>1, <2>2, MetKept
  <2> QED
    BY <2>2, <2>3, <2>4, <2>5, <2>6 DEF ChangeAccount
<1>7. ASSUME NEW m \in run'.changes, NEW n \in run'.changes, m.entity = n.entity PROVE m = n
  <2>1. PICK r \in readable : m = HistoryMutation(r)
    BY <1>2, <1>7
  <2>2. PICK q \in readable : n = HistoryMutation(q)
    BY <1>2, <1>7
  <2>3. r[1] = q[1] /\ r \in run.latest /\ q \in run.latest
    BY <1>5, <1>7, <2>1, <2>2 DEF readable
  <2> QED
    BY <1>1, <2>1, <2>2, <2>3 DEF Account, LatestAccount
<1>8. ASSUME ~run'.deferred, NEW e \in Entities, NEW t \in Nat, Last(e, t)', t <= run'.pageEnd, run'.cursor <= t
      PROVE  \E m \in run'.changes : m.entity = e /\ m.at = t
  <2>1. Last(e, t) /\ t <= run.pageEnd /\ ~(t < run.cursor)
    BY <1>1, <1>2, <1>8, MetKept DEF Account, PageAccount
  <2>2. <<e, t>> \in readable
    BY <1>1, <1>2, <1>8, <2>1 DEF Account, LatestAccount
  <2>3. HistoryMutation(<<e, t>>).entity = e /\ HistoryMutation(<<e, t>>).at = t
    BY <1>5, <2>2
  <2> QED
    BY <1>2, <2>2, <2>3
<1>9. PageAccount'
  BY <1>1, <1>2, MetKept DEF Account, PageAccount, Calm
<1>10. RunAccount'
  BY <1>2, <1>6, <1>7, <1>8, <1>9 DEF RunAccount, ListedAccount, LatestAccount, ChangesAccount, CommitAccount
<1>11. RunMet(own)'
  BY <1>2, <1>6 DEF RunMet
<1> QED
  BY <1>1, <1>3, <1>10, <1>11, ReadSteps

\* What the table tracks, Arr lists or listed once.
LEMMA TrackedListed ==
  ASSUME Account, NEW e \in Entities, Active(table, e)
  PROVE  IdentityOf[e] \in listed \cup removed
<1>1. Seen(e)
  BY DEF Account, Owners, Met, Active, Known
<1>2. CASE Gone(e)
  BY <1>2 DEF Gone
<1>3. CASE \E t \in Nat : Last(e, t)
  <2>1. PICK t \in Nat : Last(e, t)
    BY <1>3
  <2>2. <<e, t>> \in history /\ <<e, t>>[1] = e
    BY <2>1 DEF Last
  <2>3. \A r \in history : IdentityOf[r[1]] \in listed
    BY DEF Account, ArrAccount
  <2>4. IdentityOf[<<e, t>>[1]] \in listed
    BY <2>2, <2>3
  <2> QED
    BY <2>2, <2>4
<1> QED
  BY <1>1, <1>2, <1>3 DEF Seen

LEMMA SnapshotAccounts ==
  ASSUME CatalogInv, Account, ListIdentitySnapshot
  PROVE  Account'
<1>1. Calm /\ UNCHANGED <<sent, inbox, handler>> /\ run.phase = "changes"
  BY DEF ListIdentitySnapshot, Calm, world, arrVars, storeVars, inboxVars, ghosts
<1>2. /\ run'.phase = "commit" /\ run'.cursor = run.cursor /\ run'.pageEnd = run.pageEnd
      /\ run'.changes = run.changes /\ run'.deferred = run.deferred /\ run'.identities = listed
  BY DEF ListIdentitySnapshot
<1>3. PICK own : Owners(own)
  BY DEF Account
<1>4. PageAccount'
  BY <1>1, <1>2, MetKept DEF Account, PageAccount, Calm
<1>5. ChangesAccount'
  <2>1. ASSUME NEW m \in run.changes PROVE ChangeAccount(m)'
    <3>1. ChangeAccount(m)
      BY <1>1, <2>1 DEF Account, ChangesAccount
    <3>2. Matches(m) <=> Matches(m)'
      BY <1>1 DEF Matches, Inside, Calm
    <3>3. run'.pageEnd = run.pageEnd /\ now' = now
      BY <1>1, <1>2 DEF Calm
    <3> QED
      BY <1>1, <3>1, <3>2, <3>3, MetKept DEF ChangeAccount
  <2> QED
    BY <1>1, <1>2, <2>1, MetKept DEF Account, ChangesAccount
<1>6. CommitAccount'
  <2>1. Missing' \subseteq removed'
    BY <1>1, <1>2, TrackedListed DEF Missing, ActiveIdentities, Active, Known, Calm
  <2> QED
    BY <1>1, <1>2, <2>1 DEF CommitAccount, Calm
<1>7. RunAccount'
  BY <1>2, <1>4, <1>5, <1>6 DEF RunAccount, ListedAccount, LatestAccount
<1>8. RunMet(own)'
  BY <1>1, <1>2, <1>3, MetKept DEF RunMet, Owners
<1> QED
  BY <1>1, <1>3, <1>7, <1>8, ReadSteps

-----------------------------------------------------------------------------
(* Steps that change the tables *)

LEMMA IdsApart ==
  /\ \A a, b, c, d : <<"reconcile", a, b>> # <<"snapshot", c, d>> /\ <<"reconcile", a, b>> # <<"episode", c, d>>
                     /\ <<"reconcile", a, b>> # <<"library", c, d>> /\ <<"snapshot", a, b>> # <<"episode", c, d>>
                     /\ <<"snapshot", a, b>> # <<"library", c, d>>
  /\ \A h, a, b : HookID(h) # <<"reconcile", a, b>> /\ HookID(h) # <<"snapshot", a, b>>
                  /\ HookID(h) # <<"episode", a, b>> /\ HookID(h) # <<"library", a, b>>
<1>1. \A h, a, b : /\ HookID(h)[1] = "webhook" /\ <<"reconcile", a, b>>[1] = "reconcile"
                   /\ <<"snapshot", a, b>>[1] = "snapshot" /\ <<"episode", a, b>>[1] = "episode"
                   /\ <<"library", a, b>>[1] = "library"
  BY DEF HookID
<1>2. /\ "webhook" \notin {"reconcile", "snapshot", "episode", "library"}
      /\ "reconcile" \notin {"snapshot", "episode", "library"}
      /\ "snapshot" \notin {"episode", "library"}
  OBVIOUS
<1> QED
  BY <1>1, <1>2

\* Only the tables and the webhook at hand change.
Settled == UNCHANGED <<now, library, listed, removed, history, sent, inbox>>

\* The webhook at hand is not among the events a reconciliation records.
LEMMA HandlerStays ==
  ASSUME Account, Settled,
         \/ handler'.phase = "done"
         \/ handler' = handler /\ \A h : HookID(h) \in table'.events => HookID(h) \in table.events
  PROVE  HandlerAccount' /\ HooksAccount' /\ ArrAccount'
<1>1. \A f : Dead(f) => Dead(f)'
  BY DEF Dead, Settled
<1>2. \A e : Gone(e) <=> Gone(e)'
  BY DEF Gone, Settled
<1>3. HandlerAccount'
  <2> SUFFICES ASSUME handler' = handler, handler.phase = "apply",
                      \A h : HookID(h) \in table'.events => HookID(h) \in table.events
               PROVE  EventAccount(handler.mutation)'
    BY DEF HandlerAccount
  <2>1. EventAccount(handler.mutation)
    BY DEF Account, HandlerAccount
  <2>2. handler'.mutation = handler.mutation /\ handler.mutation.id \notin table'.events
    BY <2>1 DEF EventAccount
  <2> QED
    BY <1>1, <1>2, <2>1, <2>2 DEF EventAccount, Settled
<1>4. HooksAccount'
  BY HooksKept DEF Settled
<1>5. ArrAccount'
  BY <1>2 DEF Account, ArrAccount, Settled
<1> QED
  BY <1>3, <1>4, <1>5

\* What the table says of e is accounted for.
RowSettled(e, own, after) ==
  /\ Met(own, e, table'.rows[e].file)
  /\ RowAccount(table'.rows[e], e)
  /\ Snapped(IdentityOf[e]) /\ Active(table', e) => e \in after
  /\ e \notin after =>
        /\ \A t \in Nat : Last(e, t) /\ Reconciled(e, t) => Right(e)'
        /\ cursor = now /\ Gone(e) /\ IdentityOf[e] \notin spared => ~Active(table', e)

LEMMA TableSteps ==
  ASSUME CatalogInv, Account, Settled, UNCHANGED <<cursor, replays, spared>>,
         IsTable(table'), table.events \subseteq table'.events,
         \A e, t : Reconciled(e, t)' <=> Reconciled(e, t), \A i : Snapped(i)' <=> Snapped(i),
         \/ handler'.phase = "done"
         \/ handler' = handler /\ \A h : HookID(h) \in table'.events => HookID(h) \in table.events,
         run'.phase = "ready" \/ (run' = run /\ table'.events # table.events),
         NEW own, Owners(own), \A e \in Entities : RowSettled(e, own, outdated')
  PROVE  Account'
<1> USE DEF Settled
<1>1. HandlerAccount' /\ HooksAccount' /\ ArrAccount'
  BY HandlerStays
<1>2. \A e, t : Last(e, t)' <=> Last(e, t)
  BY DEF Last
<1>3. \A e : (Gone(e)' <=> Gone(e)) /\ (Seen(e)' <=> Seen(e))
  BY <1>2 DEF Gone, Seen
<1>4. \A f : Dead(f)' <=> Dead(f)
  BY DEF Dead
<1>5. RowsAccount'
  BY <1>2, <1>3, <1>4 DEF RowsAccount, RowAccount, RowSettled
<1>6. EventsAccount'
  <2>1. \A e \in Entities, t \in Nat : Reconciled(e, t)' => t <= now'
    BY DEF Account, EventsAccount
  <2>2. \A e \in Entities : Snapped(IdentityOf[e])' => Gone(e)' /\ (Active(table', e) => e \in outdated')
    BY <1>3 DEF Account, EventsAccount, RowSettled
  <2>3. replays' \subseteq table'.events
    BY DEF Account, EventsAccount
  <2> QED
    BY <2>1, <2>2, <2>3 DEF EventsAccount, Active, Known
<1>7. CursorAccount'
  BY <1>2 DEF Account, CursorAccount
<1>8. Agreement'
  BY <1>2, <1>3 DEF Agreement, RowSettled, Active, Known
<1>9. RunAccount'
  <2>1. CASE run'.phase = "ready"
    BY <2>1 DEF RunAccount, ListedAccount, PageAccount, LatestAccount, ChangesAccount, CommitAccount
  <2>2. CASE run' = run /\ table'.events # table.events
    <3>1. ListedAccount' /\ PageAccount' /\ LatestAccount'
      BY <1>2, <1>3, <2>2 DEF Account, ListedAccount, PageAccount, LatestAccount
    <3>2. ChangesAccount'
      <4>1. \A m : ChangeAccount(m) => ChangeAccount(m)'
        BY <1>2, <1>3, <2>2 DEF ChangeAccount, Matches, Inside
      <4> QED
        BY <1>2, <2>2, <4>1 DEF Account, ChangesAccount
    <3>3. CommitAccount'
      <4>1. Revision(table) \in Nat /\ Revision(table') \in Nat /\ Revision(table) < Revision(table')
        BY <2>2, RevisionGrows DEF CatalogInv, TableSound
      <4>2. run.phase = "commit" => run.revision \in Nat /\ run.revision <= Revision(table)
        BY DEF CatalogInv, WindowSound
      <4>3. run'.phase = "commit" => Revision(table') # run'.revision
        BY <2>2, <4>1, <4>2
      <4> QED
        BY <2>2, <4>3 DEF Account, CommitAccount, Revision
    <3> QED
      BY <3>1, <3>2, <3>3 DEF RunAccount
  <2> QED
    BY <2>1, <2>2
<1>10. Owners(own)'
  <2>1. \A e, f : Met(own, e, f) => Met(own, e, f)'
    BY <1>3 DEF Met
  <2> QED
    BY <2>1 DEF Owners, RowSettled
<1> QED
  BY <1>1, <1>5, <1>6, <1>7, <1>8, <1>9, <1>10 DEF Account, RunAccount

LEMMA LastOnce ==
  ASSUME NEW e, NEW t \in Nat, NEW u \in Nat, Last(e, t), Last(e, u)
  PROVE  t = u
<1>1. <<e, t>> \in history /\ <<e, t>>[1] = e /\ <<e, t>>[2] = t
  BY DEF Last
<1>2. <<e, u>> \in history /\ <<e, u>>[1] = e /\ <<e, u>>[2] = u
  BY DEF Last
<1>3. t <= u /\ u <= t
  BY <1>1, <1>2 DEF Last
<1> QED
  BY <1>3

\* A deletion is accounted for when Arr's last record is not older, or the file
\* is dead.
LEMMA DeletionAccount ==
  ASSUME NEW e \in Entities, NEW entry \in Row, RowAccount(entry, e), NEW at \in Nat, NEW whole \in BOOLEAN,
         \/ Gone(e)
         \/ \E t \in Nat : Last(e, t) /\ (whole => at <= t) /\ (at <= t \/ Dead(entry.file))
  PROVE  RowAccount(DeletedRow(entry, at, whole), e)
<1> DEFINE new == DeletedRow(entry, at, whole)
<1> SUFFICES ASSUME ~Gone(e), new.file # 0
             PROVE  \E t \in Nat : /\ Last(e, t) /\ new.entityDeletedAt <= t
                                   /\ new.deletedAt <= t \/ Dead(new.file)
  BY DEF RowAccount
<1>1. new.file = entry.file
  BY DEF DeletedRow, Row
<1>2. PICK t \in Nat : Last(e, t) /\ (whole => at <= t) /\ (at <= t \/ Dead(entry.file))
  OBVIOUS
<1>3. entry.deleted => entry.entityDeletedAt <= t /\ (entry.deletedAt <= t \/ Dead(entry.file))
  BY <1>1, <1>2, LastOnce DEF RowAccount
<1>4. /\ new.deletedAt = IF entry.deleted THEN Larger(entry.deletedAt, at) ELSE at
      /\ new.entityDeletedAt = LET entityAt == IF whole THEN at ELSE 0
                               IN  IF entry.deleted THEN Larger(entry.entityDeletedAt, entityAt) ELSE entityAt
  BY DEF DeletedRow, Row
<1> HIDE DEF new
<1>5. entry.deletedAt \in Nat /\ entry.entityDeletedAt \in Nat
  BY DEF Row
<1>6. new.entityDeletedAt <= t
  BY <1>2, <1>3, <1>4, <1>5 DEF Larger
<1>7. new.deletedAt <= t \/ Dead(new.file)
  BY <1>1, <1>2, <1>3, <1>4, <1>5 DEF Larger
<1> QED
  BY <1>2, <1>6, <1>7

LEMMA ApplyAccounts ==
  ASSUME CatalogInv, Account, ApplyEvent
  PROVE  Account'
<1> DEFINE m == handler.mutation
<1>1. /\ Settled /\ UNCHANGED <<cursor, replays, spared, run>>
      /\ handler.phase = "apply" /\ table' = EventApplied(table, m)
      /\ outdated' = IF m.type # "import" \/ Late(m) THEN outdated
                     ELSE IF library[m.entity] = [file |-> m.file, path |-> m.path]
                          THEN outdated \ {m.entity} ELSE outdated \cup {m.entity}
  BY DEF ApplyEvent, world, arrVars, Settled
<1>2. /\ handler = [phase |-> handler.phase, item |-> handler.item, mutation |-> m]
      /\ Timely(m) /\ IsMutation(m)
  BY <1>1 DEF CatalogInv, HandlerSound, Resting, Timely
<1>3. handler'.phase = "done"
  BY <1>2 DEF ApplyEvent
<1>4. EventAccount(m)
  BY <1>1 DEF Account, HandlerAccount
<1>5. PICK own : Owners(own)
  BY DEF Account
<1>6. IsTable(table) /\ \A e \in Entities : table.rows[e] \in Row
  BY DEF CatalogInv, TableSound, IsTable, TablesOver
<1>7. OwnedIn(own, table) /\ \A e \in Entities : Met(own, e, table.rows[e].file)
  BY <1>5 DEF Owners, OwnedIn, Met
<1>8. PICK hook : m.id = HookID(hook)
  BY <1>4 DEF EventAccount
<1>9. m.id \notin table.events
  BY <1>4 DEF EventAccount
<1>10. ASSUME NEW e \in Entities, table'.rows[e] = table.rows[e], e \in outdated <=> e \in outdated'
       PROVE  RowSettled(e, own, outdated')
  <2>1. Right(e) => Right(e)'
    BY <1>1, <1>10 DEF Right, Inside, Active, Known, Settled
  <2>2. Active(table', e) <=> Active(table, e)
    BY <1>10 DEF Active, Known
  <2> QED
    BY <1>7, <1>10, <2>1, <2>2 DEF RowSettled, Account, RowsAccount, EventsAccount, Agreement
<1>11. CASE m.type = "import"
  <2>1. /\ m.entity \in Entities /\ m.file \in Nat \ {0} /\ m.path \notin Outside
        /\ Met(own, m.entity, m.file) /\ OwnedBy(own, m)
    BY <1>1, <1>2, <1>4, <1>5, <1>11 DEF IsMutation, EventAccount, Owners, OwnedBy, Met
  <2>2. DeletedAfter(table, m) <=> LateFor(table.rows[m.entity], m)
    BY <1>2, <1>6, <1>7, <1>11, <2>1, LateOne
  <2>3. Late(m) <=> DeletedAfter(table, m)
    BY <2>2 DEF Late, LateFor, Known
  <2>4. CASE DeletedAfter(table, m)
    <3>1. table' = table /\ outdated' = outdated
      BY <1>1, <1>11, <2>3, <2>4 DEF EventApplied
    <3>2. Calm
      BY <1>1, <3>1 DEF Calm, Settled
    <3>3. HooksAccount'
      BY <1>1, HooksKept DEF Settled
    <3> QED
      BY <1>1, <1>3, <3>2, <3>3, CalmSteps
  <2>5. CASE ~DeletedAfter(table, m)
    <3>1. table' = Applied(table, m) /\ ~LateFor(table.rows[m.entity], m)
      BY <1>1, <1>11, <2>2, <2>5 DEF EventApplied
    <3>2. /\ IsTable(table') /\ table'.events = table.events \cup {m.id}
          /\ \A e \in Entities \ {m.entity} : table'.rows[e] = table.rows[e]
          /\ table'.rows[m.entity] = RowAfter(table.rows[m.entity], m)
      BY <1>2, <1>6, <1>7, <1>9, <2>1, <3>1, OneApplied
    <3>3. /\ table'.rows[m.entity].file = m.file /\ table'.rows[m.entity].path = m.path
          /\ table'.rows[m.entity].deleted = FALSE
      BY <1>6, <1>11, <2>1, <3>1, <3>2 DEF RowAfter, ImportedRow, Row
    <3>4. /\ outdated' = IF library[m.entity] = [file |-> m.file, path |-> m.path]
                         THEN outdated \ {m.entity} ELSE outdated \cup {m.entity}
      BY <1>1, <1>11, <2>3, <2>5
    <3>5. RowSettled(m.entity, own, outdated')
      <4>1. RowAccount(table'.rows[m.entity], m.entity)
        BY <3>3 DEF RowAccount
      <4>2. CASE library[m.entity] = [file |-> m.file, path |-> m.path]
        <5>1. library[m.entity].file = m.file /\ library[m.entity].path = m.path
          BY <4>2
        <5>2. ~Gone(m.entity) /\ ~Snapped(IdentityOf[m.entity])
          BY <2>1, <5>1 DEF Account, ArrAccount, EventsAccount
        <5>3. Right(m.entity)'
          BY <1>1, <1>3, <2>1, <3>3, <5>1 DEF Right, Inside, Active, Known, Settled, ApplyEvent
        <5> QED
          BY <2>1, <3>3, <4>1, <5>2, <5>3 DEF RowSettled
      <4>3. CASE library[m.entity] # [file |-> m.file, path |-> m.path]
        <5>1. m.entity \in outdated'
          BY <3>4, <4>3
        <5> QED
          BY <2>1, <3>3, <4>1, <5>1 DEF RowSettled
      <4> QED
        BY <4>2, <4>3
    <3>6. \A e \in Entities : RowSettled(e, own, outdated')
      BY <1>10, <3>2, <3>4, <3>5
    <3>7. /\ \A e, t : Reconciled(e, t)' <=> Reconciled(e, t)
          /\ \A i : Snapped(i)' <=> Snapped(i)
      BY <1>8, <3>2, IdsApart DEF Reconciled, Snapped
    <3> QED
      BY <1>1, <1>3, <1>5, <1>9, <3>2, <3>6, <3>7, TableSteps
  <2> QED
    BY <2>4, <2>5
<1>12. CASE m.type # "import"
  <2> DEFINE u == DeleteApplied(table, m)
  <2>1. table' = u /\ outdated' = outdated
    BY <1>1, <1>9, <1>12 DEF EventApplied, Applied, FirstTime
  <2>2. /\ IsTable(u) /\ u.events = table.events \cup Deletions(table, m)
        /\ \A e \in Entities : u.rows[e] =
              IF e \in Hit(table, m) THEN DeletedRow(table.rows[e], m.at, m.type # "deleteFile") ELSE table.rows[e]
        /\ \A e \in Entities : u.rows[e].file = table.rows[e].file
        /\ \A e \in Entities : Active(u, e) => Active(table, e)
    BY <1>2, <1>6, DeleteTable
  <2> HIDE DEF u
  <2>3. ASSUME NEW e \in Hit(table, m)
        PROVE  /\ e \in Entities /\ Known(table, e)
               /\ Gone(e) \/ (m.type = "deleteFile" /\ table.rows[e].file = m.file /\ Dead(m.file))
    <3>1. e \in Entities /\ Known(table, e)
      BY DEF Hit
    <3>2. CASE m.type = "deleteFile"
      BY <1>4, <3>1, <3>2 DEF Hit, EventAccount
    <3>3. CASE m.type = "deleteEntity"
      BY <1>4, <3>1, <3>3 DEF Hit, EventAccount
    <3>4. CASE m.type = "deleteIdentity"
      BY <1>4, <3>1, <3>4 DEF Hit, EventAccount, Gone
    <3> QED
      BY <1>4, <1>12, <3>1, <3>2, <3>3, <3>4 DEF EventAccount
  <2>4. ASSUME NEW e \in Hit(table, m) PROVE RowSettled(e, own, outdated')
    <3>1. /\ e \in Entities /\ Known(table, e) /\ table.rows[e] \in Row
          /\ Gone(e) \/ (m.type = "deleteFile" /\ table.rows[e].file = m.file /\ Dead(m.file))
      BY <1>6, <2>3
    <3> DEFINE whole == m.type # "deleteFile"
    <3>2. /\ table'.rows[e] = DeletedRow(table.rows[e], m.at, whole) /\ table'.rows[e].file = table.rows[e].file
          /\ m.at \in Nat /\ whole \in BOOLEAN
      BY <1>2, <2>1, <2>2, <2>4, <3>1 DEF IsMutation
    <3>3. ~Active(table', e)
      <4>1. DeletedRow(table.rows[e], m.at, whole).deleted
        BY <3>1, <3>2, DeletedRowType, Zenon
      <4> QED
        BY <3>2, <4>1 DEF Active
    <3>4. Gone(e) \/ \E t \in Nat : Last(e, t) /\ (whole => m.at <= t) /\ (m.at <= t \/ Dead(table.rows[e].file))
      BY <1>7, <3>1 DEF Met, Seen, Known
    <3>5. RowAccount(table.rows[e], e)
      BY <3>1 DEF Account, RowsAccount
    <3> HIDE DEF whole
    <3>6. RowAccount(DeletedRow(table.rows[e], m.at, whole), e)
      BY <3>1, <3>2, <3>4, <3>5, DeletionAccount
    <3>7. ASSUME Right(e) PROVE Right(e)'
      <4>1. ~Inside(e)
        <5>1. CASE Gone(e)
          BY <3>1, <5>1 DEF Account, ArrAccount, Inside
        <5>2. CASE table.rows[e].file = m.file /\ Dead(m.file)
          BY <3>1, <3>7, <5>2 DEF Right, Dead
        <5> QED
          BY <3>1, <5>1, <5>2
      <4>2. ~Inside(e)'
        BY <1>1, <4>1 DEF Inside, Settled
      <4> QED
        BY <3>3, <4>2 DEF Right, Active, Known
    <3>8. e \notin outdated => \A t \in Nat : Last(e, t) /\ Reconciled(e, t) => Right(e)
      BY <3>1 DEF Account, Agreement
    <3>9. Met(own, e, table'.rows[e].file) /\ RowAccount(table'.rows[e], e)
      BY <1>7, <3>1, <3>2, <3>6
    <3> QED
      BY <2>1, <3>3, <3>7, <3>8, <3>9 DEF RowSettled
  <2>5. \A e \in Entities : RowSettled(e, own, outdated')
    BY <1>10, <2>1, <2>2, <2>4
  <2>6. /\ \A x \in table'.events : x \in table.events \/ x = m.id \/ \E e : x = <<"episode", m.id, e>>
        /\ table.events \subseteq table'.events /\ m.id \in table'.events
    BY <2>1, <2>2 DEF Deletions
  <2>7. /\ \A e, t : Reconciled(e, t)' <=> Reconciled(e, t)
        /\ \A i : Snapped(i)' <=> Snapped(i)
    BY <1>8, <2>6, IdsApart DEF Reconciled, Snapped
  <2> QED
    BY <1>1, <1>3, <1>5, <1>9, <2>1, <2>2, <2>5, <2>6, <2>7, TableSteps
<1> QED
  BY <1>11, <1>12

LEMMA DiscoveryAccounts ==
  ASSUME CatalogInv, Account, CommitDiscovery
  PROVE  Account'
<1>1. /\ Settled /\ UNCHANGED <<handler, cursor, replays, outdated, spared>>
      /\ run.phase = "listed"
  BY DEF CommitDiscovery, world, arrVars, inboxVars, ghosts, Settled
<1>2. HooksAccount'
  BY <1>1, HooksKept DEF Settled
<1>3. CASE Revision(table) # run.revision
  <2>1. run' = Resting /\ UNCHANGED table
    BY <1>3 DEF CommitDiscovery
  <2>2. Calm
    BY <1>1, <2>1 DEF Calm, Settled
  <2> QED
    BY <1>1, <1>2, <2>1, <2>2, CalmSteps DEF Resting
<1>4. CASE Revision(table) = run.revision
  <2> DEFINE found == {Discovery(e) : e \in FoundNew(run.items)}
  <2>1. run'.phase = "ready" /\ \E page \in InOrder(found) : table' = AppliedAll(table, page, {})
    <3>1. \E page \in InOrder(found) : table' = AppliedAll(table, page, {})
      BY <1>4, Zenon DEF CommitDiscovery
    <3>2. run' = [phase |-> "ready"]
      BY <1>4, Zenon DEF CommitDiscovery
    <3> QED
      BY <3>1, <3>2
  <2>2. PICK page \in InOrder(found) : table' = AppliedAll(table, page, {})
    BY <2>1
  <2>3. PICK own : Owners(own)
    BY DEF Account
  <2>4. IsTable(table) /\ OwnedIn(own, table) /\ \A e \in Entities : table.rows[e] \in Row /\ Met(own, e, table.rows[e].file)
    BY <2>3 DEF CatalogInv, TableSound, IsTable, TablesOver, Owners, OwnedIn, Met
  <2>5. FoundNew(run.items) \subseteq Entities /\ FoundNew(run.items) \subseteq DOMAIN run.items
    BY <1>1 DEF FoundNew, CatalogInv, ListedSound
  <2>6. IsFiniteSet(found)
    <3> DEFINE f == [e \in FoundNew(run.items) |-> Discovery(e)]
    <3>1. f \in Surjection(FoundNew(run.items), found)
      BY DEF Surjection
    <3>2. IsFiniteSet(FoundNew(run.items))
      BY <2>5, CatalogAssumption, FS_Subset
    <3> HIDE DEF f, found
    <3> QED
      BY <3>1, <3>2, FS_Surjection
  <2>7. ASSUME NEW e \in FoundNew(run.items)
        PROVE  LET m == Discovery(e)
               IN  /\ IsMutation(m) /\ OwnedBy(own, m) /\ m.entity = e /\ m.type = "import"
                   /\ m.id = <<"library", e, run.items[e].file>>
                   /\ m.file = run.items[e].file /\ m.path = run.items[e].path
    <3>1. run.items[e] \in Media /\ run.items[e].file # 0 /\ now \in Nat /\ Met(own, e, run.items[e].file)
      BY <1>1, <2>3, <2>5 DEF CatalogInv, ListedSound, ArrSound, Owners
    <3> QED
      BY <2>5, <3>1 DEF Discovery, Import, IsMutation, OwnedBy, Media, Met
  <2>8. ASSUME NEW m \in found PROVE \E e \in FoundNew(run.items) : m = Discovery(e)
    BY <2>8
  <2>9. \A e \in FoundNew(run.items) : Discovery(e) \in found
    OBVIOUS
  <2> HIDE DEF found
  <2>10. \A m \in found : IsMutation(m) /\ OwnedBy(own, m)
    BY <2>7, <2>8
  <2>11. ASSUME NEW m \in found, NEW n \in found, m.entity = n.entity \/ m.id = n.id PROVE m = n
    <3>1. PICK e \in FoundNew(run.items) : m = Discovery(e)
      BY <2>8, <2>11
    <3>2. PICK x \in FoundNew(run.items) : n = Discovery(x)
      BY <2>8, <2>11
    <3>3. m.entity = e /\ n.entity = x /\ m.id[2] = e /\ n.id[2] = x
      BY <2>7, <3>1, <3>2
    <3> QED
      BY <2>11, <3>1, <3>2, <3>3
  <2> DEFINE u == AppliedAll(table, page, {})
  <2>12. /\ IsTable(u) /\ u.events = table.events \cup {m.id : m \in found}
         /\ \A e \in Entities : (\A m \in found : m.entity # e) => u.rows[e] = table.rows[e]
         /\ \A m \in found : u.rows[m.entity] =
               IF m.id \in table.events THEN table.rows[m.entity] ELSE RowAfter(table.rows[m.entity], m)
    <3>1. {} \in SUBSET table.events
      OBVIOUS
    <3> QED
      BY <2>4, <2>6, <2>10, <2>11, <3>1, PageRows
  <2> HIDE DEF u
  <2>13. table' = u
    BY <2>2 DEF u
  <2>14. ASSUME NEW x \in table'.events PROVE x \in table.events \/ \E a, b : x = <<"library", a, b>>
    <3> SUFFICES ASSUME x \notin table.events PROVE \E a, b : x = <<"library", a, b>>
      OBVIOUS
    <3>1. PICK m \in found : x = m.id
      BY <2>12, <2>13, <2>14
    <3>2. PICK e \in FoundNew(run.items) : m = Discovery(e)
      BY <2>8
    <3> QED
      BY <2>7, <3>1, <3>2
  <2>15. /\ \A e, t : Reconciled(e, t)' <=> Reconciled(e, t)
         /\ \A i : Snapped(i)' <=> Snapped(i)
         /\ \A h : HookID(h) \in table'.events => HookID(h) \in table.events
    BY <2>12, <2>13, <2>14, IdsApart DEF Reconciled, Snapped
  <2>16. ASSUME NEW e \in Entities, table'.rows[e] = table.rows[e] PROVE RowSettled(e, own, outdated')
    <3>1. Right(e) => Right(e)'
      BY <1>1, <2>16 DEF Right, Inside, Active, Known, Settled
    <3>2. Active(table', e) <=> Active(table, e)
      BY <2>16 DEF Active, Known
    <3> QED
      BY <1>1, <2>4, <2>16, <3>1, <3>2 DEF RowSettled, Account, RowsAccount, EventsAccount, Agreement
  <2>17. ASSUME NEW e \in Entities PROVE RowSettled(e, own, outdated')
    <3>1. CASE table'.rows[e] = table.rows[e]
      BY <2>16, <3>1
    <3>2. CASE table'.rows[e] # table.rows[e]
      <4>1. PICK m \in found : m.entity = e
        BY <2>12, <2>13, <3>2
      <4>2. e \in FoundNew(run.items) /\ m = Discovery(e)
        BY <2>7, <2>8, <4>1
      <4>3. table.rows[e].file = 0 /\ table'.rows[e] = RowAfter(table.rows[e], m)
        BY <2>12, <2>13, <3>2, <4>1, <4>2 DEF FoundNew, Known
      <4>4. /\ m.type = "import" /\ m.file = run.items[e].file /\ m.path = run.items[e].path
            /\ IsMutation(m)
        BY <2>7, <4>2
      <4>5. table'.rows[e] = ImportedRow(table.rows[e], m)
        BY <4>3, <4>4 DEF RowAfter, LateFor
      <4>6. /\ table'.rows[e].file = run.items[e].file /\ table'.rows[e].path = run.items[e].path
            /\ table'.rows[e].deleted = FALSE /\ run.items[e].file # 0
        BY <2>4, <4>4, <4>5 DEF ImportedRow, Row, IsMutation
      <4>7. /\ e \in DOMAIN run.items /\ Met(own, e, run.items[e].file)
            /\ run.items[e].path \notin Outside /\ ~Snapped(IdentityOf[e])
            /\ run.items[e] # library[e] => cursor # now /\ \A t \in Nat : Last(e, t) => ~Reconciled(e, t)
        BY <1>1, <2>3, <2>5, <4>2 DEF Owners, Account, ListedAccount
      <4>8. run.items[e] = library[e] => Right(e)' /\ ~Gone(e)
        BY <1>1, <4>6, <4>7 DEF Right, Inside, Active, Known, Settled, Account, ArrAccount
      <4> QED
        BY <4>6, <4>7, <4>8 DEF RowSettled, RowAccount
    <3> QED
      BY <3>1, <3>2
  <2> QED
    BY <1>1, <2>1, <2>3, <2>12, <2>13, <2>15, <2>17, TableSteps
<1> QED
  BY <1>3, <1>4

\* The changes of a page, one per entity, each with an id of its own.
LEMMA ChangesApart ==
  ASSUME CatalogInv, Account, run.phase = "commit", NEW own, Owners(own)
  PROVE  /\ IsFiniteSet(run.changes)
         /\ \A m \in run.changes : IsMutation(m) /\ OwnedBy(own, m) /\ ChangeAccount(m)
                                   /\ (m.type = "import" => Met(own, m.entity, m.file))
         /\ \A m, n \in run.changes : m.entity = n.entity \/ m.id = n.id => m = n
<1>1. IsFiniteSet(run.changes) /\ \A m \in run.changes : Timely(m)
  BY DEF CatalogInv, ChangesSound
<1>2. /\ \A m \in run.changes : ChangeAccount(m)
      /\ \A m, n \in run.changes : m.entity = n.entity => m = n
  BY DEF Account, ChangesAccount
<1>3. ASSUME NEW m \in run.changes PROVE m.type = "import" => Met(own, m.entity, m.file)
  BY DEF Owners
<1>4. ASSUME NEW m \in run.changes PROVE IsMutation(m) /\ OwnedBy(own, m)
  BY <1>1, <1>2, <1>3 DEF Timely, IsMutation, OwnedBy, ChangeAccount, Met
<1>5. ASSUME NEW m \in run.changes, NEW n \in run.changes, m.id = n.id PROVE m = n
  <2>1. m.id = <<"reconcile", m.entity, m.at>> /\ n.id = <<"reconcile", n.entity, n.at>>
    BY <1>2 DEF ChangeAccount
  <2>2. m.id[2] = m.entity /\ n.id[2] = n.entity
    BY <2>1
  <2> QED
    BY <1>2, <1>5, <2>2
<1> QED
  BY <1>1, <1>2, <1>3, <1>4, <1>5

\* The page leaves a row as it was, or as its own change leaves it.
PageKept(mid, e) ==
  mid.rows[e] = table.rows[e] /\ \A m \in run.changes : m.entity = e => ~FirstTime(table, m)

PageChanged(mid, e, m) ==
  m.entity = e /\ FirstTime(table, m) /\ mid.rows[e] = RowAfter(table.rows[e], m)

LEMMA MidRows ==
  ASSUME CatalogInv, Account, run.phase = "commit", NEW own, Owners(own),
         NEW page \in InOrder(run.changes)
  PROVE  LET mid == AppliedAll(table, page, replays)
         IN  /\ IsTable(mid)
             /\ mid.events = table.events \cup {m.id : m \in run.changes}
             /\ \A e \in Entities : PageKept(mid, e) \/ \E m \in run.changes : PageChanged(mid, e, m)
<1>1. IsTable(table) /\ OwnedIn(own, table) /\ replays \in SUBSET table.events
  BY DEF CatalogInv, TableSound, Owners, OwnedIn, Met, Account, EventsAccount
<1>2. /\ IsFiniteSet(run.changes) /\ \A m \in run.changes : IsMutation(m) /\ OwnedBy(own, m)
      /\ \A m, n \in run.changes : m.entity = n.entity \/ m.id = n.id => m = n
  BY ChangesApart
<1> DEFINE mid == AppliedAll(table, page, replays)
<1>3. /\ IsTable(mid) /\ mid.events = table.events \cup {m.id : m \in run.changes}
      /\ \A e \in Entities : (\A m \in run.changes : m.entity # e) => mid.rows[e] = table.rows[e]
      /\ \A m \in run.changes : mid.rows[m.entity] =
            IF m.id \in table.events THEN table.rows[m.entity] ELSE RowAfter(table.rows[m.entity], m)
  BY <1>1, <1>2, PageRows
<1> HIDE DEF mid
<1>4. ASSUME NEW e \in Entities PROVE PageKept(mid, e) \/ \E m \in run.changes : PageChanged(mid, e, m)
  <2>1. CASE \A m \in run.changes : m.entity # e
    BY <1>3, <2>1 DEF PageKept
  <2>2. ASSUME NEW m \in run.changes, m.entity = e PROVE PageKept(mid, e) \/ PageChanged(mid, e, m)
    <3>1. \A n \in run.changes : n.entity = e => n = m
      BY <1>2, <2>2
    <3> QED
      BY <1>3, <2>2, <3>1 DEF PageKept, PageChanged, FirstTime
  <2> QED
    BY <2>1, <2>2
<1> QED
  BY <1>3, <1>4 DEF mid

\* What the page leaves is accounted for.
LEMMA MidAccounts ==
  ASSUME CatalogInv, Account, run.phase = "commit", NEW own, Owners(own), NEW e \in Entities,
         NEW mid, PageKept(mid, e) \/ \E m \in run.changes : PageChanged(mid, e, m)
  PROVE  Met(own, e, mid.rows[e].file) /\ RowAccount(mid.rows[e], e)
<1>1. table.rows[e] \in Row /\ Met(own, e, table.rows[e].file) /\ RowAccount(table.rows[e], e)
  BY DEF CatalogInv, TableSound, IsTable, TablesOver, Owners, Account, RowsAccount
<1>2. CASE PageKept(mid, e)
  BY <1>1, <1>2 DEF PageKept
<1>3. ASSUME NEW m \in run.changes, PageChanged(mid, e, m)
      PROVE  Met(own, e, mid.rows[e].file) /\ RowAccount(mid.rows[e], e)
  <2>1. /\ m.entity = e /\ mid.rows[e] = RowAfter(table.rows[e], m)
        /\ IsMutation(m) /\ ChangeAccount(m) /\ m.at \in Nat
        /\ m.type = "import" => Met(own, e, m.file)
    BY <1>3, ChangesApart DEF PageChanged, IsMutation
  <2>2. Met(own, e, mid.rows[e].file)
    BY <1>1, <2>1, RowAfterType
  <2>3. CASE m.type = "import" /\ ~LateFor(table.rows[e], m)
    <3>1. mid.rows[e].deleted = FALSE
      BY <1>1, <2>1, <2>3 DEF RowAfter, ImportedRow, Row
    <3> QED
      BY <2>2, <3>1 DEF RowAccount
  <2>4. CASE m.type # "import" /\ table.rows[e].file # 0
    <3>1. mid.rows[e] = DeletedRow(table.rows[e], m.at, TRUE)
      BY <2>1, <2>4 DEF RowAfter
    <3>2. Gone(e) \/ \E t \in Nat : Last(e, t) /\ m.at <= t
      <4>1. Gone(e) \/ \E t \in Nat : Last(e, t) /\ (t = m.at \/ t > run.pageEnd)
        BY <2>1 DEF ChangeAccount, Seen
      <4>2. m.at <= run.pageEnd /\ run.pageEnd \in Nat
        BY <2>1 DEF ChangeAccount, CatalogInv, WindowSound
      <4> QED
        BY <2>1, <4>1, <4>2
    <3>3. RowAccount(DeletedRow(table.rows[e], m.at, TRUE), e)
      BY <1>1, <2>1, <3>2, DeletionAccount
    <3> QED
      BY <2>2, <3>1, <3>3
  <2>5. CASE mid.rows[e] = table.rows[e]
    BY <1>1, <2>5
  <2> QED
    BY <2>1, <2>3, <2>4, <2>5 DEF RowAfter
<1> QED
  BY <1>2, <1>3

\* The row says what Arr holds of e.
RightRow(entry, e) ==
  IF Inside(e) THEN entry.file = library[e].file /\ entry.path = library[e].path /\ ~entry.deleted
  ELSE entry.file = 0 \/ entry.deleted

\* A change that says what Arr holds is not ignored as late.
LEMMA MatchSettles ==
  ASSUME CatalogInv, Account, run.phase = "commit", NEW e \in Entities,
         NEW mid, NEW m \in run.changes, PageChanged(mid, e, m), Matches(m),
         Gone(e) \/ Last(e, m.at)
  PROVE  RightRow(mid.rows[e], e)
<1>1. PICK own : Owners(own)
  BY DEF Account
<1>2. /\ m.entity = e /\ mid.rows[e] = RowAfter(table.rows[e], m)
      /\ IsMutation(m) /\ ChangeAccount(m) /\ m.at \in Nat
  BY <1>1, ChangesApart DEF PageChanged, IsMutation
<1>3. table.rows[e] \in Row /\ RowAccount(table.rows[e], e)
  BY DEF CatalogInv, TableSound, IsTable, TablesOver, Account, RowsAccount
<1>4. CASE Inside(e)
  <2>1. m.type = "import" /\ library[e].file = m.file /\ library[e].path = m.path
    <3>1. m.type = "import" /\ library[e] = [file |-> m.file, path |-> m.path]
      BY <1>2, <1>4 DEF Matches
    <3> QED
      BY <3>1
  <2>2. ~Gone(e) /\ Last(e, m.at) /\ ~Dead(m.file)
    BY <1>4, <2>1 DEF Inside, Account, ArrAccount, Dead
  <2>3. ~LateFor(table.rows[e], m)
    <3> SUFFICES ASSUME LateFor(table.rows[e], m) PROVE FALSE
      OBVIOUS
    <3>1. PICK t \in Nat : /\ Last(e, t) /\ table.rows[e].entityDeletedAt <= t
                           /\ table.rows[e].deletedAt <= t \/ Dead(table.rows[e].file)
      BY <1>3, <2>2 DEF LateFor, RowAccount
    <3>2. t = m.at
      BY <1>2, <2>2, <3>1, LastOnce
    <3>3. table.rows[e].entityDeletedAt \in Nat /\ table.rows[e].deletedAt \in Nat
      BY <1>3 DEF Row
    <3> QED
      BY <1>2, <2>2, <3>1, <3>2, <3>3 DEF LateFor
  <2>4. mid.rows[e] = ImportedRow(table.rows[e], m)
    BY <1>2, <2>1, <2>3 DEF RowAfter
  <2> QED
    BY <1>3, <1>4, <2>1, <2>4 DEF ImportedRow, Row, RightRow
<1>5. CASE ~Inside(e)
  <2>1. m.type = "deleteEntity"
    BY <1>2, <1>5 DEF Matches
  <2>2. DeletedRow(table.rows[e], m.at, TRUE).deleted
    BY <1>2, <1>3, DeletedRowType
  <2> QED
    BY <1>2, <1>5, <2>1, <2>2 DEF RowAfter, RightRow
<1> QED
  BY <1>4, <1>5

\* A deletion of the snapshot names an identity that Arr removed.
LEMMA SnapshotGone ==
  ASSUME CatalogInv, run.phase = "commit"
  PROVE  /\ \A m \in SnapshotDeletions : Whole(m) /\ \E i \in Missing \ Spared :
               /\ m.id = <<"snapshot", i, run.pageEnd>>
               /\ \A e \in Entities : Targets(m, e) <=> IdentityOf[e] = i
         /\ \A i \in Missing \ Spared : \E m \in SnapshotDeletions :
               m.id = <<"snapshot", i, run.pageEnd>> /\ \A e \in Entities : IdentityOf[e] = i => Targets(m, e)
         /\ \A m, n \in SnapshotDeletions : (m.id = n.id => m = n) /\ m.id \notin Children(n)
<1> DEFINE top(i) == DeleteTop(<<"snapshot", i, run.pageEnd>>, i, run.pageEnd)
<1>1. SnapshotDeletions = {top(i) : i \in Missing \ Spared}
  BY DEF SnapshotDeletions
<1>2. run.pageEnd \in Nat /\ Missing \subseteq Identities
  BY DEF CatalogInv, WindowSound, Missing, ActiveIdentities, Identities
<1>3. ASSUME NEW i \in Missing \ Spared
      PROVE  /\ Whole(top(i)) /\ top(i).id = <<"snapshot", i, run.pageEnd>>
             /\ \A e \in Entities : Targets(top(i), e) <=> IdentityOf[e] = i
  <2>1. CASE i \in Entities
    <3>1. top(i) = DeleteEntity(<<"snapshot", i, run.pageEnd>>, i, run.pageEnd)
      BY <2>1 DEF DeleteTop
    <3>2. IdentityOf[i] = i /\ \A e \in Entities : IdentityOf[e] = i => e = i
      BY <1>2, <2>1, CatalogAssumption DEF Identities
    <3> QED
      BY <1>2, <3>1, <3>2 DEF DeleteEntity, Whole, IsMutation, Targets
  <2>2. CASE i \notin Entities
    <3>1. top(i) = DeleteIdentity(<<"snapshot", i, run.pageEnd>>, i, run.pageEnd)
      BY <2>2 DEF DeleteTop
    <3> QED
      BY <1>2, <3>1 DEF DeleteIdentity, Whole, IsMutation, Targets
  <2> QED
    BY <2>1, <2>2
<1> HIDE DEF top
<1>4. ASSUME NEW m \in SnapshotDeletions, NEW n \in SnapshotDeletions
      PROVE  (m.id = n.id => m = n) /\ m.id \notin Children(n)
  <2>1. PICK i \in Missing \ Spared : m = top(i)
    BY <1>1
  <2>2. PICK j \in Missing \ Spared : n = top(j)
    BY <1>1
  <2>3. m.id = <<"snapshot", i, run.pageEnd>> /\ n.id = <<"snapshot", j, run.pageEnd>>
    BY <1>3, <2>1, <2>2
  <2>4. m.id[2] = i /\ n.id[2] = j
    BY <2>3
  <2> QED
    BY <2>1, <2>2, <2>3, <2>4, IdsApart DEF Children
<1> QED
  BY <1>1, <1>3, <1>4

LEMMA CommitAccounts ==
  ASSUME CatalogInv, Account, CommitRun
  PROVE  Account'
<1>1. Settled /\ UNCHANGED handler /\ run.phase = "commit" /\ run' = Resting
  BY DEF CommitRun, world, arrVars, inboxVars, Settled
<1>2. CASE ~Unmoved
  <2>1. Calm
    BY <1>1, <1>2 DEF CommitRun, Calm, Settled, ghosts
  <2>2. HooksAccount'
    BY <1>1, HooksKept DEF Settled
  <2> QED
    BY <1>1, <2>1, <2>2, CalmSteps DEF Resting
<1>3. CASE Unmoved
  <2>1. PICK page \in InOrder(run.changes), gone \in InOrder(SnapshotDeletions) :
           table' = AppliedAll(AppliedAll(table, page, replays), gone, replays)
    BY <1>3, Zenon DEF CommitRun
  <2>2. /\ outdated' = outdated \ {m.entity : m \in {c \in run.changes : FirstTime(table, c)}}
        /\ spared' = Spared
        /\ IF run.deferred
           THEN /\ replays' = replays \cup {m.id : m \in run.changes \cup SnapshotDeletions}
                /\ UNCHANGED cursor
           ELSE replays' = {} /\ cursor' = run.pageEnd
    BY <1>3, Zenon DEF CommitRun
  <2>3. PICK own : Owners(own)
    BY DEF Account
  <2> DEFINE mid == AppliedAll(table, page, replays)
  <2>4. /\ IsTable(mid)
        /\ mid.events = table.events \cup {m.id : m \in run.changes}
        /\ \A e \in Entities : PageKept(mid, e) \/ \E m \in run.changes : PageChanged(mid, e, m)
    BY <1>1, <2>3, MidRows
  <2>5. table' = AppliedAll(mid, gone, replays)
    BY <2>1
  <2> HIDE DEF mid
  <2>6. /\ \A m \in SnapshotDeletions : Whole(m) /\ \E i \in Missing \ Spared :
              /\ m.id = <<"snapshot", i, run.pageEnd>>
              /\ \A e \in Entities : Targets(m, e) <=> IdentityOf[e] = i
        /\ \A i \in Missing \ Spared : \E m \in SnapshotDeletions :
              m.id = <<"snapshot", i, run.pageEnd>> /\ \A e \in Entities : IdentityOf[e] = i => Targets(m, e)
        /\ \A m, n \in SnapshotDeletions : (m.id = n.id => m = n) /\ m.id \notin Children(n)
        /\ IsFiniteSet(SnapshotDeletions)
    BY <1>1, SnapshotGone, SnapshotFinite DEF CatalogInv
  <2>7. replays \subseteq table.events /\ replays \in SUBSET mid.events
    BY <2>4 DEF Account, EventsAccount
  <2>8. /\ IsTable(table') /\ mid.events \subseteq table'.events
        /\ \A x \in table'.events : x \in mid.events \/ \E m \in SnapshotDeletions : x = m.id \/ x \in Children(m)
        /\ \A m \in SnapshotDeletions : m.id \in table'.events
        /\ \A e \in Entities :
              /\ table'.rows[e].file = mid.rows[e].file
              /\ Active(table', e) => Active(mid, e)
              /\ (\A m \in SnapshotDeletions : ~Targets(m, e)) => table'.rows[e] = mid.rows[e]
              /\ Active(table', e) => \A m \in SnapshotDeletions : Targets(m, e) => m.id \in mid.events
    BY <2>4, <2>5, <2>6, <2>7, GoneRows
  <2>9. /\ \A m \in run.changes : ChangeAccount(m) /\ m.id = <<"reconcile", m.entity, m.at>>
                                  /\ m.entity \in Entities /\ m.at \in Nat /\ m.at <= run.pageEnd
        /\ \A m, n \in run.changes : m.entity = n.entity => m = n
    BY <1>1, <2>3, ChangesApart DEF ChangeAccount, IsMutation
  <2>10. /\ run.pageEnd \in Nat /\ run.pageEnd <= now /\ now \in Nat /\ cursor \in Nat /\ cursor = run.cursor
         /\ run.cursor <= run.pageEnd /\ cursor <= now
         /\ \A e \in Entities, t \in Nat : Reconciled(e, t) => t <= run.pageEnd
         /\ Missing \subseteq removed
         /\ run.pageEnd = now => run.identities = listed
    BY <1>1, <1>3 DEF CatalogInv, WindowSound, ArrSound, Account, PageAccount, CommitAccount, CursorAccount, Unmoved
  <2>11. /\ \A e, t : Reconciled(e, t)' <=> Reconciled(e, t) \/ \E m \in run.changes : m.entity = e /\ m.at = t
         /\ \A i : Snapped(i) => Snapped(i)'
         /\ \A i : Snapped(i)' => Snapped(i) \/ i \in Missing \ Spared
         /\ \A h : HookID(h) \in table'.events => HookID(h) \in table.events
    <3>1. ASSUME NEW x \in table'.events
          PROVE  \/ x \in table.events
                 \/ \E m \in run.changes : x = <<"reconcile", m.entity, m.at>>
                 \/ \E i \in Missing \ Spared : x = <<"snapshot", i, run.pageEnd>>
                 \/ \E a, b : x = <<"episode", a, b>>
      <4>1. ASSUME x \in mid.events, x \notin table.events
            PROVE  \E m \in run.changes : x = <<"reconcile", m.entity, m.at>>
        <5>1. PICK m \in run.changes : x = m.id
          BY <2>4, <4>1
        <5>2. x = <<"reconcile", m.entity, m.at>>
          BY <2>9, <5>1
        <5> QED
          BY <5>2
      <4>2. ASSUME NEW m \in SnapshotDeletions, x = m.id
            PROVE  \E i \in Missing \ Spared : x = <<"snapshot", i, run.pageEnd>>
        BY <2>6, <4>2
      <4>3. ASSUME NEW m \in SnapshotDeletions, x \in Children(m) PROVE \E a, b : x = <<"episode", a, b>>
        BY <4>3, Zenon DEF Children
      <4> QED
        BY <2>8, <4>1, <4>2, <4>3
    <3>2. \A a, b, c, d : /\ <<"reconcile", a, b>> = <<"reconcile", c, d>> => a = c /\ b = d
                          /\ <<"snapshot", a, b>> = <<"snapshot", c, d>> => a = c /\ b = d
      OBVIOUS
    <3>3. table.events \subseteq table'.events /\ \A m \in run.changes : <<"reconcile", m.entity, m.at>> \in table'.events
      BY <2>4, <2>8, <2>9
    <3>4. \A e, t : Reconciled(e, t)' <=> Reconciled(e, t) \/ \E m \in run.changes : m.entity = e /\ m.at = t
      BY <3>1, <3>2, <3>3, IdsApart DEF Reconciled
    <3>5. \A i : Snapped(i) => Snapped(i)'
      BY <3>3 DEF Snapped
    <3>6. \A i : Snapped(i)' => Snapped(i) \/ i \in Missing \ Spared
      BY <3>1, <3>2, IdsApart DEF Snapped
    <3>7. \A h : HookID(h) \in table'.events => HookID(h) \in table.events
      BY <3>1, IdsApart
    <3> QED
      BY <3>4, <3>5, <3>6, <3>7
  <2>12. HandlerAccount' /\ HooksAccount' /\ ArrAccount'
    BY <1>1, <2>11, HandlerStays
  <2>13. /\ \A e, t : Last(e, t)' <=> Last(e, t)
         /\ \A e : (Gone(e)' <=> Gone(e)) /\ (Seen(e)' <=> Seen(e))
         /\ \A f : Dead(f)' <=> Dead(f)
         /\ now' = now
    BY <1>1 DEF Settled, Last, Gone, Seen, Dead
  <2>14. ASSUME NEW e \in Entities, ~Gone(e) PROVE table'.rows[e] = mid.rows[e]
    BY <2>6, <2>8, <2>10, <2>14 DEF Gone
  <2>15. RowsAccount'
    <3>1. ASSUME NEW e \in Entities, ~Gone(e) PROVE RowAccount(table'.rows[e], e)
      BY <1>1, <2>3, <2>4, <2>14, <3>1, MidAccounts
    <3> QED
      BY <2>13, <3>1 DEF RowsAccount, RowAccount
  <2>16. Owners(own)'
    <3>1. \A e, f : Met(own, e, f) => Met(own, e, f)'
      BY <2>13 DEF Met
    <3>2. ASSUME NEW e \in Entities PROVE Met(own, e, table'.rows[e].file)
      BY <1>1, <2>3, <2>4, <2>8, MidAccounts
    <3> QED
      BY <1>1, <2>3, <3>1, <3>2 DEF Owners, Resting, Settled
  <2>17. RunAccount'
    BY <1>1 DEF RunAccount, ListedAccount, PageAccount, LatestAccount, ChangesAccount, CommitAccount, Resting
  <2>18. CursorAccount'
    <3>1. CASE run.deferred
      BY <2>2, <2>10, <2>11, <2>13, <3>1 DEF Account, CursorAccount
    <3>2. CASE ~run.deferred
      <4>1. ASSUME NEW e \in Entities, NEW t \in Nat, Last(e, t), t <= run.pageEnd PROVE Reconciled(e, t)'
        <5>1. CASE t <= cursor
          BY <2>11, <4>1, <5>1 DEF Account, CursorAccount
        <5>2. CASE run.cursor <= t
          BY <1>1, <2>11, <3>2, <4>1, <5>2 DEF Account, ChangesAccount
        <5> QED
          BY <2>10, <5>1, <5>2
      <4> QED
        BY <2>2, <2>10, <2>13, <3>2, <4>1 DEF CursorAccount
    <3> QED
      BY <3>1, <3>2
  <2>19. ASSUME NEW e \in Entities, Snapped(IdentityOf[e])' PROVE Gone(e) /\ (Active(table', e) => e \in outdated')
    <3>1. Gone(e)
      BY <2>10, <2>11, <2>19 DEF Account, EventsAccount, Gone
    <3> SUFFICES ASSUME Active(table', e) PROVE e \in outdated'
      BY <3>1
    <3>2. Active(mid, e)
      BY <2>8
    <3>3. Snapped(IdentityOf[e])
      <4> SUFFICES ASSUME IdentityOf[e] \in Missing \ Spared PROVE Snapped(IdentityOf[e])
        BY <2>11, <2>19
      <4>1. <<"snapshot", IdentityOf[e], run.pageEnd>> \in mid.events
        BY <2>6, <2>8
      <4>2. <<"snapshot", IdentityOf[e], run.pageEnd>> \in table.events
        BY <2>4, <2>9, <4>1, IdsApart
      <4> QED
        BY <2>10, <4>2 DEF Snapped
    <3>4. ASSUME NEW m \in run.changes, PageChanged(mid, e, m) PROVE FALSE
      <4>1. m.type = "deleteEntity" /\ IsMutation(m) /\ table.rows[e] \in Row
        BY <1>1, <2>3, <2>9, <3>3, <3>4, ChangesApart DEF ChangeAccount, PageChanged, CatalogInv, TableSound, IsTable, TablesOver
      <4>2. DeletedRow(table.rows[e], m.at, TRUE).deleted
        BY <4>1, DeletedRowType DEF IsMutation
      <4> QED
        BY <3>2, <3>4, <4>1, <4>2 DEF PageChanged, RowAfter, Active, Known
    <3>5. PageKept(mid, e)
      BY <2>4, <3>4
    <3>6. Active(table, e)
      BY <3>2, <3>5 DEF PageKept, Active, Known
    <3>7. e \in outdated
      BY <3>3, <3>6 DEF Account, EventsAccount
    <3> QED
      BY <2>2, <3>5, <3>7 DEF PageKept
  <2>20. EventsAccount'
    <3>1. \A e \in Entities, t \in Nat : Reconciled(e, t)' => t <= now'
      BY <2>9, <2>10, <2>11, <2>13
    <3>2. replays' \subseteq table'.events
      BY <2>2, <2>4, <2>7, <2>8
    <3> QED
      BY <2>13, <2>19, <3>1, <3>2 DEF EventsAccount, Active, Known
  <2>21. ASSUME NEW e \in Entities, e \notin outdated', NEW t \in Nat, Last(e, t), Reconciled(e, t)'
         PROVE  Right(e)'
    <3>1. ~Gone(e) /\ table'.rows[e] = mid.rows[e]
      <4>1. <<e, t>> \in history /\ <<e, t>>[1] = e
        BY <2>21 DEF Last
      <4>2. \A r \in history : IdentityOf[r[1]] \in listed
        BY DEF Account, ArrAccount
      <4>3. IdentityOf[e] \in listed
        BY <4>1, <4>2
      <4>4. ~Gone(e)
        BY <4>3 DEF Account, ArrAccount, Gone
      <4> QED
        BY <2>14, <4>4
    <3>2. CASE PageKept(mid, e)
      <4>1. e \notin outdated
        BY <2>2, <2>21, <3>2 DEF PageKept
      <4>2. Reconciled(e, t)
        <5> SUFFICES ASSUME NEW m \in run.changes, m.entity = e, m.at = t PROVE Reconciled(e, t)
          BY <2>11, <2>21
        <5>1. m.id \in table.events
          BY <3>2 DEF PageKept, FirstTime
        <5> QED
          BY <2>9, <5>1 DEF Reconciled
      <4>3. Right(e)
        BY <2>21, <4>1, <4>2 DEF Account, Agreement
      <4> QED
        BY <1>1, <3>1, <3>2, <4>3 DEF PageKept, Right, Inside, Active, Known, Settled
    <3>3. ASSUME NEW m \in run.changes, PageChanged(mid, e, m) PROVE Right(e)'
      <4>1. m.entity = e
        BY <3>3 DEF PageChanged
      <4>2. t <= run.pageEnd
        BY <2>9, <2>10, <2>11, <2>21
      <4>3. t = m.at
        BY <2>9, <2>10, <2>21, <4>1, <4>2 DEF ChangeAccount
      <4>4. Matches(m)
        BY <2>9, <2>21, <4>1, <4>3 DEF ChangeAccount
      <4>5. RightRow(mid.rows[e], e)
        BY <1>1, <2>21, <3>3, <4>3, <4>4, MatchSettles
      <4> QED
        BY <1>1, <3>1, <4>5 DEF RightRow, Right, Inside, Active, Known, Settled
    <3> QED
      BY <2>4, <3>2, <3>3
  <2>22. ASSUME NEW e \in Entities, e \notin outdated', cursor' = now, Gone(e), IdentityOf[e] \notin spared'
         PROVE  ~Active(table', e)
    <3> SUFFICES ASSUME Active(table', e) PROVE FALSE
      OBVIOUS
    <3>1. run.pageEnd = now /\ run.identities = listed
      BY <2>2, <2>10, <2>22
    <3>2. Active(mid, e) /\ library[e].file = 0
      BY <2>8, <2>22 DEF Account, ArrAccount
    <3>3. ASSUME NEW m \in run.changes, PageChanged(mid, e, m) PROVE FALSE
      <4>1. Matches(m)
        BY <2>9, <3>1 DEF ChangeAccount
      <4>2. RightRow(mid.rows[e], e)
        BY <1>1, <2>22, <3>3, <4>1, MatchSettles
      <4> QED
        BY <3>2, <4>2 DEF RightRow, Inside, Active, Known
    <3>4. PageKept(mid, e)
      BY <2>4, <3>3
    <3>5. Active(table, e) /\ e \notin outdated
      BY <2>2, <2>22, <3>2, <3>4 DEF PageKept, Active, Known
    <3>6. IdentityOf[e] \in Missing \ Spared
      <4>1. IdentityOf[e] \notin listed
        BY <2>22 DEF Account, ArrAccount, Gone
      <4> QED
        BY <2>2, <2>22, <3>1, <3>5, <4>1 DEF Missing, ActiveIdentities
    <3>7. <<"snapshot", IdentityOf[e], run.pageEnd>> \in mid.events
      BY <2>6, <2>8, <3>6
    <3>8. <<"snapshot", IdentityOf[e], run.pageEnd>> \in table.events
      BY <2>4, <2>9, <3>7, IdsApart
    <3>9. Snapped(IdentityOf[e])
      BY <2>10, <3>8 DEF Snapped
    <3> QED
      BY <3>5, <3>9 DEF Account, EventsAccount
  <2>23. Agreement'
    BY <2>13, <2>21, <2>22 DEF Agreement, Active, Known
  <2> QED
    BY <2>12, <2>15, <2>16, <2>17, <2>18, <2>20, <2>23 DEF Account, RunAccount
<1> QED
  BY <1>2, <1>3

LEMMA AccountSteps == CatalogInv /\ Account /\ [CatalogNext]_catalogVars => Account'
<1> SUFFICES ASSUME CatalogInv, Account, [CatalogNext]_catalogVars PROVE Account'
  OBVIOUS
<1>1. CASE UNCHANGED catalogVars
  <2>1. Calm /\ UNCHANGED <<sent, inbox, handler, run>>
    BY <1>1 DEF catalogVars, world, arrVars, inboxVars, storeVars, ghosts, Calm
  <2>2. HooksAccount'
    BY <2>1, HooksKept DEF Calm
  <2> QED
    BY <2>1, <2>2, CalmSteps
<1>2. CASE Arr
  BY <1>2, ArrAccounts
<1>3. CASE MountLost \/ MountBack \/ \E h \in sent : HookLost(h) \/ Receive(h)
  BY <1>3, QuietAccounts
<1>4. CASE Inbox
  BY <1>4, QuietAccounts, HandleAccounts, ApplyAccounts DEF Inbox
<1>5. CASE Reconcile
  BY <1>5, QuietAccounts, ListAccounts, DiscoveryAccounts, WindowAccounts, HydrateAccounts,
     SnapshotAccounts, CommitAccounts DEF Reconcile
<1>6. CASE RunFails \/ Crash
  BY <1>6, QuietAccounts
<1> QED
  BY <1>1, <1>2, <1>3, <1>4, <1>5, <1>6 DEF CatalogNext

\* Whenever a complete reconciliation has read history up to Arr's last change,
\* the catalog holds exactly what Arr holds, but for the two exceptions
\* CatalogAgrees names, for any library, any webhooks lost, late or repeated, any
\* outages and restarts, and any interleaving of the inbox's drain with the
\* reconciler (HandleAt, applyMediaMutationTx, deletedAfterEventTx, ListChanges,
\* commitLibraryDiscovery, CommitReconciliation, withholdSnapshotDeletions).
THEOREM CatalogFollowsArr == CatalogSpec => []CatalogAgrees
<1>1. CatalogInit => CatalogInv /\ Account
  BY CatalogInitSound, AccountInit
<1>2. CatalogInv /\ Account /\ [CatalogNext]_catalogVars => (CatalogInv /\ Account)'
  BY CatalogSteps, AccountSteps
<1>3. CatalogInv /\ Account => CatalogAgrees
  BY AccountAgrees
<1> QED
  BY <1>1, <1>2, <1>3, PTL DEF CatalogSpec

=============================================================================
