------------------------------ MODULE Sidecars ------------------------------
(***************************************************************************)
(* How the record of an installed subtitle follows the media file it was   *)
(* installed for.  Before every search the workflow settles the record     *)
(* (Installer.ReconcileInstallation): Arr may have renamed the media file, *)
(* with or without its sidecar, imported the same bytes under a new file   *)
(* ID, or replaced the file by another one.  The subtitle is then kept,    *)
(* recorded under its new name, moved there, deleted, or forgotten.        *)
(*                                                                         *)
(* One media, one language.  A sidecar name is identified with the media   *)
(* path it is named after, so sidecarNamedFor(n, p) is n = p, and all      *)
(* names are in the media's folder (inMediaFolder).  A file's inode        *)
(* number also names the text it was installed with: its checksum.         *)
(* Searching, and the steps inside an install or a removal, are in Install;*)
(* here an install and RemoveManaged are one step.                         *)
(***************************************************************************)
EXTENDS Naturals, FiniteSets

CONSTANTS
    Paths,          \* media paths, and the sidecar names that go with them
    NoPath,         \* a record that does not know its media path
    Limit,          \* MaxReplacedRemovalsPerHour
    MaxChanges,     \* bound: changes Arr makes
    MaxFiles,       \* bound: subtitle files ever created
    MaxFaults       \* bound: crashes, cancellations and file system errors

ASSUME PathsAssumption == NoPath \notin Paths

ASSUME LimitAssumption == Limit \in Nat \ {0}

VARIABLES
    arr,        \* the media file on disk, as Arr last left it: [file, size, path]
    carries,    \* whether this Arr renames a sidecar together with its media
    media,      \* the media row: what the catalog last recorded of arr
    disk,       \* sidecar name -> the file there, or NoFile
    record,     \* the installations row, or NoRecord
    row,        \* the pending_installs row of a move, or NoRow
    job,        \* the search that is settling the record
    taken,      \* deletions counted in the current hour
    settled,    \* history: "no" since the world last changed, "begun", or "yes": a
                \* search that began after that has completed
    lost,       \* history: Arr changed its file during a search or again before one
                \* settled the change, a sidecar had two names while someone else
                \* changed it, or could not be moved
    files,      \* inodes used so far
    changes, faults
vars == <<arr, carries, media, disk, record, row, job, taken, settled, lost, files, changes, faults>>
env == <<arr, carries, media, lost, changes>>

Sizes == {1, 2}
NoFile == [ino |-> 0, own |-> FALSE]
NoRecord == [path |-> NoPath, sub |-> 0, mediaPath |-> NoPath, file |-> 0, size |-> 0]
NoRow == [from |-> NoPath, to |-> NoPath, ino |-> 0]
NoMedia == [file |-> 0, size |-> 0, path |-> NoPath]
Idle == [pc |-> "idle", media |-> NoMedia, rec |-> NoRecord, from |-> NoPath, to |-> NoPath, linked |-> FALSE]

-----------------------------------------------------------------------------
(* What the reconciliation sees.                                            *)

\* inspectSidecar: the file at a name against the recorded checksum.
Sidecar(name, rec) ==
    IF disk[name] = NoFile THEN "missing"
    ELSE IF disk[name] = [ino |-> rec.sub, own |-> FALSE] THEN "matches"
    ELSE "changed"

\* RebaseSidecarPath.
Rebased(name, old, new) == IF name = old THEN new ELSE name

\* reattachIdenticalFile: the recorded size is unchanged under a new file ID.
Identical(rec, m) == rec.file # 0 /\ rec.file # m.file /\ rec.size = m.size

\* The sidecar of a re-imported file is gone: Arr deleted it with the old file.
IdenticalGone(rec, m) ==
    Identical(rec, m) /\ rec.mediaPath = m.path /\ Sidecar(rec.path, rec) = "missing"

\* Where the sidecar of a re-imported file is; empty when nothing shows that
\* the file is the same.
ReattachTo(rec, m) ==
    IF ~Identical(rec, m) THEN {}
    ELSE IF rec.mediaPath = m.path THEN {rec.path}
    ELSE {name \in {rec.path, Rebased(rec.path, rec.mediaPath, m.path)} :
            name = m.path /\ Sidecar(name, rec) = "matches"}

\* Mutant: only the file ID is compared.
SameFileID(rec, m) == rec.file # 0 /\ rec.file = m.file

SameFile(rec, m) == rec.file # 0 /\ rec.file = m.file /\ rec.size = m.size

Do(what, from, to) == [do |-> what, from |-> from, to |-> to]

\* followRename: what becomes of the sidecar of a renamed media file.
FollowRename(rec, m) ==
    LET expected == rec.path
        old == Rebased(expected, m.path, rec.mediaPath)
        state == Sidecar(expected, rec)
        oldState == IF old = expected THEN "missing" ELSE Sidecar(old, rec)
    IN  CASE state = "matches" -> Do("rebase", old, expected)
          [] state = "changed" /\ oldState # "matches" /\ expected = m.path -> Do("rebase", expected, expected)
          [] state = "changed" /\ oldState = "matches" -> Do("remove", old, old)
          [] state = "missing" /\ oldState = "matches" -> Do("move", old, expected)
          [] OTHER -> Do("drop", expected, expected)

\* Mutant: the sidecar is only looked for where it was recorded.
RecordedName(rec, m) == <<rec.path, rec.path>>

\* settleReplaced: the names under which the subtitle of a replaced file may
\* be, the recorded one first.
Candidates(rec, m) ==
    IF rec.file = 0 \/ rec.mediaPath = NoPath THEN <<rec.path, rec.path>>
    ELSE <<rec.path, Rebased(rec.path, rec.mediaPath, m.path)>>

SettleReplaced(rec, m) ==
    LET names == Candidates(rec, m)
        found == IF Sidecar(names[1], rec) = "matches" THEN names[1] ELSE names[2]
    IN  IF Sidecar(found, rec) # "matches" THEN Do("drop", rec.path, rec.path)
        ELSE IF rec.file = 0 /\ found = m.path THEN Do("keep", found, found)
        ELSE Do(IF taken >= Limit THEN "defer" ELSE "remove", found, found)

\* The switch of ReconcileInstallation, after the reattachment.
Verdict(rec, m) ==
    CASE SameFile(rec, m) /\ rec.mediaPath \notin {NoPath, m.path} -> FollowRename(rec, m)
      [] SameFile(rec, m) /\ rec.mediaPath \in {NoPath, m.path} ->
            IF \/ Sidecar(rec.path, rec) = "missing"
               \/ Sidecar(rec.path, rec) = "changed" /\ rec.path # m.path
              THEN Do("drop", rec.path, rec.path)
              ELSE Do("keep", rec.path, rec.path)
      [] OTHER -> SettleReplaced(rec, m)

-----------------------------------------------------------------------------
\* The record of a subtitle installed for the media file.
Installed(m, sub) == [path |-> m.path, sub |-> sub, mediaPath |-> m.path, file |-> m.file, size |-> m.size]

\* One recorded before installs recorded the media file they were for.
LegacySub == 1
Legacy(m) == [path |-> m.path, sub |-> LegacySub, mediaPath |-> NoPath, file |-> 0, size |-> 0]

Init ==
    /\ \E path \in Paths : arr = [file |-> 1, size |-> 1, path |-> path]
    /\ carries \in BOOLEAN
    /\ media = arr
    /\ record \in {Legacy(arr), Installed(arr, 2)}
    /\ disk = [n \in Paths |-> IF n = arr.path THEN [ino |-> record.sub, own |-> FALSE] ELSE NoFile]
    /\ row = NoRow /\ job = Idle /\ taken = 0 /\ settled = "yes" /\ lost = FALSE
    /\ files = 2 /\ changes = 0 /\ faults = 0

-----------------------------------------------------------------------------
(* Arr and the owner of the library.                                        *)

\* Arr renames its file, re-imports it under a new ID or replaces it, or the
\* file is changed in place.  With a rename Arr carries the sidecar along or
\* leaves it; with a new ID it may delete it with the old file.
ArrChanges(file, size, path, fate) ==
    LET new == [file |-> file, size |-> size, path |-> path]
        carried == [disk EXCEPT ![arr.path] = NoFile, ![path] = disk[arr.path]]
        deleted == [disk EXCEPT ![arr.path] = NoFile]
    IN  /\ changes < MaxChanges
        /\ new # arr
        /\ file \in {arr.file, arr.file + 1}
        /\ file = arr.file => size = arr.size \/ path = arr.path
        /\ CASE fate = "delete" -> file # arr.file /\ disk' = deleted
             [] fate = "carry" -> carries /\ path # arr.path /\ disk[path] = NoFile /\ disk' = carried
             [] fate = "leave" -> (carries => path = arr.path \/ disk[path] # NoFile) /\ UNCHANGED disk
        /\ arr' = new
        /\ changes' = changes + 1
        /\ settled' = "no"
        /\ lost' = (lost \/ settled # "yes" \/ job # Idle \/ row # NoRow)
        /\ UNCHANGED <<carries, media, record, row, job, taken, files, faults>>

\* The catalog records Arr's current file.  A rename of the file the record
\* is for, or of a file it does not know, renames the recorded sidecar.
RebaseInstallationPaths(rec) ==
    IF arr.file = media.file /\ arr.path # media.path /\ rec.file \in {arr.file, 0} /\ rec # NoRecord
      THEN [rec EXCEPT !.path = Rebased(rec.path, media.path, arr.path)]
      ELSE rec

ApplyImport ==
    /\ media # arr
    /\ media' = arr
    /\ record' = RebaseInstallationPaths(record)
    /\ UNCHANGED <<arr, carries, disk, row, job, taken, settled, lost, files, changes, faults>>

\* The owner edits a sidecar in place, deletes it, or adds one.
OwnerActs(new) ==
    /\ changes < MaxChanges
    /\ changes' = changes + 1
    /\ disk' = new
    /\ settled' = "no"
    /\ lost' = (lost \/ row # NoRow)
    /\ UNCHANGED <<arr, carries, media, record, row, job, taken, faults>>

OwnerEdits(name) ==
    /\ disk[name] # NoFile /\ ~disk[name].own
    /\ OwnerActs([n \in Paths |-> IF disk[n] = disk[name] THEN [disk[n] EXCEPT !.own = TRUE] ELSE disk[n]])
    /\ UNCHANGED files

OwnerDeletes(name) ==
    /\ disk[name] # NoFile
    /\ OwnerActs([disk EXCEPT ![name] = NoFile])
    /\ UNCHANGED files

OwnerAdds(name) ==
    /\ disk[name] = NoFile /\ files < MaxFiles
    /\ files' = files + 1
    /\ OwnerActs([disk EXCEPT ![name] = [ino |-> files + 1, own |-> TRUE]])

-----------------------------------------------------------------------------
(* A search settles the record.                                             *)

GoTo(pc) == job' = [job EXCEPT !.pc = pc]

\* The search reads the installation; its media's file is there, as the
\* inventory refresh found it.
Begin ==
    /\ job.pc = "idle"
    /\ media = arr
    /\ job' = [Idle EXCEPT !.pc = IF record = NoRecord THEN "search" ELSE "inspect",
                           !.media = media, !.rec = record]
    /\ settled' = IF settled = "no" THEN "begun" ELSE settled
    /\ UNCHANGED <<env, disk, record, row, taken, files, faults>>

\* The search ends, completed or with an error.
Completes == job' = Idle /\ settled' = IF settled = "begun" THEN "yes" ELSE settled
Fails == job' = Idle /\ settled' = IF settled = "begun" THEN "no" ELSE settled

\* reattachIdenticalFile; ReattachInstallation fails when the record moved.
Reattach ==
    /\ job.pc = "inspect"
    /\ LET to == ReattachTo(job.rec, job.media)
           new(name) == [job.rec EXCEPT !.path = name, !.file = job.media.file]
       IN  IF IdenticalGone(job.rec, job.media)
             THEN GoTo("drop") /\ UNCHANGED <<record, settled>>
           ELSE IF to = {}
             THEN GoTo("decide") /\ UNCHANGED <<record, settled>>
           ELSE IF record # job.rec
             THEN Fails /\ UNCHANGED record
           ELSE \E name \in to :
                  /\ record' = new(name)
                  /\ job' = [job EXCEPT !.pc = "decide", !.rec = new(name)]
                  /\ UNCHANGED settled
    /\ UNCHANGED <<env, disk, row, taken, files, faults>>

\* The switch: what is to be done, from the files as they are now.  A
\* deletion of a replaced file's subtitle takes a slot of the budget; without
\* one the search ends throttled and comes back later.
Decide ==
    /\ job.pc = "decide"
    /\ LET v == Verdict(job.rec, job.media)
           counted == v.do = "remove" /\ ~SameFile(job.rec, job.media)
       IN  /\ IF v.do = "defer" THEN Fails
              ELSE /\ UNCHANGED settled
                   /\ job' = [job EXCEPT !.pc = CASE v.do = "keep" -> "search"
                                               [] v.do = "remove" /\ v.to # job.rec.path -> "aim"
                                               [] OTHER -> v.do,
                                      !.from = v.from, !.to = v.to]
           /\ taken' = IF counted THEN taken + 1 ELSE taken
    /\ UNCHANGED <<env, disk, record, row, files, faults>>

\* DropInstallation: the record goes, the files stay.
Drop ==
    /\ job.pc = "drop"
    /\ IF record = job.rec
         THEN record' = NoRecord /\ GoTo("search") /\ UNCHANGED settled
         ELSE Fails /\ UNCHANGED record
    /\ UNCHANGED <<env, disk, row, taken, files, faults>>

\* RebaseInstallation to where the sidecar is, before it is removed from
\* there.  A failure gives the slot back.
Aim ==
    /\ job.pc = "aim"
    /\ IF record = job.rec
         THEN /\ record' = [record EXCEPT !.path = job.to]
              /\ job' = [job EXCEPT !.pc = "remove", !.rec = record']
              /\ UNCHANGED <<taken, settled>>
         ELSE /\ Fails
              /\ taken' = IF SameFile(job.rec, job.media) THEN taken ELSE taken - 1
              /\ UNCHANGED record
    /\ UNCHANGED <<env, disk, row, files, faults>>

\* RemoveManaged, guarded by the checksum and the record.  An edited sidecar
\* is the owner's now: only its record goes.
RemoveManaged ==
    LET matches == Sidecar(job.to, job.rec) = "matches"
    IN  /\ job.pc = "remove"
        /\ IF matches /\ record = job.rec
             THEN /\ disk' = [disk EXCEPT ![job.to] = NoFile]
                  /\ record' = NoRecord
                  /\ GoTo("search")
                  /\ UNCHANGED <<taken, settled>>
             ELSE /\ IF matches THEN Fails ELSE GoTo("drop") /\ UNCHANGED settled
                  /\ taken' = IF SameFile(job.rec, job.media) THEN taken ELSE taken - 1
                  /\ UNCHANGED <<disk, record>>
        /\ UNCHANGED <<env, row, files, faults>>

\* Mutant: the two names are not compared.
NameRemoved(name, other) == IF name # other THEN [disk EXCEPT ![name] = NoFile] ELSE disk

\* removeSameFile: one of two names of a file, never the last one.
SameFileRemoved(name, other) ==
    IF name # other /\ disk[name] # NoFile /\ disk[name] = disk[other]
      THEN [disk EXCEPT ![name] = NoFile]
      ELSE disk

\* RebaseInstallation under the name where Arr put the sidecar; a second link
\* at the old name goes.
Rebase ==
    /\ job.pc = "rebase"
    /\ IF record = job.rec
         THEN /\ record' = [record EXCEPT !.path = job.to, !.mediaPath = job.media.path]
              /\ disk' = SameFileRemoved(job.from, job.to)
              /\ GoTo("search")
              /\ UNCHANGED settled
         ELSE Fails /\ UNCHANGED <<record, disk>>
    /\ UNCHANGED <<env, row, taken, files, faults>>

-----------------------------------------------------------------------------
(* moveRenamedSidecar.                                                      *)

BeginMove ==
    /\ job.pc = "move"
    /\ IF disk[job.from] = NoFile
         THEN Fails /\ UNCHANGED row
         ELSE /\ row' = [from |-> job.from, to |-> job.to, ino |-> disk[job.from].ino]
              /\ GoTo("link")
              /\ UNCHANGED settled
    /\ UNCHANGED <<env, disk, record, taken, files, faults>>

\* The new name is linked without replacing anything.  Without hard links the
\* file is renamed instead (linked = FALSE); a new name on another file system
\* drops the record.
Link(linked) ==
    /\ job.pc = "link"
    /\ disk[job.from] # NoFile
    /\ IF disk[job.to] # NoFile
         THEN row' = NoRow /\ Fails /\ UNCHANGED disk
         ELSE /\ disk' = [n \in Paths |-> IF n = job.to THEN disk[job.from]
                                          ELSE IF n = job.from /\ ~linked THEN NoFile ELSE disk[n]]
              /\ job' = [job EXCEPT !.pc = "linked", !.linked = linked]
              /\ UNCHANGED <<row, settled>>
    /\ UNCHANGED <<env, record, taken, files, faults>>

Unmovable ==
    /\ job.pc = "link"
    /\ faults < MaxFaults
    /\ faults' = faults + 1
    /\ row' = NoRow
    /\ lost' = TRUE
    /\ GoTo("drop")
    /\ UNCHANGED <<arr, carries, media, changes, disk, record, taken, settled, files>>

LinkFails ==
    /\ job.pc = "link"
    /\ disk[job.from] = NoFile
    /\ row' = NoRow
    /\ Fails
    /\ UNCHANGED <<env, disk, record, taken, files, faults>>

\* The undo of a move: the new name goes, or the file is renamed back unless
\* something is at the old name by now.
UndoneMove ==
    IF job.linked THEN SameFileRemoved(job.to, job.from)
    ELSE [disk EXCEPT ![job.from] = disk[job.to], ![job.to] = NoFile]

CanUndo ==
    IF job.linked THEN disk[job.to] = NoFile \/ disk[job.from] = disk[job.to]
    ELSE disk[job.from] = NoFile /\ disk[job.to] # NoFile

\* The search fails; a move that cannot be undone leaves its row for the next
\* start.
UndoMove ==
    /\ IF CanUndo THEN disk' = UndoneMove /\ row' = NoRow ELSE UNCHANGED <<disk, row>>
    /\ Fails
    /\ UNCHANGED record

\* The moved file is checked again and recorded under its new name.
RecordMove ==
    /\ job.pc = "linked"
    /\ IF Sidecar(job.to, job.rec) = "matches" /\ record = job.rec
         THEN /\ record' = [record EXCEPT !.path = job.to, !.mediaPath = job.media.path]
              /\ GoTo("unlink")
              /\ UNCHANGED <<disk, row, settled>>
         ELSE UndoMove
    /\ UNCHANGED <<env, taken, files, faults>>

\* The directory cannot be synced, or the database does not record the move.
RecordMoveFails ==
    /\ job.pc = "linked"
    /\ faults < MaxFaults
    /\ faults' = faults + 1
    /\ UndoMove
    /\ UNCHANGED <<env, taken, files>>

\* The old name of a linked file goes; when it cannot be removed the row stays
\* for the next start.
Unlink ==
    /\ job.pc = "unlink"
    /\ disk' = IF job.linked THEN SameFileRemoved(job.from, job.to) ELSE disk
    /\ row' = IF job.linked /\ disk[job.from] \notin {NoFile, disk[job.to]} THEN row ELSE NoRow
    /\ GoTo("search")
    /\ UNCHANGED <<env, record, taken, settled, files, faults>>

UnlinkFails ==
    /\ job.pc = "unlink"
    /\ job.linked
    /\ faults < MaxFaults
    /\ faults' = faults + 1
    /\ GoTo("search")
    /\ UNCHANGED <<env, disk, record, row, taken, settled, files>>

-----------------------------------------------------------------------------
(* The search that follows, its end, and what interrupts it.                *)

\* The search goes on with the record settled: with none left and nothing at
\* the name of the media file it may install a subtitle, once the media file
\* is verified to be the one it searched for.
Install ==
    /\ job.pc = "search"
    /\ record = NoRecord
    /\ disk[job.media.path] = NoFile
    /\ job.media = arr
    /\ files < MaxFiles
    /\ files' = files + 1
    /\ disk' = [disk EXCEPT ![job.media.path] = [ino |-> files + 1, own |-> FALSE]]
    /\ record' = Installed(job.media, files + 1)
    /\ Completes
    /\ UNCHANGED <<env, row, taken, faults>>

SearchEnds ==
    /\ job.pc = "search"
    /\ Completes
    /\ UNCHANGED <<env, disk, record, row, taken, files, faults>>

\* The context ends before a change is made: nothing is changed, a reserved
\* slot is given back.
Cancelled ==
    /\ job.pc \in {"inspect", "decide", "drop", "aim", "remove", "rebase", "move"}
    /\ faults < MaxFaults
    /\ faults' = faults + 1
    /\ Fails
    /\ taken' = IF job.pc \in {"aim", "remove"} /\ ~SameFile(job.rec, job.media) THEN taken - 1 ELSE taken
    /\ UNCHANGED <<env, disk, record, row, files>>

\* A deletion leaves the rolling hour.
SlotFrees ==
    /\ taken > 0
    /\ job.pc \notin {"aim", "remove"}
    /\ taken' = taken - 1
    /\ UNCHANGED <<env, disk, record, row, job, settled, files, faults>>

\* Another media's deletion takes a slot.
SlotTaken ==
    /\ taken < Limit
    /\ taken' = taken + 1
    /\ UNCHANGED <<env, disk, record, row, job, settled, files, faults>>

\* Mutant: the row is only deleted.
MoveForgotten == disk

\* The daemon dies and starts again: the budget starts anew, and
\* recoverPendingMove removes the old name of a file that has both.
RecoverPendingMove ==
    IF row # NoRow /\ disk[row.from] = [ino |-> row.ino, own |-> FALSE]
      THEN SameFileRemoved(row.from, row.to)
      ELSE disk

Restart ==
    /\ faults < MaxFaults
    /\ faults' = faults + 1
    /\ taken' = 0
    /\ IF row = NoRow THEN Fails /\ UNCHANGED <<disk, row>>
       ELSE job' = Idle /\ settled' = "no" /\ disk' = RecoverPendingMove /\ row' = NoRow
    /\ UNCHANGED <<env, record, files>>

World ==
    \/ \E file \in 1 .. MaxChanges + 1, size \in Sizes, path \in Paths, fate \in {"carry", "leave", "delete"} :
          ArrChanges(file, size, path, fate)
    \/ ApplyImport
    \/ \E name \in Paths : OwnerEdits(name) \/ OwnerDeletes(name) \/ OwnerAdds(name)
    \/ SlotFrees \/ SlotTaken

Move ==
    \/ BeginMove \/ (\E linked \in BOOLEAN : Link(linked)) \/ LinkFails \/ Unmovable
    \/ RecordMove \/ RecordMoveFails \/ Unlink \/ UnlinkFails

Settle == Begin \/ Reattach \/ Decide \/ Drop \/ Aim \/ RemoveManaged \/ Rebase \/ Move \/ Install \/ SearchEnds

Next == World \/ Settle \/ Cancelled \/ Restart

Spec == Init /\ [][Next]_vars

-----------------------------------------------------------------------------
(* Properties.                                                              *)

\* After a search that settled the record for the current media file, with
\* nothing happening since, what is recorded is true: the record names the
\* media file, and the file at the recorded name is the recorded subtitle or
\* the owner's edit of the subtitle of this media (ReconcileInstallation).
RecordTrue ==
    (job = Idle /\ settled = "yes" /\ record # NoRecord) =>
        /\ disk[record.path] # NoFile
        /\ record.file # 0 => record.file = arr.file /\ record.size = arr.size /\ record.mediaPath = arr.path
        /\ disk[record.path].own => record.path = arr.path

\* An unedited subtitle has one name whenever no move is in progress or waits
\* for the next start, crashes and failed unlinks in between included
\* (moveRenamedSidecar, recoverPendingMove).
OneName ==
    (job = Idle /\ row = NoRow /\ ~lost) =>
        \A m, n \in Paths : disk[m] # NoFile /\ ~disk[m].own /\ disk[m] = disk[n] => m = n

\* The owner's files keep a name in this step.
OwnerLeft ==
    (arr' = arr /\ changes' = changes) =>
        \A n \in Paths : disk[n].own => \E m \in Paths : disk'[m] = disk[n]

\* No step of the daemon takes the last name of a file the owner wrote or
\* edited: deletions, moves, undos and the recovery at startup
\* (RemoveManaged, removeSameFile, restoreRemoved, recoverPendingMove).
OwnerKept == [][OwnerLeft]_vars

\* A subtitle installed for an earlier media file is not left beside the
\* current one, under its name, untracked: once a search settled the record,
\* an unedited subtitle at the name of the media file is the recorded one.
\* Nothing shows what file a record without a media path was for; and when
\* Arr renames a file and replaces it before a search has followed the
\* rename, the record names neither of the places where the sidecar can be;
\* a sidecar carried away during a search looks deleted to it; one that
\* cannot be moved is left where it is (settleReplaced, followRename).
NoStaleSubtitle ==
    (job = Idle /\ settled = "yes" /\ ~lost /\ disk[arr.path] # NoFile /\ ~disk[arr.path].own /\ disk[arr.path].ino # LegacySub) =>
        record.path = arr.path /\ record.sub = disk[arr.path].ino

\* The record and the subtitle follow the media file through renames, imports,
\* replacements, crashes and failed calls (ReconcileInstallation).
RecordFollows == RecordTrue /\ OneName /\ NoStaleSubtitle
=============================================================================
