----------------------------- MODULE MediaTable -----------------------------
(***************************************************************************)
(* The media and events tables of one Arr instance, and what one media     *)
(* mutation does to them (applyMediaMutationTx, internal/store).           *)
(*                                                                         *)
(* A movie or an episode is an entity; the top-level identity Arr lists it *)
(* under is the movie itself or the episode's series.  A table is a record *)
(* of the rows, the ids of the recorded events and, as a history, the      *)
(* files whose searches were opened.  What a mutation does to the record   *)
(* of an installed subtitle is in Sidecars, what it does to a queued       *)
(* search in SearchQueue.                                                  *)
(***************************************************************************)
EXTENDS Naturals, FiniteSets, Sequences

CONSTANTS
    Entities,       \* movies, or episodes
    IdentityOf      \* the movie itself, or the series of an episode

Identities == {IdentityOf[e] : e \in Entities}

\* What the database holds before anything was applied.  File 0 is no file:
\* Arr numbers files from 1.
UnknownMedia == [file |-> 0, path |-> 0, deleted |-> FALSE, deletedAt |-> 0,
                 entityDeletedAt |-> 0, updatedAt |-> 0]

EmptyTable == [rows |-> [e \in Entities |-> UnknownMedia], events |-> {}, asked |-> {}]

Known(t, e) == t.rows[e].file # 0

Active(t, e) == Known(t, e) /\ ~t.rows[e].deleted

ActiveIdentities(t) == {IdentityOf[e] : e \in {x \in Entities : Active(t, x)}}

\* instances.event_revision: a trigger counts the insertions into events.
Revision(t) == Cardinality(t.events)

\* The mutations: an import or a rename of what Arr holds for an entity, the
\* deletion of a file, and of everything under an identity.
Import(id, e, media, at, replay) ==
    [type |-> "import", id |-> id, entity |-> e, file |-> media.file,
     path |-> media.path, at |-> at, replay |-> replay]

DeleteFile(id, f, at) == [type |-> "deleteFile", id |-> id, file |-> f, at |-> at]

DeleteEntity(id, e, at) == [type |-> "deleteEntity", id |-> id, entity |-> e, at |-> at]

DeleteIdentity(id, i, at) == [type |-> "deleteIdentity", id |-> id, identity |-> i, at |-> at]

\* A movie goes by its own id, a series by the series id.
DeleteTop(id, i, at) ==
    IF i \in Entities THEN DeleteEntity(id, i, at) ELSE DeleteIdentity(id, i, at)

Larger(a, b) == IF a > b THEN a ELSE b

-----------------------------------------------------------------------------

\* BUG: an import is never older than what the table says.
NeverStale(t, m) == FALSE

\* deletedAfterEventTx: the file, or its whole entity, was deleted after the
\* change happened.  A delete of another file of the entity does not count.
DeletedAfter(t, m) ==
    \E e \in Entities :
        /\ Known(t, e) /\ t.rows[e].deleted
        /\ \/ t.rows[e].file = m.file /\ t.rows[e].deletedAt > m.at
           \/ e = m.entity /\ t.rows[e].entityDeletedAt > m.at

\* BUG: every known file counts as searched for.
AnyKnownImport(t, m) == m.replay /\ Known(t, m.entity)

\* replayOfAppliedImportTx: a replayed import that finds its file recorded as
\* it describes, by a change applied at or after its time, carries no news.
ReplayOfApplied(t, m) ==
    LET row == t.rows[m.entity]
    IN  /\ m.replay
        /\ Active(t, m.entity)
        /\ row.file = m.file /\ row.path = m.path
        /\ row.updatedAt >= m.at

\* upsertMediaTx and scheduleMediaSearchTx.
ImportedRow(row, m) ==
    [row EXCEPT !.file = m.file, !.path = m.path, !.deleted = FALSE,
                !.updatedAt = Larger(@, m.at)]

Imported(t, m) ==
    [t EXCEPT !.rows[m.entity] = ImportedRow(@, m),
              !.asked = IF ReplayOfApplied(t, m) THEN @ ELSE @ \cup {m.file}]

\* The delete branch of applyMediaMutationTx for one row.  Only a delete
\* without a file id also stops imports of other files.
DeletedRow(row, at, whole) ==
    LET entityAt == IF whole THEN at ELSE 0
    IN  [row EXCEPT !.deleted = TRUE,
                    !.deletedAt = IF row.deleted THEN Larger(@, at) ELSE at,
                    !.entityDeletedAt = IF row.deleted THEN Larger(@, entityAt)
                                        ELSE entityAt,
                    !.updatedAt = Larger(@, at)]

Recorded(t, id) == [t EXCEPT !.events = @ \cup {id}]

\* The rows a delete finds.  A series delete is one child delete per known
\* episode, each with an event of its own.
Hit(t, m) ==
    {e \in Entities :
        /\ Known(t, e)
        /\ CASE m.type = "deleteFile" -> t.rows[e].file = m.file
             [] m.type = "deleteEntity" -> e = m.entity
             [] OTHER -> IdentityOf[e] = m.identity}

DeleteApplied(t, m) ==
    LET hit == Hit(t, m)
        children == IF m.type = "deleteIdentity" THEN {<<"episode", m.id, e>> : e \in hit} ELSE {}
    IN  [t EXCEPT !.rows = [e \in Entities |->
                               IF e \in hit
                               THEN DeletedRow(t.rows[e], m.at, m.type # "deleteFile")
                               ELSE t.rows[e]],
                  !.events = @ \cup {m.id} \cup children]

\* INSERT INTO events ... ON CONFLICT DO NOTHING reports whether it is new.
FirstTime(t, m) == m.id \notin t.events

\* applyMediaMutationTx.  A stale import leaves its event recorded; a caller
\* that treats it as not applied rolls the insertion back.
Applied(t, m) ==
    IF ~FirstTime(t, m) THEN t
    ELSE IF m.type = "import"
         THEN IF DeletedAfter(t, m) THEN Recorded(t, m.id)
              ELSE Imported(Recorded(t, m.id), m)
         ELSE DeleteApplied(t, m)

\* ApplyMediaEvent: a mutation that was not applied leaves nothing behind.
EventApplied(t, m) ==
    IF m.type = "import" /\ DeletedAfter(t, m) THEN t ELSE Applied(t, m)

=============================================================================
