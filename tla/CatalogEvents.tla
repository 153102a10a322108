--------------------------- MODULE CatalogEvents ---------------------------
(***************************************************************************)
(* How the catalog of one Arr instance follows Arr: webhooks through the   *)
(* durable inbox (internal/catalog/webhook_inbox.go, webhook.go), history, *)
(* library discovery and identity snapshots through the reconciler         *)
(* (reconcile.go, discovery.go), both into the tables of MediaTable.       *)
(*                                                                         *)
(* Arr is external: it changes its library, records history and sends a    *)
(* webhook per change, which may be delayed, overtaken or lost.  The       *)
(* inbox's drain and the reconciler interleave at every call to Arr and    *)
(* every transaction.  The clock counts Arr's changes: what happens        *)
(* between two of them has the time of the earlier one.  Arr's clock and   *)
(* the daemon's are taken to agree.                                        *)
(***************************************************************************)
EXTENDS MediaTable

CONSTANTS
    InScope,            \* paths under a configured mapping and media root
    Outside,            \* paths that are not
    MaxLibraryChanges,  \* bound: changes Arr makes
    MaxAttempts,        \* maxWebhookAttempts
    MassDeletion,       \* massDeletionMinimum
    MaxOutages          \* bound: outages of the mount, restarts of the daemon,
                        \* failed reconciliations and lost webhooks

VARIABLES
    now,        \* the number of changes Arr made
    library,    \* Arr's library: the file of each entity and its path
    listed,     \* the identities Arr lists
    removed,    \* the identities Arr listed once; Arr does not reuse an id
    history,    \* Arr's history: the entity and time of each record
    sent,       \* webhooks on their way
    outages,    \* how many of those there were
    mounted,    \* the media root is readable
    inbox,      \* the webhook_inbox table, in id order
    handler,    \* the webhook being applied
    table,      \* the media and events tables
    cursor,     \* instances.reconciliation_cursor
    replays,    \* the reconciliation_replays table
    discovered, \* library_scope is the configured one
    run,        \* the running reconciliation
    outdated,   \* history: entities whose last applied webhook carried what Arr
                \* had already replaced
    spared      \* history: identities whose deletion the last snapshot withheld

arrVars == <<now, library, listed, removed, history>>
ghosts == <<outdated, spared>>
world == <<arrVars, sent, outages, mounted>>
inboxVars == <<inbox, handler>>
storeVars == <<table, cursor, replays, discovered>>
catalogVars == <<world, inboxVars, storeVars, run, ghosts>>

FilePaths == InScope \cup Outside

ASSUME CatalogAssumption ==
    /\ {MaxLibraryChanges, MaxAttempts, MassDeletion, MaxOutages} \subseteq Nat
    /\ FilePaths \subseteq Nat \ {0}
    /\ IsFiniteSet(Entities)
    /\ IdentityOf \in [Entities -> Identities]
    /\ \A e \in Entities : IdentityOf[e] \in Entities => IdentityOf[e] = e

Times == 0..MaxLibraryChanges

Empty == [file |-> 0, path |-> 0]

Resting == [phase |-> "idle"]

CatalogInit ==
    /\ now = 0
    /\ library = [e \in Entities |-> Empty]
    /\ listed = {}
    /\ removed = {}
    /\ history = {}
    /\ sent = {}
    /\ outages = 0
    /\ mounted = TRUE
    /\ inbox = <<>>
    /\ handler = Resting
    /\ table = EmptyTable
    /\ cursor = 0
    /\ replays = {}
    /\ discovered = FALSE
    /\ run = Resting
    /\ outdated = {}
    /\ spared = {}

-----------------------------------------------------------------------------
(* Arr, external *)

\* File ids are fresh, so the time of an import serves as its file's id.
Hook(type, e, file, path) == [type |-> type, entity |-> e, file |-> file, path |-> path]

Changed(e, media, hooks) ==
    /\ now' = now + 1
    /\ library' = [library EXCEPT ![e] = media]
    /\ history' = history \cup {<<e, now + 1>>}
    /\ sent' = sent \cup hooks
    /\ UNCHANGED <<removed, outages, mounted, inboxVars, storeVars, run, ghosts>>

\* A first import, or an upgrade, which also deletes the file it replaces.
ArrImport(e, p) ==
    /\ now < MaxLibraryChanges
    /\ IdentityOf[e] \notin removed
    /\ listed' = listed \cup {IdentityOf[e]}
    /\ Changed(e, [file |-> now + 1, path |-> p],
               {Hook("import", e, now + 1, p)}
                 \cup {Hook("delete", e, f, library[e].path) :
                          f \in {library[e].file} \ {0}})

ArrRename(e, p) ==
    /\ now < MaxLibraryChanges
    /\ library[e].file # 0 /\ library[e].path # p
    /\ Changed(e, [library[e] EXCEPT !.path = p],
               {Hook("rename", e, library[e].file, p)})
    /\ UNCHANGED listed

ArrDeleteFile(e) ==
    /\ now < MaxLibraryChanges
    /\ library[e].file # 0
    /\ Changed(e, Empty, {Hook("delete", e, library[e].file, library[e].path)})
    /\ UNCHANGED listed

\* A movie or a series leaves Arr, and takes its history with it.
ArrRemove(i) ==
    /\ now < MaxLibraryChanges
    /\ i \in listed
    /\ now' = now + 1
    /\ listed' = listed \ {i}
    /\ removed' = removed \cup {i}
    /\ library' = [e \in Entities |-> IF IdentityOf[e] = i THEN Empty ELSE library[e]]
    /\ history' = {r \in history : IdentityOf[r[1]] # i}
    /\ sent' = sent \cup {[type |-> "remove", identity |-> i]}
    /\ UNCHANGED <<outages, mounted, inboxVars, storeVars, run, ghosts>>

MountLost ==
    /\ mounted /\ outages < MaxOutages
    /\ mounted' = FALSE
    /\ outages' = outages + 1
    /\ UNCHANGED <<arrVars, sent, inboxVars, storeVars, run, ghosts>>

MountBack ==
    /\ ~mounted
    /\ mounted' = TRUE
    /\ UNCHANGED <<arrVars, sent, outages, inboxVars, storeVars, run, ghosts>>

HookLost(h) ==
    /\ h \in sent /\ outages < MaxOutages
    /\ sent' = sent \ {h}
    /\ outages' = outages + 1
    /\ UNCHANGED <<arrVars, mounted, inboxVars, storeVars, run, ghosts>>

\* What hydrating the current file of e answers (GetMedia, MapPath).
Hydrated(e) ==
    IF library[e].file = 0 THEN "absent"
    ELSE IF library[e].path \in Outside THEN "outside"
    ELSE IF ~mounted THEN "unavailable" ELSE "present"

-----------------------------------------------------------------------------
(* The webhook inbox *)

\* WebhookAcceptor.Handle and EnqueueWebhook: what Handle refuses or ignores
\* at once is not a webhook of this model.
Receive(h) ==
    /\ h \in sent
    /\ sent' = sent \ {h}
    /\ inbox' = Append(inbox, [hook |-> h, at |-> now, attempt |-> 0])
    /\ UNCHANGED <<arrVars, outages, mounted, handler, storeVars, run, ghosts>>

\* DueWebhooks: arrival order; a retry falls due some time later.
Due(n) ==
    /\ n \in DOMAIN inbox
    /\ inbox[n].attempt = 0 => \A m \in 1..(n - 1) : inbox[m].attempt # 0

\* The inbox when its n-th row is deleted.
Without(n) == [m \in 1..(Len(inbox) - 1) |-> inbox[IF m < n THEN m ELSE m + 1]]

\* stableEventID: the content of the webhook.
HookID(h) == <<"webhook", h>>

\* The mutation of a stored webhook, dated with its receipt.
Mutation(item, e) ==
    LET h == item.hook
    IN  CASE h.type = "delete" -> DeleteFile(HookID(h), h.file, item.at)
          [] h.type = "remove" -> DeleteTop(HookID(h), h.identity, item.at)
          [] OTHER -> Import(HookID(h), e, library[e], item.at, FALSE)

\* The entity whose current file the webhook names, if Arr still has it.
Holder(h) == {e \in Entities : library[e].file = h.file}

\* HandleAt up to ApplyMediaEvent: what was applied before, or lies outside
\* the scope, needs no more than its row's deletion.
Handle(n) ==
    LET h == inbox[n].hook
        step(phase, m) == handler' = [phase |-> phase, item |-> n, mutation |-> m]
        none == DeleteFile(HookID(h), 0, 0)
    IN  /\ handler = Resting /\ Due(n)
        /\ IF HookID(h) \in table.events THEN step("done", none)
           ELSE IF h.type \in {"delete", "remove"} THEN step("apply", Mutation(inbox[n], {}))
           ELSE \E e \in Holder(h) :
                   \/ Hydrated(e) = "outside" /\ step("done", none)
                   \/ Hydrated(e) = "present" /\ step("apply", Mutation(inbox[n], e))
        /\ UNCHANGED <<world, inbox, storeVars, run, ghosts>>

\* GetMedia fails: Arr is not reachable, no longer has the file, or the file
\* cannot be read.  Drain retries later, or abandons the webhook.
HandleFails(n) ==
    LET h == inbox[n].hook
    IN  /\ handler = Resting /\ Due(n)
        /\ HookID(h) \notin table.events /\ h.type \notin {"delete", "remove"}
        /\ inbox' = IF inbox[n].attempt + 1 >= MaxAttempts THEN Without(n)
                    ELSE [inbox EXCEPT ![n].attempt = @ + 1]
        /\ UNCHANGED <<world, handler, storeVars, run, ghosts>>

\* The table says that the file, or the whole entity, was deleted after the
\* webhook came: its import is to be ignored.
Late(m) ==
    LET row == table.rows[m.entity]
    IN  /\ Known(table, m.entity) /\ row.deleted
        /\ (row.file = m.file /\ row.deletedAt > m.at) \/ row.entityDeletedAt > m.at

ApplyEvent ==
    /\ handler.phase = "apply"
    /\ table' = EventApplied(table, handler.mutation)
    /\ handler' = [handler EXCEPT !.phase = "done"]
    /\ LET m == handler.mutation
       IN  outdated' = IF m.type # "import" \/ Late(m) THEN outdated
                       ELSE IF library[m.entity] = [file |-> m.file, path |-> m.path]
                            THEN outdated \ {m.entity} ELSE outdated \cup {m.entity}
    /\ UNCHANGED <<world, inbox, cursor, replays, discovered, run, spared>>

DeleteWebhook ==
    /\ handler.phase = "done"
    /\ inbox' = Without(handler.item)
    /\ handler' = Resting
    /\ UNCHANGED <<world, storeVars, run, ghosts>>

-----------------------------------------------------------------------------
(* The reconciler *)

\* Reconciler.Run reads the discovery state; the enumeration is skipped when
\* the configured scope is complete.
StartRun ==
    /\ run = Resting
    /\ run' = IF discovered THEN [phase |-> "ready"]
              ELSE [phase |-> "discover", revision |-> Revision(table)]
    /\ UNCHANGED <<world, inboxVars, storeVars, ghosts>>

\* ListLibrary: the readable files in scope; unreadable ones are deferred.
ListLibrary ==
    /\ run.phase = "discover"
    /\ run' = [phase |-> "listed", revision |-> run.revision,
               items |-> [e \in {x \in Entities : Hydrated(x) = "present"} |->
                             library[e]],
               partial |-> \E e \in Entities : Hydrated(e) = "unavailable"]
    /\ UNCHANGED <<world, inboxVars, storeVars, ghosts>>

\* The order a transaction applies mutations in: by the time they carry.
InOrder(mutations) ==
    {s \in [1..Cardinality(mutations) -> mutations] :
        \A i, j \in DOMAIN s : i < j => s[i] # s[j] /\ s[i].at <= s[j].at}

\* A transaction that applies the mutations of s in turn, but for those it skips.
AppliedAll(t, s, skipped) ==
    LET after[n \in 0..Len(s)] ==
            IF n = 0 THEN t
            ELSE IF s[n].id \in skipped THEN after[n - 1]
                 ELSE Applied(after[n - 1], s[n])
    IN  after[Len(s)]

\* Discovery adds unknown media only: known rows, deleted ones too, belong to
\* reconciliation.
FoundNew(items) == {e \in DOMAIN items : ~Known(table, e)}

Discovery(e) ==
    Import(<<"library", e, run.items[e].file>>, e, run.items[e], now, FALSE)

\* commitLibraryDiscovery, complete or partial, behind its revision fence.
CommitDiscovery ==
    /\ run.phase = "listed"
    /\ IF Revision(table) # run.revision
       THEN /\ run' = Resting
            /\ UNCHANGED <<table, discovered>>
       ELSE /\ \E page \in InOrder({Discovery(e) : e \in FoundNew(run.items)}) :
                   table' = AppliedAll(table, page, {})
            /\ discovered' = ~run.partial
            /\ run' = [phase |-> "ready"]
    /\ UNCHANGED <<world, inboxVars, cursor, replays, ghosts>>

\* readHistoryWindow: the second of the cursor is read again.
InWindow(r) == r[2] >= cursor /\ r[2] <= now

\* GetReconciliationState, and ListChanges up to reduceHistoryByEntity: the
\* latest record of each entity.
ReadHistory ==
    /\ run.phase = "ready"
    /\ run' = [phase |-> "window", revision |-> Revision(table), cursor |-> cursor,
               pageEnd |-> now,
               latest |-> {r \in history : InWindow(r) /\ \A q \in history :
                                              q[1] = r[1] => q[2] <= r[2]}]
    /\ UNCHANGED <<world, inboxVars, storeVars, ghosts>>

\* The mutation of a history record: what Arr holds now, at the record's time.
HistoryMutation(r) ==
    LET id == <<"reconcile", r[1], r[2]>>
    IN  IF Hydrated(r[1]) = "present" THEN Import(id, r[1], library[r[1]], r[2], TRUE)
        ELSE DeleteEntity(id, r[1], r[2])

\* The second half of ListChanges: every entity is hydrated, unreadable ones
\* are deferred.
HydrateChanges ==
    LET readable == {r \in run.latest : Hydrated(r[1]) # "unavailable"}
    IN  /\ run.phase = "window"
        /\ run' = [phase |-> "changes", revision |-> run.revision, cursor |-> run.cursor,
                   pageEnd |-> run.pageEnd,
                   changes |-> {HistoryMutation(r) : r \in readable},
                   deferred |-> readable # run.latest]
        /\ UNCHANGED <<world, inboxVars, storeVars, ghosts>>

ListIdentitySnapshot ==
    /\ run.phase = "changes"
    /\ run' = [phase |-> "commit", revision |-> run.revision, cursor |-> run.cursor,
               pageEnd |-> run.pageEnd, changes |-> run.changes,
               deferred |-> run.deferred, identities |-> listed]
    /\ UNCHANGED <<world, inboxVars, storeVars, ghosts>>

\* withholdSnapshotDeletions.
Withheld(active, missing) ==
    /\ active >= 2 /\ missing # 0
    /\ missing = active \/ (missing >= MassDeletion /\ missing * 2 > active)

\* The tracked identities that the snapshot does not list, and those of them
\* whose deletion is withheld.
Missing == ActiveIdentities(table) \ run.identities

Spared ==
    IF Withheld(Cardinality(ActiveIdentities(table)), Cardinality(Missing)) THEN Missing ELSE {}

SnapshotDeletions ==
    {DeleteTop(<<"snapshot", i, run.pageEnd>>, i, run.pageEnd) : i \in Missing \ Spared}

\* BUG: only a concurrent page is fenced, not an event.
FencedByCursor == cursor = run.cursor

\* The fence of CommitReconciliation.
Unmoved == Revision(table) = run.revision /\ cursor = run.cursor

\* CommitReconciliation.  A page with a deferred entity keeps the cursor and
\* remembers what it applied; the page that advances it skips those.
CommitRun ==
    /\ run.phase = "commit"
    /\ IF Unmoved
       THEN /\ \E page \in InOrder(run.changes), gone \in InOrder(SnapshotDeletions) :
                   table' = AppliedAll(AppliedAll(table, page, replays), gone, replays)
            /\ IF run.deferred
               THEN /\ replays' = replays \cup {m.id : m \in run.changes \cup SnapshotDeletions}
                    /\ UNCHANGED cursor
               ELSE /\ replays' = {}
                    /\ cursor' = run.pageEnd
            /\ outdated' = outdated \ {m.entity : m \in {c \in run.changes : FirstTime(table, c)}}
            /\ spared' = Spared
       ELSE UNCHANGED <<table, cursor, replays, ghosts>>
    /\ run' = Resting
    /\ UNCHANGED <<world, inboxVars, discovered>>

\* Arr does not answer; the worker runs the reconciliation again later.
RunFails ==
    /\ run # Resting /\ outages < MaxOutages
    /\ run' = Resting
    /\ outages' = outages + 1
    /\ UNCHANGED <<arrVars, sent, mounted, inboxVars, storeVars, ghosts>>

\* The daemon dies and starts again: the database is all that is left.
Crash ==
    /\ outages < MaxOutages
    /\ handler # Resting \/ run # Resting
    /\ handler' = Resting
    /\ run' = Resting
    /\ outages' = outages + 1
    /\ UNCHANGED <<arrVars, sent, mounted, inbox, storeVars, ghosts>>

Arr ==
    \/ \E e \in Entities, p \in FilePaths : ArrImport(e, p) \/ ArrRename(e, p)
    \/ \E e \in Entities : ArrDeleteFile(e)
    \/ \E i \in Identities : ArrRemove(i)

Inbox ==
    \/ \E n \in DOMAIN inbox : Handle(n) \/ HandleFails(n)
    \/ ApplyEvent \/ DeleteWebhook

Reconcile ==
    StartRun \/ ListLibrary \/ CommitDiscovery \/ ReadHistory \/ HydrateChanges
      \/ ListIdentitySnapshot \/ CommitRun

CatalogNext ==
    \/ Arr \/ MountLost \/ MountBack
    \/ \E h \in sent : HookLost(h) \/ Receive(h)
    \/ Inbox \/ Reconcile \/ RunFails \/ Crash

CatalogSpec == CatalogInit /\ [][CatalogNext]_catalogVars

-----------------------------------------------------------------------------
(* Properties *)

Agrees(e) ==
    IF Hydrated(e) = "present"
    THEN Active(table, e) /\ table.rows[e].file = library[e].file /\ table.rows[e].path = library[e].path
    ELSE ~Active(table, e)

\* Once a complete reconciliation has read history up to Arr's last change, the
\* catalog holds what Arr holds, whatever was lost, late, repeated or read before
\* it changed (applyMediaMutationTx, deletedAfterEventTx, CommitReconciliation),
\* but for identities whose deletion that reconciliation withheld, too many
\* having disappeared at once, and entities whose last webhook Arr had overtaken.
CatalogAgrees ==
    mounted /\ cursor = now =>
        \A e \in Entities \ outdated : IdentityOf[e] \in spared \/ Agrees(e)

\* Every file the catalog tracks had its searches opened, whichever of webhook,
\* discovery and history brought it first (replayOfAppliedImportTx, upsertMediaTx).
FilesSearched ==
    \A e \in Entities : Active(table, e) => table.rows[e].file \in table.asked

\* No row goes back to an earlier file in this step of the reconciler.
NotTakenBack ==
    handler' = handler =>
        \A e \in Entities : table'.rows[e].file >= table.rows[e].file

\* A reconciliation never takes the catalog back to a file Arr replaced, though
\* what it commits was read before events applied meanwhile (the revision
\* fences of CommitReconciliation and commitLibraryDiscovery).
NoRegress == [][NotTakenBack]_catalogVars

=============================================================================
