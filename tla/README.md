# A TLA+ model of subsyncd

subsyncd is a daemon that keeps subtitles beside the films and episodes of
Sonarr and Radarr libraries. Arr webhooks and reconciliation tell it which files
exist; a durable queue holds one search for each file and language; a worker
leases due searches, asks providers, synchronises the best candidate and
publishes it beside the media file; notifications tell media servers. An owner
can search, reject and remove by hand while all of this runs.

The modules here model the parts in which several actors share durable state (the
queue with its leases, the catalog that follows Arr, the publication of a subtitle
with its crash recovery, the outbox, the providers' limits, the daemon's shutdown),
the acquisition of a subtitle, and the pure algorithms whose boundaries matter. They
are checked with TLC on small instances, and the theorems listed below are proved with
TLAPS for every instance.

## The system's parts

| part | state | operations | hard behaviour |
|---|---|---|---|
| search queue (`internal/store`) | `search_states` rows: state, due time, class, lease, `rerun_requested`, `replace_installed` | schedule, lease, claim, renew, complete, settle, release, backfill, retry | changes that arrive while a job runs; leases that expire under a running job; deletes; crashes |
| worker (`internal/worker`) | running jobs, their contexts and renewals | lease, load, run, complete, cancel, abandon; deliver notifications; reconcile | a timeout that races a late answer, shutdown, a lost lease |
| manual search and reject (`internal/app`) | manual jobs, slots | resolve, revive, claim, settle, reject, undo | several reads and writes outside one transaction, beside worker jobs |
| manual slots (`internal/app/manual_search.go`) | free slots, FIFO of waiters | acquire, release | a slot granted in the moment the caller gives up |
| installer and removal (`internal/workflow`) | the sidecar, hidden files, `installations`, `pending_installs` | stage, copy, list, publish, record, roll back, move aside, restore | crashes between file and database; the owner's edits; abandoned runs |
| startup recovery (`internal/workflow`, `internal/app`) | pending rows | settle rows in id order, discard rollback copies | rows of several interrupted runs |
| inventory (`internal/inventory`) | tracks, probe fingerprints | refresh | a file replaced in place |
| sidecar reconcile, removal budget (`internal/workflow`) | the `installations` row against the media row, pending moves, deletions of the hour | keep, follow, move, delete, forget, recover | renames and replacements between searches; crashes between link and unlink |
| catalog events (`internal/catalog`, `internal/store`) | `media`, `events`, webhook inbox, cursor, revision | import, rename, delete, replay, discover, reconcile | late, lost, repeated and reordered events; snapshots older than what was applied |
| webhook connections (`internal/catalog`) | Arr's connections, the remembered ID, the token | match, create, repair, remember, rotate | lost answers, other deployments, an Arr that was reset |
| acquisition (`internal/workflow`) | rejections, strikes, resume list, the installed candidate | search the cache and two tiers, download, time, install, replace, remove | a failure at any step must not reject, skip or remove what is fit |
| notifications (`internal/worker`, `internal/notifier`) | outbox rows with dedupe keys and leases | enqueue, lease, deliver, complete | coalescing into a delivery in flight, repeated deliveries |
| providers (`internal/provider`) | stored pauses, permits, sessions, search cache, refusal ledger | acquire, login, search, download, pause, retry | answers that arrive after a limit; a session that ends under several calls |
| media breaker, route gate (`internal/worker`) | pauses | open, probe, close | results that race the pause |
| daemon (`internal/app`, `internal/worker`, `internal/control`) | slots, the reconcile lock, what is draining | dispatch, reconcile, scan, stop | storage that hangs; work that starts as the daemon stops |
| packs (`internal/pack`) | cache rows and directories | put, find, evict, invalidate | crashes between file system and rows; readers beside evictions |
| cue repair (`subtitleorder`, `pack/repair.go`), schedules (`schedule`) | none | reorder, retime; delay | boundaries |
| matching, selection, watermarks, language checks | none | score, choose | text |
| HTTP and archive handling, LAPSE, configuration, CLI, logging | - | I/O and conversion | - |

They interact through the database, whose transactions SQLite serialises, and
through the filesystem, which nothing serialises. The worker and the manual
searches take leases on the same rows; the installer runs inside both; events
change rows under all of them. Providers and their limits are shared by all searches,
the mount by everything that reads media.

## Modules

| module | models | extended by |
|---|---|---|
| `SearchQueue` | the queue, worker jobs, manual searches, rejects, events | `MCSearchQueue` (runs), `SearchQueueProofs` |
| `Install` | publishing, replacing, removing and recovering one subtitle | `MCInstall` (runs), `InstallProofs` |
| `ManagedSubtitle` | what `Install` promises: file and record change in one step | refined by `Install` |
| `ManualSlots` | the semaphore of manual searches | `MCWaiting` (run), `DaemonProofs` |
| `Notifications` | the outbox, its leases and grouped deliveries | `MCNotifications`, `MCWaiting` (runs), `NotificationsProofs` |
| `MediaTable` | the media and events tables and what one mutation does to them | `CatalogEvents` |
| `CatalogEvents` | inbox, discovery, history and snapshots of one Arr instance | `MCLibrary` (run), `LibraryProofs` |
| `Sidecars` | the record of an installed subtitle following its media file; the removal budget | `MCLibrary` (run), `LibraryProofs` |
| `Acquisition` | one media file and language over any number of searches | `MCAcquisition` (run), `AcquisitionProofs` |
| `Providers` | one provider under concurrent calls, in five client types | `MCProviders` (run), `ProvidersProofs` |
| `Daemon` | dispatch, media breaker, reconcile lock, manual runs and shutdown on failing storage | `MCDaemon` (run), `DaemonProofs` |
| `PackCache`, `WebhookConnections`, `CueRepair`, `Schedules` | one component each | instantiated by `MCUpkeep` (run), which `UpkeepProofs` extends |

A module whose name ends in `Proofs` holds the theorems about the components it extends.
`MCLibrary` and `MCUpkeep` put components that share no state into one run: the
variable `topic` chooses, in the initial state, the component that moves. A property of
a component thus sees exactly its own behaviours.

### SearchQueue

`searches[k]` is the row of a file and language; `job[j]` is what a worker or
manual job holds in memory, `media` the catalog row. One SQL statement or
transaction is one action; everything a job does between two of them interleaves
with the others. Time is abstract: a due time is `"now"` or `"later"`, a lease
is live or expired, `BecomesDue` and `LeaseExpires` let time pass. A lease under
a running job expires only by `ClockJump`, a fault (suspend, clock step, a late
renewal), because the job renews it well before its end. The history variables
`changes`, `answered`, `gap` and `rejected` record which changes asked for a
search and which of them a recorded run had observed; no guard reads them except
to bound them. `gap` marks a change that escaped through one of the two holes
the code leaves (an expired-lease settlement and an in-place replacement under an
expired lease); the properties say exactly what holds outside them.

| code | action |
|---|---|
| `ApplyMediaEvent`, import or rename / delete | `ImportEvent` / `DeleteEvent` |
| `LeaseDueSearchesExcept`, `RenewSearchLease`, `ReleaseSearchLease` | `LeaseDueSearch`, `RenewSearchLease`, `Released` |
| `runSearchLease`: load, refresh, end | `LoadMedia`, `RefreshStale`, `RefreshInventory`, `RefreshReplacedInPlace`, `FinishWorkerJob`, `LoseLease`, `CancelJob`, `AbandonJob` |
| `CompleteSearch` | `CompleteSearch` over `Completed` |
| `prepareSearch` | `ResolveManual`, `ReviveManual`, `UpsertManual` |
| `prepareReject`, `recordReject`, `undoReject` | `PrepareReject`, `RecordReject`, `UndoReject` |
| `runManualSearch`, `runClaimedSearch` | `StartManual`, `ClaimSearch`, `ReadReplace`, `FailManual`, `FinishManual`, `SettlePendingSearch`, `ReleaseManual`, `EnsureUpgradeSearch` |
| startup, `retry-throttled` | `Crash`, `EnsureConfiguredLanguageSearches`, `RetryThrottledSearches` |

Whether a media is supported is Arr's answer, chosen in `ResolveManual` and written by the
revival or by `UpsertManual`.

Left out: attempt counters, queue order (any due row may be leased), provider
resume lists, history rows. Events arrive in the order they happened; how a catalog
event becomes an import or a delete is in `CatalogEvents`.

### Install

One media file and language: one destination, one `installations` row, and for
each run its staged file, rollback copy, set-aside file and `pending_installs`
row. A filesystem call or a database statement is one action. A checksum is the
text it stands for, an inode the run that staged it. Any call may fail
(`FailStaging`, `FailInstall`, `UnknownDestination`, `FailCleanup`), a job may be
abandoned (`Abandon`: its context ends and the run goes on), the process may die
(`Crash`), and the next start sweeps (`RecoverInstall`, `RecoverRemoval`,
`SkipRow`, `StartWorker`).

Four flags choose the environment:

- `HardLinks`: first installs are linked (never over a file) or renamed.
- `Overlap`: a run may begin while an abandoned one is still going on.
- `QuietOwner`: the owner leaves the subtitle alone in the moments between a check
  and the call it guards (`Racing`), and does not touch an unrecorded publication.
- `RemovalLingers`: a removal may end with its pending row left over, because its clean-up
  failed or because a new file is where the subtitle should come back, and the sweep may
  skip such a row.

`InstallIsAtomic` maps the state to what a restart would leave: the text at the
destination once every pending row is settled, and the text of the record. Under
this mapping every step of `Install` is a step of `ManagedSubtitle` or a stutter. The
counter `acts` labels the owner: it is part of the abstract state and grows with every
`ManagedSubtitle!Owner` and with nothing else, so a step of the daemon that erases the
settled text while the record stays has no abstract step to be.

### ManualSlots

`acquire` is split where the mutex is released: queueing, the `select`, leaving
the queue, and passing on a slot that was granted as the context ended.

### Notifications

`rows` is the table, `queue` the order in which unfinished rows fell due, as a relation
(the order `LeaseDueNotifications` hands them out in), `groups` the deliveries of the running
maintenance; there is one maintenance at a time, so a lease is only ever taken over
from a delivery that is gone. A target is what one request covers: the directory Silo
scans or the series Arr rescans. Destinations are external: `Send` chooses whether
the request arrives, and a request that arrives reads everything committed for its
target.

| code | action |
|---|---|
| `enqueueNotification` in the transaction of a change | `Enqueue` over `SameKey`, `TakenOver`, `Absorbed`, `Insert` |
| `LeaseDueNotifications`, `coalesceNotifications` | `LeaseDueNotifications` over `DueBatch`, `Coalesced` |
| `processNotificationGroupContexts` | `Send`, `Answer`, `LeaderLost`, `FollowerLost`, `Released` |
| `completeNotification`, `CompleteNotification` | `CompleteNotification`, `CompletionFails` |
| `pruneNotifications`, drain, restart | `Prune`, `Shutdown`, `Released`, `Start`, `Crash` |

The history variable `unseen` holds the changes a destination was not told of since
they were made. `repeated` marks those of them that were published again, byte for
byte, after the request of an earlier intent with the same key had left and before that
intent was completed: the key is still held, `ON CONFLICT DO NOTHING` drops the
insert, and unless the delivery is retried nothing announces the second publication.
The window is the end of one delivery, and only keys that name the change have it;
the properties are about all other changes.

Left out: attempt counts and the retry delay (a retry is due later), payloads that do
not decode (a group of their own that is given up).

### MediaTable and CatalogEvents

`table` holds the rows, the recorded event ids and, as history, the files whose searches
were opened; `EventApplied` is `ApplyMediaEvent`, `AppliedAll` a transaction that applies
mutations one after the other, in one of the orders by time (`InOrder`): a page of history,
the deletions of a snapshot, a discovery. Arr (`library`, `listed`, `history`), external, changes its library (`ArrImport`, `ArrRename`,
`ArrDeleteFile`, `ArrRemove`), records history and sends webhooks. The inbox and the
reconciler interleave at every request to Arr and every transaction.

| code | action |
|---|---|
| `enqueueWebhook`, the HTTP handler | `Receive` |
| `WebhookInbox` drain: handle, apply, delete, retry | `Handle`, `HandleFails`, `ApplyEvent`, `DeleteWebhook` |
| `DiscoverLibrary` and its commit | `StartRun`, `ListLibrary`, `CommitDiscovery` |
| `ListChanges`, hydration, identity snapshot | `ReadHistory`, `HydrateChanges`, `ListIdentitySnapshot` |
| `CommitReconciliation`, deferred and failed runs | `CommitRun`, `RunFails` |
| mount and process | `MountLost`, `MountBack`, `HookLost`, `Crash` |

`MassDeletion` is above the size of the instance, so that only the withholding of a
whole catalog's disappearance is reached. `CatalogAgrees` has two exceptions, both history
variables. `spared` holds the identities whose deletion the last committed snapshot
withheld. `outdated` marks entities whose last applied webhook carried what Arr had already
replaced: the handler reads the media, a reconciliation commits something newer, the older
answer is applied, and the newer change's webhook is lost. Nothing then repairs the row
until the entity changes again; `CatalogAgrees` is about all others. A webhook that the
table ignores (`Late`) outdates nothing.

### Sidecars

`arr` is the media file on disk, `media` the catalog row that lags behind it, `record`
the `installations` row, `row` the pending move. A file's number is both its inode and
the text it was installed with. A search settles the record (`Begin`, `Reattach`,
`Decide` over `Verdict`) and then drops it, aims it at another name, removes the
subtitle within the hourly budget, or moves it (`BeginMove`, `Link`, `RecordMove`,
`Unlink`, with a failure or a cancellation at each step); a move that cannot be recorded
(`RecordMoveFails`: the directory's sync or the database) is undone as it was made, by
`job.linked`, and leaves its row where that fails; `Restart` recovers the row.
What the code does not promise is excused by the history variable `lost`:

- Arr renames and then replaces the file before a search followed the rename: the
  record names neither place where the sidecar can be;
- Arr carries the sidecar away during a search, before its event is applied: it looks
  deleted, and the record is dropped;
- an unlink fails, and Arr changes the file again before the next start.

### Acquisition

`run` is the search under way: tier, phase, candidates found, the candidate and members
being prepared, what is ready. What the providers offer and what LAPSE makes of each
version is fixed in the initial state (`verdict`); what fails, and when, is not.

| code | action |
|---|---|
| `Service.Run`, tiers, outcomes | `Begin`, `EndTier`, `SecondTier`, `Finish`, `Aborts` |
| `findUnrejectedPack` | `LookInCache` |
| exact and broad search, `cleanEmpty` | `SearchExact`, `SearchBroad` |
| tournament, download | `Download`, `DownloadUseless`, `DownloadUnavailable`, `DownloadFails` |
| `prepareMembers`, LAPSE and its failures | `SkipVersion`, `LapseSolid`, `LapseRejects`, `LapseExits`, `LapseFails`, `MountLost` |
| end of a candidate and of a score tier, install | `EndCandidate`, `EndScoreTier`, `Install`, `InstallRefused`, `InstallFails` |
| `replaceInstalled` | the removal in `Finish` |

Limits: `RemovalJustified` leaves out what a search does not get to (`OutOfReach`):
candidates below the tournament's three, versions beyond `maxEpisodeVersions`, those an
exact one displaced, candidates spared because another of the same score timed clearly
and which are then dropped when the installer refuses that one, and the exact matches of a
provider that failed the exact search (`run.missed`) and answered the broad one. An exact
match that the exact search did find must have been tried and judged. The last exception
contradicts the docs, and the run `exact` shows it. Results that carry the same text are not modelled, nor are the
expiry of cached packs, a mount that flaps within one LAPSE run, and searches with
synchronisation switched off.

### Providers

Times count down; one unit stands for some minutes. A call goes through the search cache
(`Load`), the session (`Login`, under the mutex `mu`), the gate (`Check`, `TakeInstance`,
`TakeShared`), the request (`Answer`) and the client's reading of it (`Reads` over
`OpenSubtitles`, `Titlovi`, `SubDL`, `SubSource`, `Gestdown`). `Persist`, `Transient` and
`Recovered` are the three updates of a stored pause; `Message` is the refusal ledger.
Answers are external; the initial state chooses the client and whether its credentials
are valid. One refresh per call, one request per search (paging is left out), one step
for the reads of the scopes a call depends on, and `Retry` between two updates: in the
code the owner's retry does not take `stateMu`, so one that falls between the read and
the write of `persist` is undone. SubDL's limit messages come with its 2xx, 401, 403
and 429 answers; the code also looks for them in other refusals (`refusal` in `subdl/client.go`),
which here are transient failures. A session ends when the provider says so, not when the
client's own clock says its token has run out.

### Daemon

Searches, the maintenance loop, a control request that scans, the webhook inbox and
`Serve`, on storage that fails (`down`) or does not answer (`hung`).

| code | action |
|---|---|
| `Worker.Run`, `runSearchLease`, `runWorkflow` | `Lease`, `Start`, `Dispatched`, `Abandon`, `JobEnds` |
| `recordSearchResult`, `mediaMountReadable` | `Reads`, `Misses`, `Fails`, `Probe`, `Count`, `PauseEnds` |
| `reconcileDueContexts`, `WithReconcileLock` | `StartMaintenance`, `Reconciled`, `Lock`, `GiveUp` |
| control handlers, scans | `Accept`, `Begin`, `Scanned`, `Probed` |
| `drainDaemon` | `Stops`, `DrainEnds`, `DrainTimesOut`, `DrainAbandons` |
| `Serve` | `Signal`, `ComponentFails`, `HTTPStopped`, `WorkerDone`, `ControlDone`, `ManualDone`, `WebhooksDone` |

The probe of a missing file's storage is modelled by what it looks at: whether the path is in a
configured media root and what the directories from the file's own up to the root list
(`Places`, `Levels` of them). `Shown` is what the storage lets it see: a healthy mount has
the directories above one that is there, but may have emptied the file's own; a failing
one shows anything; a hung one answers nothing. So a file whose directory is left empty, or
whose path is in no root, counts as a failure on healthy storage, as the code and its
tests say; what never counts is a file that alone is gone (`OnlyFileGone`).

What the properties leave out, because the code does:

- a webhook blocked in `MapPath`'s `lstat` on a hung mount makes `Serve` wait at
  `<-webhooksDone` without a limit, although `docs/architecture.md` says that shutdown
  "returns even if a dependency ignores cancellation" (`ServeReturns` is qualified);
- leases that were dispatched but not started when the context ends, and searches whose
  completion is cut off, keep their lease until it expires (`"cut"`);
- a control handler that is still preparing when the control drain ends may start its
  manual run late, and the control server's accept-error path waits for its handlers
  without a limit; neither is modelled;
- a search abandoned on a hung mount resets the breaker's count.

### PackCache, WebhookConnections, CueRepair, Schedules

`PackCache`: every operation holds `Cache.mu` and is split at each file system call and
statement where a crash may fall (`BeginPut`, `Publish`, `PutRow`, `ListVictims`,
`Stage`, `Delete`, `RemoveTombstone`, `Sweep`, `Find`, `Invalidate`, `RemoveInvalid`);
a search reads what it found after the lock is gone (`Read`). Packs have one size and the
limit holds at least one: with a smaller `pack_cache.max_bytes` a `Put` evicts what it
stored, and `PutKeeps` does not hold. A `Put` over an existing directory verifies its
members, not its manifest, so it may go on with one that the next `Find` refuses. A
directory left half deleted by a crash in `invalidateEntry` makes the next `Put` of that
pack fail until another `Put` sweeps, and eviction is not run at startup: `DiskSettled`
speaks of the time after a completed `Put`. Last-used times are the order they induce
(`used`), and `Victims` is the set of rows that go, without the order they go in: each is
deleted by itself, and a crash may fall between any two.

`WebhookConnections`: one sync reads connections and the remembered ID (`Begin`), then
repairs, creates, refuses or records (`Put`, `Post`, `Refused`, `Record`); the daemon
stops anywhere, and starts with another base, token or Arr. Excused: a connection changed
after the sync had read it (Arr has no conditional PUT), another deployment's connection
that got the remembered ID when Arr's database was reset (`late`), and a second connection
after base and token both changed before the first was recorded (`lostTrack`).

`CueRepair`: two pure functions over enumerated inputs, `Repair` (moving raw records) and
`PlanRepairs` (new times), against what astisub reads from the result (`Parsed`,
external). The header of a WebVTT file, which the code keeps in front, is not modelled: files
begin with their first cue. A line of text after a blank line directly before a timing line is taken for
an index, so `NoTextLost` is about lines that follow another line; a mistyped start is
moved to the leading cue's end even when that lies before its own start, so `PlanSane`
requires moves forward only in files where no cue ends before it starts.

`Schedules`: every step is one finished search; minutes are exact, a random unit is 0 or
1. A due search runs on time or late (`Delays`); lateness ages the release. `Milestones` is
about the delays scheduled after searches without result: the waits of throttles and
failures between them, and the lateness of the queue, come on top and have no bound. The
age limit of resume lists is not modelled.

## Runs

| run | instance | checks |
|---|---|---|
| `jobs` | 1 search (its language configured at the start, or only after a restart), 2 worker jobs, 1 manual job, 3 changes, 2 identities, 1 fault | `TypeOK`, `NoLostChange`, `OwnerUpToDate`, `RejectionKept`, `DeletedStaysEnded`, `LeaseProtects` |
| `live` | as `jobs` with 2 changes, `LiveSpec` | `EveryChangeAnswered` |
| `crash` | 3 runs, 2 texts, 3 acts of the owner, 3 faults, no overlap, quiet owner, no removal that leaves its row | `InstallInv`, `OwnerFileKept`, `InstallIsAtomic` |
| `setaside` | 2 runs, a removal that leaves its row, 2 faults; expects a violation | `OwnerFileKept` |
| `waiting` | slots: 5 callers, 2 slots; outbox: 1 subtitle, 1 series, 2 rows, batches of 1 | `SlotsSound`, `NoIdleSlot`, `NoOvertaking`, `WaiterServed`; `EveryChangeNotified` |
| `outbox` | 1 scanned directory with 2 subtitles, 1 series, 3 rows, batches of 2, 2 requests at a time | `OutboxInv`, `OneRequestPerTarget` |
| `library` | catalog: 2 movies, 1 path in scope and 1 outside, 2 changes, 2 attempts, 2 outages; sidecars: 3 paths, 2 changes, 4 files, 1 deletion an hour, 2 faults | `CatalogAgrees`, `FilesSearched`, `NoRegress`; `RecordFollows`, `OwnerKept` |
| `acquisition` | 2 preferred providers and a fallback; a pack of 2 versions, a candidate LAPSE may fail on, an exact one, a fallback with a higher score; 2 candidates a tier, one of them tied with another, 1 version at a time, 1 rejection, 1 fault | `SetAsideRightly`, `RemovalJustified`, `NoDowngrade`, `EventuallyInstalled` |
| `exact` | as `acquisition`; expects a violation | `KeptOnProviderFailure` |
| `providers` | each of 5 clients, 2 calls, 2 results, 2 permits and 1 shared, pauses up to 3, resets now and beyond the bound, 2 troubles | `TypeOK`, `CallsGoOn`, `LimitStands`, `OnlyForCause` |
| `daemon` | 3 searches, or 1 search and 1 scan; 2 slots, threshold 2, pauses of 1 and 2, 2 directory levels, 1 fault of the storage | `ReconcilesApart`, `BreakerSound`, `StopsClean`, `ServeReturns`, `QueueMoves` |
| `upkeep` | cache: 3 packs for 2 places, 2 evidence versions, 2 searches, 2 faults; connections: 2 Arrs, 2 bases, 2 tokens, 3 ids, 4 changes; cues: all files of 2 and 3 cues over small line kinds, times around the 10 and 15 second limits; schedules: 7 searches, on time or a week late, 2 checks, ages unknown and short of 30 days | `CacheSound`; `OneConnection`, `ForeignUntouched`; `RepairSafe`; `OnTime` |

A property may be a conjunction of parts that the module defines one by one, each with
what it says and the code it is about, and each broken by a mutant of its own:

| property | parts |
|---|---|
| `RejectionKept` | `RejectionStaysArmed`: a rejection stays queued until a run that saw it completes; `OwnerKnowsRejection`: no run answers one it did not see |
| `LeaseProtects` | `LiveLeaseNotStolen`: a live lease is its owner's alone; `LossNeedsExpiredLease`: under it no change is settled away |
| `InstallInv` | `TypeOK`; `SettledAgrees`: file and record agree once settled |
| `SlotsSound` | `SlotsConserved`, `OwnersAndWaiters` |
| `OutboxInv` | `TypeOK`; `NoLostNotice`: a change nobody was told of has an intent still to be sent |
| `RecordFollows` | `RecordTrue`, `OneName`, `NoStaleSubtitle`: record, name and text are those of the current media file |
| `SetAsideRightly` | `TypeOK`; `OnlyUnfitRejected`, `RejectedStaysAway`, `ResumeSound`: what later searches leave aside has nothing to offer, what the owner rejected stays away |
| `OnlyForCause` | `NoFalseDisable`: valid credentials are not disabled; `PauseConfirmed`: one odd page pauses nothing |
| `BreakerSound` | `TypeOK`; `PauseEarned`: behind every pause are enough failures with a cause |
| `StopsClean` | `LeasesReturned`, `ManualDrained`: what was under way has ended or hangs on the storage |
| `CacheSound` | `TextAsFound`, `DiskSettled`, `PutKeeps` |
| `RepairSafe` | `SameCues`, `NoTextLost`, `PlanSane` |
| `OnTime` | `NotTooSoon`, `Milestones`, `ChecksGoOn`, `RecoveryInTime` |

Why the bounds suffice: two workers and a manual job are enough for an owner, the
job that takes its row over and a bystander; three changes let one arrive before,
during and after a run; one fault is a crash, a jump or a cancellation at every
point of every run. In `Install` three runs are an interrupted one, its successor
and a run over what both left; three acts let the owner edit, replace and delete around
one removal; three faults are a failure, a failure of its undo and
a crash. In `Notifications` only rows are
bounded: changes, faults and retries go on for ever; three rows are an intent in
flight, the one that took its key over and one of another target. In `CatalogEvents` two
changes of one entity are enough for an event to be overtaken by the next, and the
second entity for a transaction that covers both; two outages are a lost webhook and a
restart. In `Sidecars` two changes are a rename and a replacement around one search; the
instance with three changes passes too, in about twice the time.
`Acquisition` tries two candidates, of which two have the same score, and one version at
a time, so that a pack always needs a second search. In `Providers` the bound of a pause is below one of the resets, and the
shared permit is the scarce one. The daemon's threshold is two so that a success can fall
between two failures, its two directory levels let a file's directory go with the file or
stay behind empty, and two blocked searches hold every slot while a third is due. A scan
runs beside one search only, because what it shares with searches is the shutdown, which
waits for the worker first: one blocked search is enough to hold it. Searches that are out of
an instance carry a lease of a process that died. Symmetry is over ids no action orders
(jobs, languages, runs, texts, subtitles, movies, paths, calls, results, packs, searches), except in
runs whose liveness it would disturb. Deadlock is not checked in the modules
whose counters run out or whose program stops; `ManualSlots` and `Notifications` are
checked for it.

Two runs expect a violation: each states what a comment and a document say and shows where
the code does otherwise. In `setaside` an owner's edit that a removal moved aside and
could not return is deleted at a later start. In `exact` a provider fails the exact search
and answers the broad one; `acquire` reports only the errors of the latter
(`service.go:622`), and the rejected subtitle is removed, although `docs/commands.md` says
that it stays if "any provider failed" and the comment in `replaceInstalled` that a failed
provider keeps it, because "the search did not see every candidate".

Four further divergences can be reproduced with definitions that are in the modules but
in no run:

- `SettlementKeepsChange` (`SearchQueue`, the instance of `jobs`): a manual run whose
  lease expired settles a search that a change asked to run again, although the comment
  above `SettlePendingSearch` excepts that case.
- `RevivalSchedules` (`SearchQueue`, the instance of `jobs`): a delete between
  `MediaActive` and `UpsertMedia` is undone, and no language is scheduled, although the
  comment in `prepareSearch` says a tombstone enters through the mutation that schedules
  every language.
- `NoLitter` (`Install`, one run and a crash): hidden files exist before the pending row
  that lists them, although `docs/troubleshooting.md` says the database records each.
- `RecordedHasFile` (`Install`, `Overlap = TRUE`, two runs): rows are settled in id order,
  and a removal's row settled before an unrecorded install's leaves a record without its
  file, although a comment in `pending_install.go` says the subtitle is given back.

`RecordedHasFile` needs a run that was abandoned while a filesystem call blocked it.
Under `Overlap` also `SettledAgrees`, `OwnerFileKept` and `InstallIsAtomic` fail:
an abandoned run's rename follows its check as a step of its own, and a newer run
may have recorded in between. With `QuietOwner = FALSE`, `OwnerFileKept` fails
in the same way for an edit between the last check and the rename that publishes.
What `crash` shows is therefore what the installer guarantees when runs for one
subtitle do not overlap, which the lease ensures for jobs that end within their
time limit, when the owner does not write in those moments, and when every removal
settles its row; `InstallProofs` proves it for any number of runs, acts and faults.

## Fairness

`SearchQueue!Fairness`: leases without a running owner expire (time passes); a
search that is due again and again is eventually leased (strong fairness: the
worker polls all due rows, and other rows cannot starve it for ever because each
is run and rescheduled); a worker job ends (every run has a time limit and is
abandoned after a grace period); a manual run that has its lease ends. Manual
claims are not fair: the owner may cancel. Completions are not assumed to succeed
first: a job may be cancelled or lose its lease as often as `MaxFaults` allows.

`ManualSlots!SlotsFairness`: a caller that holds a slot finishes, and a granted or
cancelled caller takes its next step.

`Notifications!Fairness`: time passes; maintenance, which also starts with the
process, leases what is due again and again; deliveries end. Strong fairness stands
for a world that is not broken for ever: a destination that is asked again and again
receives some request, and some request is answered and some completion recorded
before the process dies or the lease is lost. Without it a row at the head of the
queue could be retried for ever and, with a batch of one, keep the others waiting.

`Acquisition!Fairness`: a search that can go on does, and the queue starts the next one
(`EveryChangeAnswered` and `OnTime` are about that); the mount returns, and the reset of a
paused provider passes. Faults are bounded by `MaxFaults`, not excluded.

`Daemon!Fairness`: timers fire, code that is not blocked goes on, and a search or a
reconciliation that is not blocked ends. A search blocked on the storage need not notice
anything, not even that the storage is back: only its time limit ends it. Nothing makes the
storage come back or anyone stop the daemon, and a search's time limit counts only while
the worker runs: a shutdown does not wait for it.

## Proofs

The proofs hold for every value of the constants that satisfies the named assumptions of
the module, which TLC evaluates in every run: any number of files, jobs, calls, packs or
runs, and any bound on faults. Each rests on an inductive invariant, checked with TLC on
the instance of the run before it was proved where TLC can evaluate it (`Account` quantifies
over all times), and has one lemma for each action.

| theorem | property | of |
|---|---|---|
| `TypeCorrect`, `ChangesKept`, `OwnersUpToDate`, `RejectionsKept`, `DeletedEnds`, `LeasesProtect` | `TypeOK`, `NoLostChange`, `OwnerUpToDate`, `RejectionKept`, `DeletedStaysEnded`, `LeaseProtects` | `SearchQueue` |
| `EveryChangeOwed`, `RequestsApart` | `OutboxInv`, `OneRequestPerTarget` | `Notifications` |
| `CatalogFollowsArr`, `EveryFileSearched`, `NeverTakenBack` | `CatalogAgrees`, `FilesSearched`, `NoRegress` | `CatalogEvents`, `MediaTable` |
| `SlotsKept`, `NoSlotIdles`, `FirstComeFirstServed` | `SlotsSound`, `NoIdleSlot`, `NoOvertaking` | `ManualSlots` |
| `InstallTyped`, `FileAndRecordAgree`, `OwnersFileKept`, `InstallImplementsManaged` | the types; `InstallInv`, `OwnerFileKept`, `InstallIsAtomic` | `Install` |
| `SidecarsTyped`, `OwnersFilesKept`, `RecordsFollow` | the types; `OwnerKept`, `RecordFollows` | `Sidecars` |
| `SetAsideRight`, `NeverDowngraded`, `RemovalsJustified` | `SetAsideRightly`, `NoDowngrade`, `RemovalJustified` | `Acquisition` |
| `ProvidersTyped`, `NoAnswerLiftsALimit`, `PutAsideForCause`, `SomeCallGoesOn` | `TypeOK`, `LimitStands`, `OnlyForCause`, `NoCallStuck` (a part of `CallsGoOn`) | `Providers` |
| `BreakerStaysSound`, `ReconcilesStayApart`, `DaemonStopsClean` | `BreakerSound`, `ReconcilesApart`, `StopsClean` | `Daemon` |
| `CacheStaysSound`, `OneConnectionEver`, `ForeignLeftAlone`, `SchedulesOnTime`, `PlansStaySane` | `CacheSound`, `OneConnection`, `ForeignUntouched`, `OnTime`, `PlanSane` (a part of `RepairSafe`) | `PackCache`, `WebhookConnections`, `Schedules`, `CueRepair` |

`SearchQueueProofs`. `ChangeInv` is the conjunction of `TypeOK`, `NoLostChange` and
`OwnerUpToDate`. `NoLostChange` alone is not inductive: a completion replaces the row's
schedule, and only `OwnerUpToDate` (the owner that was not asked to rerun has observed
every change) shows that nothing unanswered is replaced. That in turn needs that every
change either finds no owner or sets `rerun_requested`. `RejectInv` adds that an
unanswered rejection is armed and queued (`Armed`) and that an owner who may answer it
knows of it (`Knows`). `DeletedEnds` needs only the
types. `LeasesProtect` needs that a search without a row has no owner (`Unowned`)
and, for settlements, both invariants: the owner that may settle has seen every change.

`NotificationsProofs`. `DeliveryInv` adds to `OutboxInv` what ties the deliveries to the
table: finished rows have let go of key and lease and a key is held once (`TableSound`),
leased rows are in the due order (`OrderSound`), the members of a delivery are leased rows
of its target and no two deliveries have the same target (`GroupsSound`). `NoLostNotice`
says that a change nobody was told of has a pending row that `Owes` it: one that no delivery
took up yet, or whose delivery has not left, or left before the change was made again, or
will be retried. A final answer settles exactly what its request covered; that a change made
again after the request left is not covered (`MadeAgain`) is what the proof turns on.

`InstallProofs`. The types hold for every setting of the flags. The other three results
assume `Orderly` (no overlap, a quiet owner, no removal that leaves its row), the
environment of the run `crash`: outside it they are false, as the end of "Runs" says. `Inv`
says of the store that an unrecorded publication can be undone to what the record says
(`UndoReady`), that what is aside can be put back or went with its record (`AsideReady`),
and that otherwise file and record agree (`Agree`); of each run what its phase
guarantees about its row, what it read and prepared, and what is at the destination
(`RowKept`, `Knows`, `Sees`, `Takes`); and that a rollback copy which a record names
belongs to a settled run (`CopiesHeld`), so that deleting it never takes the copy an undo
needs. The refinement rests on `SettledCases`: what a restart leaves is the recorded text
under an unrecorded replacement, nothing under an unrecorded first install, otherwise the
file, and otherwise what is aside. `RecordInstallation` is then `Managed!Install`,
`CommitRemoval` is `Managed!Remove`, an owner's act is `Managed!Owner` (and nothing else
can be: it counts in `acts`), publishing (or
taking back) a first install whose text a lost record already has is `Managed!Reinstate`,
and every other step stutters.

The attempt found that the environment of `crash` was not what its description said:
`RemovalLingers = FALSE` did not cover the removal that finds a new file when it wants to
put the owner's back (`restoreRemoved` never links over one) and so ends with its row. With
three acts of the owner (edit, write, delete) and a later install this loses the owner's
edit at the next start, the divergence that `setaside` shows. `RestoreRemoved` now ends that
way only with `RemovalLingers`, and the run has three acts of the owner instead of two.

`LibraryProofs`, sidecars. `FollowInv`: a search at each step knows the record it settles, every
file has a number of its own, a pending row describes the move under way, and a name that holds an
unedited subtitle is tracked by the record, by the row, or by the search that found it.

`LibraryProofs`, catalog. A transaction folds any number of mutations over the table, so
what it does to a row needs induction. The library's induction theorems take an operator,
which the provers cannot instantiate, but the existence of a least element (`WFMin`) takes a
set: `NatSet` derives induction for a set of numbers from it, `AfterExists` that the
recursive function in `AppliedAll` is defined, and the lemmas about transactions
(`Transaction`, `PageRows`, `GoneRows`) say that the set of prefixes they hold for is `Nat`.
`PageRows`: a page with one mutation per entity changes each row as that one mutation would.
`GoneRows`: a set of deletions of whole entities leaves every other row alone and no
active row of theirs, unless it had been applied before.

`CatalogInv` has what `FilesSearched` and `NoRegress` need: the shapes of the state, that
file ids grow with Arr's changes, that a row's file was once Arr's, and that what a run
read is current as long as the revision has not moved (`Timely`, `Current`). The step to
`CatalogAgrees` is an account of everything that may still arrive (`Account`): webhooks
that delete name what is gone for good; a deletion in the table is not later than Arr's
last record of the entity, unless the file or identity is gone (`RowAccount`), so that no
import of what Arr holds is refused as late; every entity whose last record is not after
the cursor had that record applied (`CursorAccount`); a running page holds the last record
of every entity since the cursor and the right content for it, or Arr changed it again and
a later page will say so (`LatestAccount`, `ChangeAccount`); what a discovery adds is
right or will be corrected (`ListedAccount`); a snapshot misses only removed identities
(`CommitAccount`); and each file belongs to one entity (`Owners`), so that the deletion of
a file does not reach another entity's row. `Agreement` then says that the table is right
about every entity whose last record was applied, which at `cursor = now` is all of them.

The attempt found that `CatalogAgrees` was not true as first stated: it excused a catalog
of which everything was gone by looking at the current table, which an event applied after
the withholding commit changes, and it marked an entity as outdated although the table had
ignored the webhook. Both show only beyond the bounds of the run. The exceptions are now
`spared`, what the last commit withheld, and `outdated` without ignored webhooks; the
property claims more than before in every other state.

`AcquisitionProofs`. `AcquisitionInv`: what is stored is right (`StoreInv`), and the run
under way took, prepared and set aside only what its phase allows (`RunInv`). For
`RemovalsJustified`, `ExactCovers` and `BroadCovers` say that what either search found is
being worked on, ready, or tried and judged, and `NoFailure` that a removal comes only when
no broad search, download or tool failed; what is left over was missed by a failed exact
search. The attempt
showed that `OutOfReach` lacked a case: candidates that are spared because one of the same
score timed clearly, and are dropped with it when the installer refuses that one.

`ProvidersProofs`. `ProvidersInv`: the permits taken are the calls that hold them, rows are
proper pauses, a call's memory of the session is sound (`Sound`, `Unharmed`), and an
unconfirmed refusal is remembered with its result. Counting permits uses
`FiniteSetTheorems`. That no set of calls waits for itself needs who holds what
(`HoldersInv`): the session mutex is held by a call whose login is at the gate or beyond,
the shared fetch by a search there. Such a call waits for permits only, a call that waits
for the instance's permit only for calls that hold it, those only for the origin's, and who
holds that one is owed an answer. `NoCallStuck` states it with the guards of the steps
(`Able`); that a call that is `Able` has its step enabled is left to TLC.

`DaemonProofs`. `DaemonInv`: the lock is held by exactly the work that runs under it
(`LockHeld`), failures with a cause earn the pauses (`Earned`; a file that alone is gone is
readable to the probe at every depth), and the stages of the shutdown follow
each other with the work they wait for (`Ordered`). For `ManualSlots`, `SlotInv`: types,
conservation of slots, agreement of owners and waiters with program counters, no idle slot.

`UpkeepProofs` extends `MCUpkeep`, whose specification moves one component at a time, so
each invariant is proved for the steps of its own component and is untouched by the
others. `PackInv`: rows, directories and the operation under the lock agree, and a
completed `Put` leaves them settled. `HookInv`: what a sync read is still true of what it
writes, up to the excused cases. `SchedInv`: what the counters imply about the next search.
`PlansStaySane` is about lists of any length: by induction over the first pass
(`PassSound`), a start it gives is the cue's own or leaves the cue its reading time (`Fit`),
and the first later start, which the second pass looks for, exists (`FirstAfter`).

Only model-checked:

- the liveness properties, and the half of `CallsGoOn` that says an `Able` call's step is
  enabled: fairness and ENABLED are out of the prover's reach;
- `SameCues` and `NoTextLost` of `RepairSafe`: they parse what a rewriting of filtered and
  flattened sequences of lines wrote, and are checked over all small files.

## Not modelled

- Provider requests, paging and the parsing of results; archives and the choice of their
  members by name; matching, watermarks and language checks: conversions and text
  analysis over strings, whose results reach the models as given scores, kinds of answers
  or nondeterministic outcomes.
- LAPSE itself and the cache of its answers; HTTP and the control protocol's encoding;
  configuration, command line, logging; SQLite and its migrations.
- In the catalog: conflicting identities, the recheck of old multi-episode files, the
  pruning of events to 10000, skew between Arr's clock and the daemon's, forget-instance.
- In the worker: the times at which an instance is due for reconciliation, and the route
  gate, which keeps searches back while every provider of their route is paused.
- Hazards with no property, because the code accepts them: an owner's edit between the
  installer's last check and its rename; an abandoned run's rename that follows its
  successor's; a subtitle published again byte for byte while its earlier notice ends; a
  provider retry that meets an update of the same row; a webhook that blocks on a hung
  mount. The sections above say what is checked around each.

## Plan

Done: the modules above, in the order queue, slots, installer, outbox, catalog and sidecars,
acquisition, providers, daemon, and the four of `upkeep`; the proofs listed above. Next:

1. The route gate beside the breaker.
2. `CueRepair`: the rewriting of a file block by block, with the induction the proofs of
   `PlanSane` and of the catalog use, so that all of `RepairSafe` holds for files of any length.
3. In the catalog, the pruning of events to 10000 and clocks that disagree.
