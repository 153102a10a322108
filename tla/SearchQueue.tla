---------------------------- MODULE SearchQueue ----------------------------
(***************************************************************************)
(* The durable search queue of subsyncd: one search_states row for each    *)
(* media file and language, the leases that worker jobs and manual         *)
(* searches take on it, and the Arr events and owner rejections that       *)
(* reschedule it while a job is running.                                   *)
(*                                                                         *)
(* Every SQL statement or transaction of internal/store that changes the   *)
(* table is one atomic action (SQLite serialises them); everything a job   *)
(* does between two of them is interleaved with the other actors.  Wall    *)
(* clock time is abstract: a due time is "now" or "later", a lease is live *)
(* or expired, and BecomesDue and LeaseExpires let time pass.  A lease may *)
(* expire under a running job, because RenewSearchLease runs on a timer    *)
(* while leases are compared with the wall clock (ClockJump).              *)
(*                                                                         *)
(* Left out, because no property here tells them apart: attempt counters   *)
(* and queue positions, provider resume lists, history rows.  A lease      *)
(* takes any due row: the ORDER BY of the lease query is not modelled.     *)
(***************************************************************************)
EXTENDS Integers, FiniteSets

CONSTANTS
    Media,          \* catalog rows
    Languages,      \* target languages
    WorkerJobs,     \* job ids the worker's leases draw from
    ManualJobs,     \* job ids of manual searches and rejects
    NoJob,          \* an empty lease_owner
    NoKey,          \* the search of an idle job
    MaxChanges,     \* bound: counted changes for each search
    MaxIdent,       \* bound: file identities of one media row
    MaxFaults       \* bound: crashes, clock jumps, cancellations, failed writes

Jobs == WorkerJobs \cup ManualJobs

Keys == Media \X Languages

ASSUME JobsAssumption == NoJob \notin Jobs /\ WorkerJobs \cap ManualJobs = {}

ASSUME KeyAssumption == NoKey \notin Keys

ASSUME BoundAssumption ==
    MaxChanges \in Nat /\ MaxIdent \in Nat /\ MaxFaults \in Nat

VARIABLES
    media,          \* media: deleted, unsupported_reason, file identity
    searches,       \* search_states
    job,            \* what each worker or manual job holds in memory
    configured,     \* the languages of the configuration in force
    faults,         \* faults so far
    \* history variables, read by no guard:
    changes,        \* changes that asked for a search, for each key
    answered,       \* the change the last recorded run had observed
    gap,            \* how a change escaped the fences, "none" otherwise
    rejected        \* an owner rejection no run has dealt with yet

vars == <<media, searches, job, configured, faults,
          changes, answered, gap, rejected>>

history == <<changes, answered, gap, rejected>>

-----------------------------------------------------------------------------
(* Rows and jobs *)

\* search priorities: a larger class is leased first
Upgrade == 1
Missing == 2
Import == 3

RowType ==
    [state   : {"absent", "pending", "complete"},
     due     : {"now", "later", "none"},
     class   : {Upgrade, Missing, Import},
     outcome : {"", "throttled", "deleted", "ended"},
     owner   : Jobs \cup {NoJob},
     live    : BOOLEAN,
     rerun   : BOOLEAN,
     replace : BOOLEAN]

NoRow ==
    [state |-> "absent", due |-> "none", class |-> Upgrade, outcome |-> "",
     owner |-> NoJob, live |-> FALSE, rerun |-> FALSE, replace |-> FALSE]

Phases == {"idle", "leased", "loaded", "searching", "failed", "unsupported",
           "resolving", "upserting", "rejecting", "queued", "claiming", "claimed",
           "releasing", "upgrading"}

\* phases in which a job runs under the lease it took
RunPhases == {"leased", "claimed", "loaded", "searching", "failed", "unsupported"}

JobType ==
    [phase   : Phases,
     key     : Keys \cup {NoKey},
     ident   : 0..MaxIdent,
     seen    : 0..MaxChanges,
     replace : BOOLEAN,
     revived : BOOLEAN,
     unsupported : BOOLEAN]     \* what Arr answered a manual search

IdleJob ==
    [phase |-> "idle", key |-> NoKey, ident |-> 0, seen |-> 0,
     replace |-> FALSE, revived |-> FALSE, unsupported |-> FALSE]

Larger(a, b) == IF a >= b THEN a ELSE b

Active(m) == ~media[m].deleted

Held(row) == row.owner # NoJob /\ row.live

\* A change that no recorded run has observed.
Unanswered(k) == answered[k] < changes[k] /\ gap[k] = "none"

\* A job id is random: it is in use while its job runs or a row names it.
Fresh(j) == job[j] = IdleJob /\ \A k \in Keys : searches[k].owner # j

\* A search_states row without a lease.
Unleased(row) == [row EXCEPT !.owner = NoJob, !.live = FALSE, !.rerun = FALSE]

\* Faulty variant: only a live owner is asked to run again.
ScheduledForLiveOwner(row, class) ==
    [row EXCEPT !.state = "pending", !.due = "now", !.outcome = "",
                !.class = Larger(@, class), !.rerun = Held(row)]

\* The row as scheduleMediaSearchTx leaves it for supported media.  The lease
\* stays with its owner, which must run again whether or not it has expired.
Scheduled(row, class) ==
    [row EXCEPT !.state = "pending", !.due = "now", !.outcome = "",
                !.class = Larger(@, class), !.rerun = row.owner # NoJob]

\* The row scheduleMediaSearchTx leaves for media it cannot search for.
Unsupported(row, class) ==
    IF row.owner = NoJob
    THEN [row EXCEPT !.state = "complete", !.due = "none", !.outcome = "ended",
                     !.class = Larger(@, class), !.rerun = FALSE]
    ELSE Scheduled(row, class)

\* What a finished run reports: a satisfied or installed search without and
\* with a next upgrade, a missing one, a throttled one, a technical failure
\* and unsupported media.  Class 0 keeps the row's class.
Completion(result) ==
    CASE result = "done"        -> [state |-> "complete", due |-> "none",  class |-> 0]
      [] result = "upgrade"     -> [state |-> "pending",  due |-> "later", class |-> Upgrade]
      [] result = "missing"     -> [state |-> "pending",  due |-> "later", class |-> Missing]
      [] result = "throttled"   -> [state |-> "pending",  due |-> "later", class |-> 0]
      [] result = "failed"      -> [state |-> "pending",  due |-> "later", class |-> 0]
      [] result = "unsupported" -> [state |-> "complete", due |-> "none",  class |-> 0]

\* Three ways to end a lease: the file is gone, the search must run again on
\* the schedule it has, or the run's own completion applies.
EndedByDelete(row) ==
    [Unleased(row) EXCEPT !.state = "complete", !.due = "none",
                          !.outcome = "deleted", !.replace = FALSE]

RerunDue(row) == [Unleased(row) EXCEPT !.state = "pending", !.outcome = ""]

\* Faulty variant: an unset priority overwrites the row's.
ReportedWithoutClass(row, result, clear) ==
    LET c == Completion(result) IN
    [Unleased(row) EXCEPT !.state = c.state, !.due = c.due, !.class = c.class]

\* Faulty variant: every completion disarms a replacement.
ReportedDisarming(row, result, clear) ==
    LET c == Completion(result) IN
    [Unleased(row) EXCEPT !.state = c.state, !.due = c.due, !.replace = FALSE]

Reported(row, result, clear) ==
    LET c == Completion(result) IN
    [Unleased(row) EXCEPT
        !.state = c.state, !.due = c.due,
        !.class = IF c.class = 0 THEN @ ELSE c.class,
        !.outcome = IF result = "throttled" THEN "throttled" ELSE "ended",
        !.replace = @ /\ ~clear]

\* Faulty variants of Completed: the run's report wins over a requested rerun,
\* or a run that outlives its file reschedules it.
CompletedIgnoringRerun(row, deleted, result, clear) ==
    IF deleted THEN EndedByDelete(row) ELSE Reported(row, result, clear)

CompletedAfterDelete(row, deleted, result, clear) ==
    IF row.rerun THEN RerunDue(row) ELSE Reported(row, result, clear)

\* CompleteSearch on the row that its owner still holds.
Completed(row, deleted, result, clear) ==
    IF deleted THEN EndedByDelete(row)
    ELSE IF row.rerun THEN RerunDue(row)
    ELSE Reported(row, result, clear)

-----------------------------------------------------------------------------
(* Initial state: an empty database.  Of the languages modelled some may   *)
(* not be configured yet.                                                   *)

Init ==
    /\ media = [m \in Media |-> [deleted |-> TRUE, unsupported |-> FALSE, ident |-> 0]]
    /\ searches = [k \in Keys |-> NoRow]
    /\ job = [j \in Jobs |-> IdleJob]
    /\ configured \in SUBSET Languages
    /\ faults = 0
    /\ changes = [k \in Keys |-> 0]
    /\ answered = [k \in Keys |-> 0]
    /\ gap = [k \in Keys |-> "none"]
    /\ rejected = [k \in Keys |-> FALSE]

-----------------------------------------------------------------------------
(* Arr events *)

\* The searches an import or rename of m schedules: every configured language.
KeysOf(m) == {k \in Keys : k[1] = m /\ k[2] \in configured}

\* An import or rename applied by applyMediaMutationTx: the media row takes
\* the hydrated identity and every configured language is scheduled.
ImportMutation(m, ident, unsupported, class) ==
    LET Row(k) == IF unsupported THEN Unsupported(searches[k], class)
                                 ELSE Scheduled(searches[k], class)
    IN
    /\ \A k \in KeysOf(m) : changes[k] < MaxChanges
    /\ media' = [media EXCEPT ![m] = [deleted |-> FALSE, unsupported |-> unsupported,
                                      ident |-> ident]]
    /\ searches' = [k \in Keys |-> IF k \in KeysOf(m) THEN Row(k) ELSE searches[k]]
    /\ changes' = [k \in Keys |-> IF k \in KeysOf(m) THEN changes[k] + 1 ELSE changes[k]]
    /\ answered' = [k \in Keys |->
            IF k \in KeysOf(m) /\ Row(k).state = "complete" THEN changes[k] + 1
                                                            ELSE answered[k]]
    /\ gap' = [k \in Keys |-> IF k \in KeysOf(m) THEN "none" ELSE gap[k]]
    /\ rejected' = [k \in Keys |->
            rejected[k] /\ ~(k \in KeysOf(m) /\ Row(k).state = "complete")]

\* Sonarr or Radarr reports an import, an upgrade or a rename of m.
ImportEvent(m) ==
    \E ident \in {media[m].ident, media[m].ident + 1} \cap 0..MaxIdent,
       unsupported \in BOOLEAN :
        /\ ImportMutation(m, ident, unsupported, Import)
        /\ UNCHANGED <<job, configured, faults>>

\* Sonarr or Radarr reports that m was deleted: its searches end, and a job
\* that holds one keeps its lease until it completes.
DeleteEvent(m) ==
    /\ media' = [media EXCEPT ![m].deleted = TRUE]
    /\ searches' = [k \in Keys |->
            IF k[1] = m /\ searches[k].state # "absent"
            THEN [searches[k] EXCEPT !.state = "complete", !.due = "none",
                                     !.outcome = "deleted", !.rerun = FALSE]
            ELSE searches[k]]
    /\ answered' = [k \in Keys |-> IF k[1] = m THEN changes[k] ELSE answered[k]]
    /\ gap' = [k \in Keys |-> IF k[1] = m THEN "none" ELSE gap[k]]
    /\ rejected' = [k \in Keys |-> rejected[k] /\ k[1] # m]
    /\ UNCHANGED <<job, configured, faults, changes>>

-----------------------------------------------------------------------------
(* Time and startup *)

BecomesDue(k) ==
    /\ searches[k].due = "later"
    /\ searches' = [searches EXCEPT ![k].due = "now"]
    /\ UNCHANGED <<media, job, configured, faults, history>>

\* The lease's owner is running and keeps renewing the lease.
Renewing(k) ==
    LET j == searches[k].owner IN
    j # NoJob /\ job[j].key = k /\ job[j].phase \in RunPhases \cup {"releasing"}

LeaseExpires(k) ==
    /\ searches[k].live /\ ~Renewing(k)
    /\ searches' = [searches EXCEPT ![k].live = FALSE]
    /\ UNCHANGED <<media, job, configured, faults, history>>

\* The lease of a running job expires before its next renewal: the host was
\* suspended, the clock was set forward, or the renewal is late.
ClockJump(k) ==
    /\ faults < MaxFaults
    /\ searches[k].live /\ Renewing(k)
    /\ faults' = faults + 1
    /\ searches' = [searches EXCEPT ![k].live = FALSE]
    /\ UNCHANGED <<media, job, configured, history>>

\* retry-throttled: the owner asks for every throttled search again now.
RetryThrottledSearches ==
    LET Retried(k) == /\ searches[k].outcome = "throttled"
                      /\ ~Held(searches[k])
                      /\ searches[k].state = "complete" \/ searches[k].due = "later"
                      /\ k[2] \in configured
                      /\ Active(k[1])
    IN
    /\ \E k \in Keys : Retried(k)
    /\ searches' = [k \in Keys |->
            IF Retried(k) THEN [searches[k] EXCEPT !.state = "pending", !.due = "now"]
                          ELSE searches[k]]
    /\ UNCHANGED <<media, job, configured, faults, history>>

\* The process dies: every job is gone, every lease stays in the table.  The
\* next process may read a configuration with more languages.
Crash ==
    /\ faults < MaxFaults
    /\ faults' = faults + 1
    /\ job' = [j \in Jobs |-> IdleJob]
    /\ configured' \in {ls \in SUBSET Languages : configured \subseteq ls}
    /\ UNCHANGED <<media, searches, history>>

\* Faulty variant: the backfill overwrites the rows it finds.
BackfilledAnyRow(k) == Active(k[1]) /\ k[2] \in configured

\* The searches the backfill inserts: ON CONFLICT DO NOTHING.
Backfilled(k) == searches[k].state = "absent" /\ Active(k[1]) /\ k[2] \in configured

\* Startup queues a search for every active file that has no row yet.
EnsureConfiguredLanguageSearches ==
    /\ \E k \in Keys : Backfilled(k)
    /\ searches' = [k \in Keys |->
            IF ~Backfilled(k) THEN searches[k]
            ELSE IF media[k[1]].unsupported
                 THEN [NoRow EXCEPT !.state = "complete", !.class = Missing, !.outcome = "ended"]
                 ELSE [NoRow EXCEPT !.state = "pending", !.due = "now", !.class = Missing]]
    /\ UNCHANGED <<media, job, configured, faults, history>>

-----------------------------------------------------------------------------
(* Leases *)

\* Faulty variant: only a row without any owner is leased.
LeasableOnlyUnowned(row) == row.state = "pending" /\ row.due = "now" /\ row.owner = NoJob

\* The lease query's condition on a row.
Leasable(row) == row.state = "pending" /\ row.due = "now" /\ ~Held(row)

\* The worker's dispatch leases a due search of active media.  An expired
\* lease counts as none; the new job reads current state, so a rerun its dead
\* owner left requested is dropped.
LeaseDueSearch(j, k) ==
    LET row == searches[k] IN
    /\ j \in WorkerJobs /\ Fresh(j)
    /\ Active(k[1]) /\ k[2] \in configured
    /\ Leasable(row)
    /\ searches' = [searches EXCEPT ![k].owner = j, ![k].live = TRUE, ![k].rerun = FALSE]
    /\ job' = [job EXCEPT ![j] = [IdleJob EXCEPT !.phase = "leased", !.key = k,
                                                 !.seen = changes[k], !.replace = row.replace]]
    /\ UNCHANGED <<media, configured, faults, history>>

\* A renewal tick of a job that still owns its row, expired or not.
RenewSearchLease(j) ==
    LET k == job[j].key IN
    /\ job[j].phase \in RunPhases \ {"claimed"}
    /\ searches[k].owner = j /\ ~searches[k].live
    /\ searches' = [searches EXCEPT ![k].live = TRUE]
    /\ UNCHANGED <<media, job, configured, faults, history>>

\* A renewal tick that finds another owner: the job ends, recording nothing.
LoseLease(j) ==
    /\ job[j].phase \in RunPhases \ {"claimed"}
    /\ searches[job[j].key].owner # j
    /\ job' = [job EXCEPT ![j] = IdleJob]
    /\ UNCHANGED <<media, searches, configured, faults, history>>

\* ReleaseSearchLease: the row keeps its schedule.
Released(k, j) ==
    [searches EXCEPT ![k] = IF @.owner = j THEN Unleased(@) ELSE @]

\* Shutdown cancels the job, which gives its lease back.
CancelJob(j) ==
    /\ faults < MaxFaults
    /\ job[j].phase \notin {"idle", "resolving", "upserting", "rejecting"}
    /\ faults' = faults + 1
    /\ searches' = Released(job[j].key, j)
    /\ job' = [job EXCEPT ![j] = IdleJob]
    /\ UNCHANGED <<media, configured, history>>

\* A write of the job fails (its renewal, completion or release): it ends
\* and its lease stays until it expires.
AbandonJob(j) ==
    /\ faults < MaxFaults
    /\ job[j].phase \notin {"idle", "resolving", "upserting", "rejecting"}
    /\ faults' = faults + 1
    /\ job' = [job EXCEPT ![j] = IdleJob]
    /\ UNCHANGED <<media, searches, configured, history>>

\* CompleteSearch of job j, which ends; a job that no longer owns the row
\* changes nothing.
CompleteSearch(j, result, clear) ==
    LET k == job[j].key
        row == searches[k]
        deleted == media[k[1]].deleted
        applies == row.owner = j /\ ~deleted /\ ~row.rerun
    IN
    /\ searches' = [searches EXCEPT ![k] =
            IF row.owner = j THEN Completed(row, deleted, result, clear) ELSE row]
    /\ answered' = [answered EXCEPT ![k] = IF row.owner = j /\ deleted THEN changes[k]
                                           ELSE IF applies THEN Larger(@, job[j].seen)
                                           ELSE @]
    /\ rejected' = [rejected EXCEPT ![k] =
            @ /\ ~(row.owner = j /\ deleted) /\ ~(applies /\ (clear \/ result = "unsupported"))]
    /\ job' = [job EXCEPT ![j] = IdleJob]
    /\ UNCHANGED <<media, configured, faults, changes, gap>>

-----------------------------------------------------------------------------
(* The run a worker job and a manual search share *)

\* GetMedia, after the worker leased the search.
LoadMedia(j) ==
    LET m == media[job[j].key[1]] IN
    /\ job[j].phase = "leased"
    /\ job' = [job EXCEPT ![j].phase = IF m.unsupported THEN "unsupported" ELSE "loaded",
                          ![j].ident = m.ident]
    /\ UNCHANGED <<media, searches, configured, faults, history>>

\* Refresh of the inventory: the workflow observes the file.  A run whose
\* media was deleted or replaced meanwhile fails here.
RefreshStale(j) ==
    LET m == media[job[j].key[1]] IN
    /\ job[j].phase = "loaded"
    /\ m.deleted \/ m.ident # job[j].ident
    /\ job' = [job EXCEPT ![j].phase = "failed"]
    /\ UNCHANGED <<media, searches, configured, faults, history>>

RefreshInventory(j) ==
    LET m == media[job[j].key[1]] IN
    /\ job[j].phase = "loaded"
    /\ ~m.deleted /\ m.ident = job[j].ident
    /\ job' = [job EXCEPT ![j].phase = "searching", ![j].seen = changes[job[j].key]]
    /\ UNCHANGED <<media, searches, configured, faults, history>>

\* Faulty variant: a search that has ended is not reopened.
ReplacedInPlaceOnlyPending(row) ==
    IF row.state = "pending" THEN [row EXCEPT !.due = "now", !.class = Import] ELSE row

\* The row ReplaceTrackInventory leaves for a file replaced in place.
ReplacedInPlace(row) == [row EXCEPT !.state = "pending", !.due = "now", !.class = Import]

\* The searches it makes due: installed languages of m without a live lease.
ReplacedKeys(m, installed) ==
    {k \in Keys : /\ k[1] = m /\ k[2] \in installed
                  /\ searches[k].state # "absent" /\ ~Held(searches[k])}

\* Refresh finds other bytes under the same identity (replaced in place): every
\* language with an installation and without a live lease is due again.  The
\* statement asks no owner to rerun, so an owner whose lease has expired may
\* still postpone the search.  The new size is not counted as an identity: a
\* run that loaded the old one fails, which FinishWorkerJob allows at any time.
RefreshReplacedInPlace(j) ==
    \E installed \in SUBSET Languages :
    LET m == job[j].key[1]
        due == ReplacedKeys(m, installed)
        changed == [k \in Keys |-> IF k \in due THEN changes[k] + 1 ELSE changes[k]]
    IN
    /\ job[j].phase = "loaded"
    /\ ~media[m].deleted /\ media[m].ident = job[j].ident
    /\ due # {}
    /\ \A k \in due : changes[k] < MaxChanges
    /\ changes' = changed
    /\ searches' = [k \in Keys |->
            IF k \in due THEN ReplacedInPlace(searches[k]) ELSE searches[k]]
    /\ gap' = [k \in Keys |->
            IF k \notin due THEN gap[k]
            ELSE IF searches[k].owner \in {NoJob, j} THEN "none" ELSE "inplace"]
    /\ job' = [job EXCEPT ![j].phase = "searching", ![j].seen = changed[job[j].key]]
    /\ UNCHANGED <<media, configured, faults, answered, rejected>>

\* The end of a worker job: a workflow error, a timeout, unsupported media or
\* one of the workflow's outcomes.  Any outcome but a throttle ends a
\* replacement the lease had announced.
FinishWorkerJob(j) ==
    /\ j \in WorkerJobs
    /\ \/ /\ job[j].phase \in {"leased", "loaded", "searching", "failed"}
          /\ CompleteSearch(j, "failed", FALSE)
       \/ /\ job[j].phase = "unsupported"
          /\ CompleteSearch(j, "unsupported", FALSE)
       \/ /\ job[j].phase = "searching"
          /\ \E result \in {"done", "upgrade", "missing", "throttled"} :
                CompleteSearch(j, result, job[j].replace /\ result # "throttled")

-----------------------------------------------------------------------------
(* Manual searches *)

\* prepareSearch reads the file from Arr, which may know a newer one.
ResolveManual(j, k) ==
    /\ j \in ManualJobs /\ Fresh(j)
    /\ k[2] \in configured
    /\ \E ident \in {media[k[1]].ident, media[k[1]].ident + 1} \cap 0..MaxIdent, unsupported \in BOOLEAN :
        job' = [job EXCEPT ![j] = [IdleJob EXCEPT !.phase = "resolving", !.key = k,
                                                  !.ident = ident, !.unsupported = unsupported]]
    /\ UNCHANGED <<media, searches, configured, faults, history>>

\* MediaActive: an unknown or deleted file enters through the media mutation,
\* which schedules every language; an active one is only refreshed.
ReviveManual(j) ==
    LET m == job[j].key[1]
        active == Active(m) /\ media[m].ident = job[j].ident
    IN
    /\ job[j].phase = "resolving"
    /\ job' = [job EXCEPT ![j].phase = "upserting", ![j].revived = ~active]
    /\ IF active
       THEN UNCHANGED <<media, searches, history>>
       ELSE ImportMutation(m, job[j].ident, job[j].unsupported, Missing)
    /\ UNCHANGED <<configured, faults>>

\* UpsertMedia: the media row takes what Arr answered earlier.
UpsertManual(j) ==
    LET m == job[j].key[1] IN
    /\ job[j].phase = "upserting"
    /\ media' = [media EXCEPT ![m] = [deleted |-> FALSE, unsupported |-> job[j].unsupported,
                                      ident |-> job[j].ident]]
    /\ job' = [job EXCEPT ![j].phase = "queued", ![j].unsupported = FALSE]
    /\ UNCHANGED <<searches, configured, faults, history>>

\* prepareReject finds the installed subtitle of a file in the catalog.
PrepareReject(j, k) ==
    /\ j \in ManualJobs /\ Fresh(j)
    /\ Active(k[1]) /\ k[2] \in configured
    /\ job' = [job EXCEPT ![j] = [IdleJob EXCEPT !.phase = "rejecting", !.key = k,
                                                 !.ident = media[k[1]].ident]]
    /\ UNCHANGED <<media, searches, configured, faults, history>>

\* The row RecordUserRejection leaves: due now with replace_installed.  A live
\* lease stays with its owner, which must run again; otherwise the reject's own
\* run takes the lease.
RejectedRow(row, j) ==
    LET due == [row EXCEPT !.state = "pending", !.due = "now", !.class = Import,
                           !.outcome = "", !.replace = TRUE]
    IN IF Held(row) THEN [due EXCEPT !.rerun = TRUE]
                    ELSE [due EXCEPT !.owner = j, !.live = TRUE, !.rerun = FALSE]

\* RecordUserRejection: the rejection and its queued search commit together.
RecordReject(j) ==
    LET k == job[j].key IN
    /\ job[j].phase = "rejecting"
    /\ changes[k] < MaxChanges
    /\ searches' = [searches EXCEPT ![k] = RejectedRow(@, j)]
    /\ changes' = [changes EXCEPT ![k] = @ + 1]
    /\ answered' = [answered EXCEPT ![k] = IF Active(k[1]) THEN @ ELSE changes[k] + 1]
    /\ gap' = [gap EXCEPT ![k] = "none"]
    /\ rejected' = [rejected EXCEPT ![k] = Active(k[1])]
    /\ job' = [job EXCEPT ![j].phase = "queued", ![j].seen = changes[k] + 1]
    /\ UNCHANGED <<media, configured, faults>>

\* reject --undo disarms a queued replacement.
UndoReject(k) ==
    /\ searches[k].replace
    /\ searches' = [searches EXCEPT ![k].replace = FALSE]
    /\ rejected' = [rejected EXCEPT ![k] = FALSE]
    /\ UNCHANGED <<media, job, configured, faults, changes, answered, gap>>

\* A slot is free: the run notes whether the search had no row of its own.
StartManual(j) ==
    /\ job[j].phase = "queued"
    /\ job' = [job EXCEPT ![j].phase = "claiming",
                          ![j].revived = @ \/ searches[job[j].key].state = "absent"]
    /\ UNCHANGED <<media, searches, configured, faults, history>>

\* Faulty variant: a manual search takes its row whoever runs it.
ClaimableAlways(row, j) == TRUE

\* The condition of ClaimSearch on an existing row.
Claimable(row, j) == ~Held(row) \/ row.owner = j

\* ClaimSearch, polled until no other owner holds a live lease.
ClaimSearch(j) ==
    LET k == job[j].key
        row == searches[k]
        queued == IF row.state = "absent"
                  THEN [NoRow EXCEPT !.state = "pending", !.due = "now", !.class = Missing]
                  ELSE row
    IN
    /\ job[j].phase = "claiming"
    /\ Claimable(row, j)
    /\ searches' = [searches EXCEPT ![k] =
            [queued EXCEPT !.owner = j, !.live = TRUE, !.rerun = FALSE]]
    /\ job' = [job EXCEPT ![j].phase = "claimed", ![j].seen = changes[k]]
    /\ UNCHANGED <<media, configured, faults, history>>

\* Faulty variant: the run does not look for a queued replacement.
IgnoresReplace(j) ==
    /\ job[j].phase = "claimed"
    /\ job' = [job EXCEPT ![j].phase = "loaded"]
    /\ UNCHANGED <<media, searches, configured, faults, history>>

\* Under the lease the row says whether a replacement is still queued.
ReadReplace(j) ==
    /\ job[j].phase = "claimed"
    /\ job' = [job EXCEPT ![j].phase = "loaded", ![j].replace = searches[job[j].key].replace]
    /\ UNCHANGED <<media, searches, configured, faults, history>>

\* An error before or during the run: the deferred release ends it.
FailManual(j) ==
    /\ j \in ManualJobs
    /\ job[j].phase \notin {"idle", "releasing", "upgrading"}
    /\ searches' = Released(job[j].key, j)
    /\ job' = [job EXCEPT ![j] = IdleJob]
    /\ UNCHANGED <<media, configured, faults, history>>

\* A run that completes its row as the worker does: a timeout, a replacement,
\* or an installed subtitle.
FinishManual(j) ==
    /\ j \in ManualJobs
    /\ \/ /\ job[j].phase \in {"loaded", "searching"}
          /\ CompleteSearch(j, "failed", FALSE)
       \/ /\ job[j].phase = "searching" /\ job[j].replace
          /\ \E result \in {"done", "upgrade", "missing", "throttled"} :
                CompleteSearch(j, result, result # "throttled")
       \/ /\ job[j].phase = "searching" /\ ~job[j].replace
          /\ \E result \in {"done", "upgrade"} : CompleteSearch(j, result, FALSE)

\* Faulty variant: the owner settles its row although a rerun was requested.
SettlesOwn(row, j) == row.state = "pending" /\ (~Held(row) \/ row.owner = j)

\* The condition of SettlePendingSearch: an unleased row, one whose lease has
\* expired, or the run's own one unless a rerun was requested.
Settles(row, j) ==
    row.state = "pending" /\ (~Held(row) \/ (row.owner = j /\ ~row.rerun))

\* SettlePendingSearch: a satisfied run ends the search that its own revival
\* or claim queued.
SettlePendingSearch(j) ==
    LET k == job[j].key
        row == searches[k]
        settles == Settles(row, j)
        dropped == (Unanswered(k) /\ job[j].seen < changes[k]) \/ rejected[k]
    IN
    /\ job[j].phase = "searching" /\ j \in ManualJobs
    /\ ~job[j].replace /\ job[j].revived
    /\ searches' = [searches EXCEPT ![k] =
            IF settles THEN [Unleased(row) EXCEPT !.state = "complete", !.due = "none",
                                                  !.outcome = "ended"]
                       ELSE row]
    /\ answered' = [answered EXCEPT ![k] = IF settles THEN Larger(@, job[j].seen) ELSE @]
    /\ gap' = [gap EXCEPT ![k] = IF settles /\ dropped /\ @ = "none" THEN "settled" ELSE @]
    /\ job' = [job EXCEPT ![j].phase = "releasing"]
    /\ UNCHANGED <<media, configured, faults, changes, rejected>>

\* Nothing was installed: the lease goes back, and a satisfied run with an
\* upgrade to come goes on to schedule it.
ReleaseManual(j) ==
    /\ j \in ManualJobs
    /\ \/ job[j].phase = "releasing"
       \/ job[j].phase = "searching" /\ ~job[j].replace
    /\ searches' = Released(job[j].key, j)
    /\ \/ job' = [job EXCEPT ![j].phase = "upgrading"]
       \/ job' = [job EXCEPT ![j] = IdleJob]
    /\ UNCHANGED <<media, configured, faults, history>>

\* EnsureUpgradeSearch: never over a lease, never over earlier queued work.
EnsureUpgradeSearch(j) ==
    LET k == job[j].key
        row == searches[k]
        m == media[k[1]]
    IN
    /\ job[j].phase = "upgrading"
    /\ searches' = [searches EXCEPT ![k] =
            IF /\ ~m.deleted /\ ~m.unsupported
               /\ row.owner = NoJob /\ row.state # "pending"
            THEN [row EXCEPT !.state = "pending", !.due = "later", !.class = Upgrade,
                             !.outcome = "", !.rerun = FALSE]
            ELSE row]
    /\ job' = [job EXCEPT ![j] = IdleJob]
    /\ UNCHANGED <<media, configured, faults, history>>

-----------------------------------------------------------------------------
(* Specification *)

Next ==
    \/ \E m \in Media : ImportEvent(m) \/ DeleteEvent(m)
    \/ \E k \in Keys : BecomesDue(k) \/ LeaseExpires(k) \/ ClockJump(k) \/ UndoReject(k)
    \/ RetryThrottledSearches \/ Crash \/ EnsureConfiguredLanguageSearches
    \/ \E j \in Jobs, k \in Keys :
            LeaseDueSearch(j, k) \/ ResolveManual(j, k) \/ PrepareReject(j, k)
    \/ \E j \in Jobs :
            \/ RenewSearchLease(j) \/ LoseLease(j) \/ CancelJob(j) \/ AbandonJob(j)
            \/ LoadMedia(j) \/ RefreshStale(j) \/ RefreshInventory(j)
            \/ RefreshReplacedInPlace(j) \/ FinishWorkerJob(j)
            \/ ReviveManual(j) \/ UpsertManual(j) \/ RecordReject(j) \/ StartManual(j)
            \/ ClaimSearch(j) \/ ReadReplace(j) \/ FailManual(j) \/ FinishManual(j)
            \/ SettlePendingSearch(j) \/ ReleaseManual(j) \/ EnsureUpgradeSearch(j)

Spec == Init /\ [][Next]_vars

\* The scheduling the code provides: time passes, the worker polls the queue
\* and the provider calls of a run end or time out.
Fairness ==
    /\ \A k \in Keys : WF_vars(LeaseExpires(k))
    /\ \A k \in Keys : SF_vars(\E j \in WorkerJobs : LeaseDueSearch(j, k))
    /\ \A j \in WorkerJobs : WF_vars(FinishWorkerJob(j))
    /\ \A j \in ManualJobs :
        WF_vars(\/ ReadReplace(j) \/ FinishManual(j)
                \/ job[j].phase = "failed" /\ FailManual(j)
                \/ ReleaseManual(j) \/ EnsureUpgradeSearch(j))

LiveSpec == Spec /\ Fairness

-----------------------------------------------------------------------------
(* Properties *)

MediaType == [deleted : BOOLEAN, unsupported : BOOLEAN, ident : 0..MaxIdent]

\* Every variable keeps the shape of the table or the job that it stands for.
TypeOK ==
    /\ media \in [Media -> MediaType]
    /\ searches \in [Keys -> RowType]
    /\ job \in [Jobs -> JobType]
    /\ \A j \in Jobs : job[j].phase # "idle" => job[j].key \in Keys
    /\ configured \in SUBSET Languages
    /\ faults \in 0..MaxFaults
    /\ changes \in [Keys -> 0..MaxChanges]
    /\ answered \in [Keys -> 0..MaxChanges]
    /\ gap \in [Keys -> {"none", "settled", "inplace"}]
    /\ rejected \in [Keys -> BOOLEAN]

\* No lost change: an import, a rename, an in-place replacement or a rejection
\* that no recorded run has observed keeps its search queued and due now, above
\* upgrade class, whatever the jobs that held the search meanwhile report.
NoLostChange ==
    \A k \in Keys :
        Unanswered(k) =>
            /\ searches[k].state = "pending"
            /\ searches[k].due = "now"
            /\ searches[k].class # Upgrade

\* A rejection the owner made stays armed (replace_installed) and queued until
\* a run that saw it completes, it is undone, or the file is gone.
RejectionStaysArmed ==
    \A k \in Keys :
        (rejected[k] /\ gap[k] = "none") =>
            /\ searches[k].replace
            /\ searches[k].state = "pending"

\* A run that still owns its search and was not asked to run again has seen
\* every change there is: what it reports may replace the schedule.
OwnerUpToDate ==
    \A j \in Jobs :
        LET k == job[j].key IN
        (/\ job[j].phase \in RunPhases /\ searches[k].owner = j
         /\ ~searches[k].rerun /\ gap[k] = "none") =>
            Larger(answered[k], job[j].seen) >= changes[k]

\* A run that may complete a rejected search knows of the rejection, whose flag
\* is still set: no completion takes the flag of a rejection it never saw.
OwnerKnowsRejection ==
    /\ \A k \in Keys : rejected[k] => searches[k].replace
    /\ \A j \in Jobs :
        LET k == job[j].key IN
        (/\ job[j].phase \in RunPhases \ {"claimed"} /\ searches[k].owner = j
         /\ ~searches[k].rerun /\ rejected[k]) =>
            job[j].replace

\* What the owner asked for by rejecting a subtitle is neither forgotten nor
\* answered by a run that does not know of it (CompleteSearch, ReadReplace).
RejectionKept == RejectionStaysArmed /\ OwnerKnowsRejection

\* A live lease is never taken from its owner, which alone gives it up: the
\* worker's dispatch, a manual claim and a reject all leave it alone, so no two
\* runs of one search both own it.
LiveLeaseNotStolen ==
    [][\A k \in Keys :
        (Held(searches[k]) /\ searches'[k].owner # searches[k].owner) =>
            /\ searches'[k].owner = NoJob
            /\ job[searches[k].owner].key = k
            /\ job'[searches[k].owner].phase \in {"idle", "releasing", "upgrading"}]_vars

\* The search of a deleted file that has ended stays ended, whatever a run that
\* still held it reports, until the file returns or is rejected again.
DeletedStaysEnded ==
    [][\A k \in Keys :
        (/\ media[k[1]].deleted /\ media'[k[1]].deleted
         /\ searches[k].state = "complete" /\ changes'[k] = changes[k]) =>
            searches'[k].state = "complete"]_vars

\* Only a settlement that no longer finds its run's lease live can drop a
\* change: under a live lease the rerun request fences it.
LossNeedsExpiredLease ==
    [][\A k \in Keys :
        (gap'[k] = "settled" /\ gap[k] # "settled") => ~Held(searches[k])]_vars

\* What a live lease is good for: nobody else runs its search, and no change to
\* it is settled away (LeaseDueSearchesExcept, SettlePendingSearch).
LeaseProtects == LiveLeaseNotStolen /\ LossNeedsExpiredLease

\* Every change is eventually observed by a recorded run, or its file is
\* deleted: leases left by dead owners expire and are taken over.
EveryChangeAnswered == \A k \in Keys : Unanswered(k) ~> ~Unanswered(k)

\* As SettlePendingSearch's comment has it: a change that arrived during the
\* claim of a run is not settled away by that run.
SettlementKeepsChange == \A k \in Keys : gap[k] # "settled"

\* As prepareSearch's comment has it: a deleted file returns to the catalog
\* through the mutation that schedules every configured language.
RevivalSchedules ==
    [][\A m \in Media :
        (media[m].deleted /\ ~media'[m].deleted /\ ~media'[m].unsupported) =>
            \A k \in KeysOf(m) : searches'[k].state = "pending"]_vars

=============================================================================
