------------------------------- MODULE Daemon -------------------------------
(***************************************************************************)
(* The running daemon as its supervising code sees it: App.Serve and its   *)
(* shutdown order (internal/app/app.go), the worker loop with its search   *)
(* slots, maintenance task and drain (internal/worker/worker.go), the      *)
(* media breaker (internal/worker/media_breaker.go), the lock between      *)
(* scheduled reconciliations and `scan` (WithReconcileLock), and the       *)
(* control server's handlers with the manual work they start.  Storage may *)
(* drop or hang: what touches a hung mount blocks and ignores              *)
(* cancellation until the mount answers again.                             *)
(*                                                                         *)
(* What a search does is in Acquisition and SearchQueue, what a            *)
(* reconciliation does in CatalogEvents; here only whether they run, block *)
(* or have ended matters.                                                  *)
(***************************************************************************)
EXTENDS Integers, FiniteSets

CONSTANTS Jobs,         \* searches of the queue
          Requests,     \* control requests that start manual work (scans)
          MaxWorkflows, \* slots for searches
          Threshold,    \* mediaBreakerThreshold
          MaxPause,     \* mediaBreakerMaxPause, in units of mediaBreakerPause
          Levels,       \* directories from a media file's own up to its root
          MaxFaults     \* bound: how often the storage fails

ASSUME DaemonAssumption ==
  /\ MaxWorkflows \in Nat \ {0}
  /\ Threshold \in Nat \ {0}
  /\ MaxPause \in Nat \ {0}
  /\ Levels \in Nat \ {0}
  /\ MaxFaults \in Nat

VARIABLES mount,       \* "ok", "down" (dropped or failing) or "hung"
          faults,      \* storage faults still to come
          job,         \* where each search is; one that ended is due again later
          failures,    \* Worker.mediaFailures
          pause,       \* Worker.mediaPause
          paused,      \* Worker.mediaPausedUntil is still to come
          unread,      \* history: failures with a cause since a search last read its media
          worker,      \* Worker.Run: "run", "dispatch", "drain", "cancel", "gone"
          maintenance, \* "off", "reconcile", "blocked"
          mu,          \* who holds Worker.reconcileMu
          run,         \* each control request and the manual run it starts
          inbox,       \* the webhook inbox: "idle" or "blocked"
          stopping,    \* runCtx has ended
          stage        \* where App.Serve is

breaker == <<failures, pause, paused, unread>>
serve == <<stopping, stage>>
storage == <<mount, faults, inbox>>
vars == <<storage, job, breaker, worker, maintenance, mu, run, serve>>

None == "none"
Maintenance == "maintenance"

ASSUME RequestsAssumption == {None, Maintenance} \cap Requests = {}

Active == {"running", "blocked", "missing", "unread", "dead"}
Stages == {"serving", "http", "worker", "control", "manual", "inbox", "stopped"}

(* The type of the state, and the width of the breaker's counters. *)
TypeOK ==
  /\ mount \in {"ok", "down", "hung"} /\ faults \in 0..MaxFaults
  /\ job \in [Jobs -> {"due", "leased", "cut"} \cup Active]
  /\ failures \in 0..(Threshold - 1) /\ pause \in 0..MaxPause
  /\ paused \in BOOLEAN /\ unread \in 0..(2 * Threshold)
  /\ worker \in {"run", "dispatch", "drain", "cancel", "gone"}
  /\ maintenance \in {"off", "reconcile", "blocked"}
  /\ mu \in Requests \cup {None, Maintenance}
  /\ run \in [Requests -> {"none", "checked", "locking", "scanning", "stuck",
                          "probing", "ended"}]
  /\ inbox \in {"idle", "blocked"} /\ stopping \in BOOLEAN /\ stage \in Stages

(* A search is due, or carries a lease that a process which died left: its *)
(* expiry is in SearchQueue.                                               *)
Init ==
  /\ mount = "ok" /\ faults = MaxFaults /\ inbox = "idle"
  /\ job \in [Jobs -> {"due", "cut"}]
  /\ failures = 0 /\ pause = 0 /\ paused = FALSE /\ unread = 0
  /\ worker = "run" /\ maintenance = "off" /\ mu = None
  /\ run = [r \in Requests |-> "none"]
  /\ stopping = FALSE /\ stage = "serving"

-----------------------------------------------------------------------------
(* Storage and time, outside the daemon. *)

MountFails ==
  /\ mount = "ok" /\ faults > 0
  /\ mount' \in {"down", "hung"} /\ faults' = faults - 1
  /\ UNCHANGED <<job, breaker, worker, maintenance, mu, run, inbox, serve>>

MountBack ==
  /\ mount # "ok" /\ mount' = "ok"
  /\ UNCHANGED <<faults, inbox, job, breaker, worker, maintenance, mu, run, serve>>

PauseEnds ==
  /\ paused /\ paused' = FALSE
  /\ UNCHANGED <<storage, job, failures, pause, unread, worker, maintenance, mu, run, serve>>

-----------------------------------------------------------------------------
(* Worker.Run: leasing and starting searches.                              *)

Running == {j \in Jobs : job[j] \in Active}
Due == {j \in Jobs : job[j] = "due"}
Smaller(a, b) == IF a < b THEN a ELSE b

PausedUntilRead == pause > 0
mediaPaused == paused

(* dispatch, from a result, a wake or the poll timer: the free slots are   *)
(* leased at once, and started one by one.                                 *)
Lease ==
  /\ worker = "run" /\ ~stopping /\ ~mediaPaused
  /\ \E chosen \in SUBSET Due :
       /\ chosen # {}
       /\ Cardinality(chosen) =
            Smaller(MaxWorkflows - Cardinality(Running), Cardinality(Due))
       /\ job' = [j \in Jobs |-> IF j \in chosen THEN "leased" ELSE job[j]]
  /\ worker' = "dispatch"
  /\ UNCHANGED <<storage, breaker, maintenance, mu, run, serve>>

Start(j) ==
  /\ worker = "dispatch" /\ ~stopping /\ job[j] = "leased"
  /\ job' = [job EXCEPT ![j] = "running"]
  /\ UNCHANGED <<storage, breaker, worker, maintenance, mu, run, serve>>

(* The loop returns early when the context ends; what it had leased and    *)
(* not started keeps its lease.                                            *)
Dispatched ==
  /\ worker = "dispatch" /\ (stopping \/ \A j \in Jobs : job[j] # "leased")
  /\ job' = [j \in Jobs |-> IF job[j] = "leased" THEN "cut" ELSE job[j]]
  /\ worker' = "run"
  /\ UNCHANGED <<storage, breaker, maintenance, mu, run, serve>>

-----------------------------------------------------------------------------
(* runSearchLease: a search ends, and its result feeds the breaker.        *)

Cancelled == worker \in {"cancel", "gone"}

(* recordSearchResult's two arms under breakerMu. *)
Read == failures' = 0 /\ pause' = 0 /\ unread' = 0 /\ UNCHANGED paused

Unbounded == IF pause = 0 THEN 1 ELSE 2 * pause
Longer == Smaller(IF pause = 0 THEN 1 ELSE 2 * pause, MaxPause)
Unread(j) ==
  /\ unread' = Smaller(unread + (IF job[j] = "unread" THEN 1 ELSE 0), 2 * Threshold)
  /\ IF failures + 1 < Threshold
     THEN failures' = failures + 1 /\ UNCHANGED <<pause, paused>>
     ELSE failures' = 0 /\ pause' = Longer /\ paused' = TRUE

JobStep(j, from, to) == job[j] \in from /\ job' = [job EXCEPT ![j] = to]
OfJob == UNCHANGED <<storage, worker, maintenance, mu, run, serve>>

Blocks(j) == mount = "hung" /\ JobStep(j, {"running"}, "blocked") /\ OfJob /\ UNCHANGED breaker
(* Canceled meanwhile, it returns and gives its lease back. *)
Unblocks(j) ==
  /\ mount # "hung" /\ JobStep(j, {"blocked"}, IF Cancelled THEN "due" ELSE "running")
  /\ OfJob /\ UNCHANGED breaker

(* The media was read, whatever the search found. *)
Reads(j) == ~Cancelled /\ mount = "ok" /\ JobStep(j, {"running"}, "due") /\ Read /\ OfJob

(* MediaMissing: Arr removed the file, or the mount dropped. *)
Misses(j) ==
  ~Cancelled /\ mount # "hung" /\ JobStep(j, {"running"}, "missing") /\ OfJob /\ UNCHANGED breaker

(* Any other MediaUnavailableError: read errors, or a probe that timed out. *)
Fails(j) ==
  /\ ~Cancelled /\ mount # "ok" /\ JobStep(j, {"running", "blocked"}, "unread")
  /\ OfJob /\ UNCHANGED breaker

(* CompleteSearch runs on the job's context: a cancellation since then     *)
(* fails it and leaves the lease.                                          *)
Completed == IF Cancelled THEN "cut" ELSE "due"

(* What the storage shows of the place of a missing file: whether the path *)
(* is in a configured media root, and what listing a directory gives, from *)
(* the file's own (its target's, for a link) up to the root.               *)
Places == [rooted : BOOLEAN, listing : [1..Levels -> {"entries", "empty", "missing", "failed"}]]

(* A hung mount answers no listing, a healthy one fails none and has the   *)
(* directories above one that is there; a failing mount shows anything, an *)
(* empty mount point or listings from its metadata.                        *)
Shown ==
  {p \in Places :
     /\ mount = "hung" => \A k \in 1..Levels : p.listing[k] = "failed"
     /\ mount = "ok" => \A k \in 1..Levels :
          /\ p.listing[k] # "failed"
          /\ p.listing[k] # "missing" => \A i \in (k + 1)..Levels : p.listing[i] = "entries"}

(* listsUpTo: the first directory that is not missing lists an entry. *)
OwnDirectory(p) == p.listing[1] = "entries"
listsUpTo(p) ==
  \E k \in 1..Levels : /\ p.listing[k] = "entries"
                       /\ \A i \in 1..(k - 1) : p.listing[i] = "missing"

(* mediaMountReadable, outside the mutex: without media roots, or for a    *)
(* path in none of them, nothing is probed.                                *)
NoProbe(p) == FALSE
mediaMountReadable(p) == p.rooted /\ listsUpTo(p)

(* History: the file is simply gone.  The storage works, the path is in a  *)
(* media root, and where the file was, or above what went with it, there   *)
(* are still others.                                                       *)
OnlyFileGone(p) ==
  /\ mount = "ok" /\ p.rooted
  /\ \E k \in 1..Levels : /\ p.listing[k] \notin {"missing", "empty"}
                          /\ \A i \in 1..Levels : i < k => p.listing[i] = "missing"

Probe(j) ==
  /\ \E p \in Shown :
       JobStep(j, {"missing"}, IF mediaMountReadable(p) THEN Completed
                               ELSE IF OnlyFileGone(p) THEN "dead" ELSE "unread")
  /\ OfJob /\ UNCHANGED breaker

Count(j) == JobStep(j, {"unread", "dead"}, Completed) /\ Unread(j) /\ OfJob

(* The time limit and its grace have passed: the search is recorded as     *)
(* timed out, which is no media failure, and its workflow left behind.     *)
AbandonOnceReturned(j) ==
  /\ mount # "hung" /\ JobStep(j, {"blocked"}, "due") /\ ~Cancelled /\ Read /\ OfJob
Abandon(j) == JobStep(j, {"blocked"}, "due") /\ ~Cancelled /\ Read /\ OfJob

(* Work that returns canceled gives its lease back. *)
GivesBack(j) == Cancelled /\ JobStep(j, {"running"}, "due") /\ OfJob /\ UNCHANGED breaker

JobEnds(j) == Reads(j) \/ Misses(j) \/ Fails(j) \/ Probe(j) \/ Count(j) \/ GivesBack(j)

-----------------------------------------------------------------------------
(* Worker.Run: the maintenance task, one at a time.  The notifications it  *)
(* sends after the reconciliation are in Notifications.                    *)

OfMaintenance == UNCHANGED <<storage, job, breaker, worker, run, serve>>

(* A scan that holds the lock lets this tick skip its reconciliation. *)
IgnoredTryLock == TRUE
TryLock == mu = None

StartMaintenance ==
  /\ worker = "run" /\ ~stopping /\ maintenance = "off"
  /\ TryLock /\ mu' = Maintenance /\ maintenance' = "reconcile"
  /\ OfMaintenance

ReconcileBlocks ==
  /\ mount = "hung" /\ maintenance = "reconcile" /\ maintenance' = "blocked"
  /\ UNCHANGED mu /\ OfMaintenance

ReconcileResumes ==
  /\ mount # "hung" /\ maintenance = "blocked" /\ maintenance' = "reconcile"
  /\ UNCHANGED mu /\ OfMaintenance

Reconciled ==
  /\ maintenance = "reconcile" /\ mu' = None /\ maintenance' = "off"
  /\ OfMaintenance

-----------------------------------------------------------------------------
(* drainDaemon.                                                            *)

WorkerStep(from, to) ==
  /\ worker = from /\ worker' = to
  /\ UNCHANGED <<storage, job, breaker, maintenance, mu, run, serve>>

Drained == Running = {} /\ maintenance = "off"
StuckOnly ==
  /\ \A j \in Running : job[j] = "blocked"
  /\ maintenance \in {"off", "blocked"}

Stops == stopping /\ WorkerStep("run", "drain")
DrainEnds == Drained /\ (WorkerStep("drain", "gone") \/ WorkerStep("cancel", "gone"))
DrainGivesUp == ~Drained /\ WorkerStep("drain", "gone")
(* The first window: running searches are canceled. *)
DrainTimesOut == ~Drained /\ WorkerStep("drain", "cancel")
DrainWaits == FALSE /\ UNCHANGED vars
(* The second: canceled work that could return has, the rest is left.      *)
DrainAbandons == ~Drained /\ StuckOnly /\ WorkerStep("cancel", "gone")


-----------------------------------------------------------------------------
(* The control server's handlers, and the scans they start.                *)

OfRequest == UNCHANGED <<storage, job, breaker, worker, maintenance, serve>>

RunStep(r, from, to) == run[r] \in from /\ run' = [run EXCEPT ![r] = to] /\ OfRequest

(* The handler: scanInDaemon refuses once runCtx has ended. *)
Accept(r) == ~stopping /\ RunStep(r, {"none"}, "checked") /\ UNCHANGED mu

(* manualRuns.Add, then WithReconcileLock on the run's own goroutine: it   *)
(* gives up before or while waiting when the context ends, and the pending *)
(* Lock is handed straight back.                                           *)
Begin(r) == RunStep(r, {"checked"}, IF stopping THEN "ended" ELSE "locking") /\ UNCHANGED mu
Lock(r) == mu = None /\ mu' = r /\ RunStep(r, {"locking"}, "scanning")
GiveUp(r) == stopping /\ RunStep(r, {"locking"}, "ended") /\ UNCHANGED mu

ScanBlocks(r) == mount = "hung" /\ RunStep(r, {"scanning"}, "stuck") /\ UNCHANGED mu
ScanResumes(r) ==
  /\ mount # "hung"
  /\ IF stopping THEN RunStep(r, {"stuck"}, "ended") /\ mu' = None
                 ELSE RunStep(r, {"stuck"}, "scanning") /\ UNCHANGED mu
(* The probes of --force-probe run outside the lock. *)
Scanned(r) ==
  /\ mu' = None
  /\ (RunStep(r, {"scanning"}, "probing") \/ RunStep(r, {"scanning"}, "ended"))
Probed(r) == RunStep(r, {"probing"}, "ended") /\ UNCHANGED mu

-----------------------------------------------------------------------------
(* The webhook inbox, which resolves each media path on the mount.         *)

OfInbox == UNCHANGED <<mount, faults, job, breaker, worker, maintenance, mu, run, serve>>
ApplyBlocks == mount = "hung" /\ ~stopping /\ inbox = "idle"
               /\ inbox' = "blocked" /\ OfInbox
ApplyResumes == mount # "hung" /\ inbox = "blocked" /\ inbox' = "idle" /\ OfInbox

-----------------------------------------------------------------------------
(* App.Serve.                                                              *)

ServeStep(from, to, stop) ==
  /\ stage = from /\ stage' = to /\ stopping' = (stopping \/ stop)
  /\ UNCHANGED <<storage, job, breaker, worker, maintenance, mu, run>>

(* The runs manualRuns still counts. *)
CountedInLock(r) == run[r] \in {"locking", "scanning"}
Counted(r) == run[r] \in {"locking", "scanning", "probing"}

(* A signal ends runCtx at once; a failed component only starts the        *)
(* shutdown.                                                               *)
Signal == ServeStep("serving", "http", TRUE)
ComponentFails == ServeStep("serving", "http", FALSE)
HTTPStopped == ServeStep("http", "worker", TRUE)
WorkerDone == worker = "gone" /\ ServeStep("worker", "control", TRUE)
(* control.Server drains its handlers; one whose run has begun returns     *)
(* when runCtx ends, or before.                                            *)
ControlDone == (\A r \in Requests : run[r] # "checked") /\ ServeStep("control", "manual", TRUE)
(* waitManualSearches, up to a deadline that only a stuck run outlasts. *)
ManualDone == (\A r \in Requests : ~Counted(r)) /\ ServeStep("manual", "inbox", TRUE)
WebhooksDone == inbox = "idle" /\ ServeStep("inbox", "stopped", TRUE)

-----------------------------------------------------------------------------
Storage == MountFails \/ MountBack \/ PauseEnds
Dispatch == Lease \/ Dispatched \/ \E j \in Jobs : Start(j)
Searches == \E j \in Jobs : Blocks(j) \/ Unblocks(j) \/ JobEnds(j) \/ Abandon(j)
Maintains == StartMaintenance \/ ReconcileBlocks \/ ReconcileResumes \/ Reconciled
Drains == Stops \/ DrainEnds \/ DrainTimesOut \/ DrainAbandons
Scans(r) == Accept(r) \/ Begin(r) \/ Lock(r) \/ GiveUp(r) \/ ScanBlocks(r) \/ ScanResumes(r)
            \/ Scanned(r) \/ Probed(r)
Serves == Signal \/ ComponentFails \/ HTTPStopped \/ WorkerDone \/ ControlDone \/ ManualDone
          \/ WebhooksDone

Next ==
  /\ stage # "stopped"
  /\ \/ Storage \/ Dispatch \/ Searches \/ Maintains \/ Drains
     \/ (\E r \in Requests : Scans(r))
     \/ ApplyBlocks \/ ApplyResumes \/ Serves

(* Timers fire, code that does not block goes on, and a search or          *)
(* reconciliation that does not block ends.  Nothing makes the storage     *)
(* come back, nor anyone stop the daemon.  A search blocked on the storage *)
(* need not notice: its time limit ends it, hours that a shutdown does not *)
(* wait for.                                                               *)
Alive == stage # "stopped"
Fairness ==
  /\ WF_vars(Alive /\ PauseEnds)
  /\ WF_vars(Alive /\ (Lease \/ Dispatched))
  /\ WF_vars(Alive /\ Reconciled)
  /\ WF_vars(Alive /\ Drains)
  /\ WF_vars(HTTPStopped \/ WorkerDone \/ ControlDone \/ ManualDone \/ WebhooksDone)
  /\ \A j \in Jobs : /\ WF_vars(Alive /\ job[j] # "blocked" /\ (Start(j) \/ JobEnds(j)))
                    /\ WF_vars(Alive /\ Abandon(j) /\ worker = "run")
  /\ \A r \in Requests :
       WF_vars(Alive /\ (Begin(r) \/ Lock(r) \/ GiveUp(r) \/ Scanned(r) \/ Probed(r)))

Spec == Init /\ [][Next]_vars /\ Fairness

-----------------------------------------------------------------------------
(* A scheduled reconciliation and a scan never run at the same time, also  *)
(* when one of them is blocked or was given up on, and the lock is held    *)
(* exactly while one of them runs (WithReconcileLock and                   *)
(* reconcileDueContexts in worker.go).                                     *)
ReconcilesApart ==
  LET reconciling == {r \in Requests : run[r] \in {"scanning", "stuck"}}
                     \cup (IF maintenance \in {"reconcile", "blocked"} THEN {Maintenance} ELSE {})
  IN  reconciling = IF mu = None THEN {} ELSE {mu}

(* Behind every pause of the queue are Threshold failures with a cause,    *)
(* behind a doubled one twice as many, all since a search last read its    *)
(* media.  A cause is a read that failed on failing storage, or a missing  *)
(* file whose storage failed the probe, was left empty where the file was, *)
(* or is in no media root.  A file that Arr removed from a directory with  *)
(* others in it, or together with its directory below one that lists,      *)
(* never brings a pause closer (recordSearchResult, mediaMountReadable and *)
(* listsUpTo in media_breaker.go).                                         *)
PauseEarned ==
  /\ pause > 0 => unread >= Threshold
  /\ pause > 1 => unread >= 2 * Threshold

(* The breaker stays within its limits and opens for a cause               *)
(* (recordSearchResult in media_breaker.go).                               *)
BreakerSound == TypeOK /\ PauseEarned

(* Once Serve has returned, no search is still running and none keeps its  *)
(* lease, except work blocked on the storage and work that the end of the  *)
(* context cut off between its lease and its start, or between its result  *)
(* and its record (drainDaemon and runSearchLease in worker.go).           *)
LeasesReturned ==
  stage = "stopped" => \A j \in Jobs : job[j] \in {"due", "blocked", "cut"}

(* Once Serve has stopped waiting for manual work, no run that is not      *)
(* blocked on the storage still scans or probes, although a handler may    *)
(* start one after the shutdown began (waitManualSearches and Serve in     *)
(* app.go).                                                                *)
ManualDrained ==
  stage \in {"inbox", "stopped"} =>
    \A r \in Requests : run[r] \notin {"locking", "scanning", "probing"}

(* What was under way when the daemon stopped has ended or is blocked on   *)
(* the storage (drainDaemon, waitManualSearches).                          *)
StopsClean == LeasesReturned /\ ManualDrained

(* A daemon asked to stop does stop, whatever searches, reconciliations    *)
(* and manual work are blocked on the storage (Serve and drainDaemon).     *)
(* Only a webhook blocked on it is waited for without a limit.             *)
ServeReturns == (stage # "serving") ~> (stage = "stopped" \/ inbox = "blocked")

(* While a search is due, searches go on being started: neither the media  *)
(* breaker nor searches blocked on the storage hold the queue for good     *)
(* (dispatch in Worker.Run, mediaPaused, runWorkflow).                     *)
QueueMoves == (Due # {}) ~> (stopping \/ Due = {} \/ \E j \in Jobs : job[j] = "leased")
=============================================================================
