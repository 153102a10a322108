---------------------------- MODULE DaemonProofs ----------------------------
(***************************************************************************)
(* TLAPS proofs about the daemon: about Daemon, for every set of searches  *)
(* and requests, any number of workflows and any threshold and bound of    *)
(* the media breaker, and about ManualSlots, its slots of manual searches. *)
(***************************************************************************)
EXTENDS Daemon, ManualSlots, FiniteSetTheorems, TLAPS

-----------------------------------------------------------------------------
(* The inductive invariant *)

\* Who reconciles holds the lock: the maintenance task, or one scan.
LockHeld ==
  /\ mu = Maintenance <=> maintenance # "off"
  /\ \A r \in Requests : mu = r <=> run[r] \in {"scanning", "stuck"}

\* Only a job that failed to read its media counts towards a pause, and the
\* failures counted since the last pause come on top of those behind it.
Earned ==
  /\ \A j \in Jobs : job[j] # "dead"
  /\ pause = 0 => unread >= failures
  /\ pause > 0 => unread >= Threshold + failures
  /\ pause > 1 => unread >= 2 * Threshold

\* The order of the shutdown: runCtx ends before the drain begins, leases are
\* only unstarted during a dispatch, the worker is waited for before the control
\* server, and that one before the manual runs.
Ordered ==
  /\ stage \notin {"serving", "http"} => stopping
  /\ worker \in {"drain", "cancel", "gone"} => stopping
  /\ stage \in {"control", "manual", "inbox", "stopped"} => worker = "gone"
  /\ worker # "dispatch" => \A j \in Jobs : job[j] # "leased"
  /\ worker = "gone" => \A j \in Jobs : job[j] \in {"due", "blocked", "cut"}
  /\ stage \in {"manual", "inbox", "stopped"} => \A r \in Requests : run[r] # "checked"
  /\ stage \in {"inbox", "stopped"} =>
       \A r \in Requests : run[r] \notin {"locking", "scanning", "probing"}

DaemonInv == TypeOK /\ LockHeld /\ Earned /\ Ordered

USE DaemonAssumption, RequestsAssumption

LEMMA InitDaemonInv == ASSUME Init PROVE DaemonInv
<1>1. TypeOK
  <2>1. paused \in BOOLEAN /\ stopping \in BOOLEAN
    BY Zenon DEF Init
  <2> QED
    BY <2>1 DEF Init, TypeOK, None, Stages
<1>2. LockHeld
  BY DEF Init, LockHeld, None, Maintenance
<1>3. Earned /\ Ordered
  BY DEF Init, Earned, Ordered
<1> QED
  BY <1>1, <1>2, <1>3 DEF DaemonInv

-----------------------------------------------------------------------------
(* The breaker's counters *)

LEMMA LongerType ==
  ASSUME pause \in 0..MaxPause
  PROVE  Longer \in 1..MaxPause /\ (pause = 0 => Longer = 1)
BY DEF Longer, Smaller

-----------------------------------------------------------------------------
(* One lemma per part of the next-state relation *)

LEMMA StorageStep == ASSUME DaemonInv, Storage PROVE DaemonInv'
<1>1. CASE MountFails
  BY <1>1 DEF MountFails, DaemonInv, TypeOK, LockHeld, Earned, Ordered, breaker, serve
<1>2. CASE MountBack
  BY <1>2 DEF MountBack, DaemonInv, TypeOK, LockHeld, Earned, Ordered, breaker, serve
<1>3. CASE PauseEnds
  <2>1. paused' \in BOOLEAN
    BY <1>3, Zenon DEF PauseEnds
  <2> QED
    BY <1>3, <2>1 DEF PauseEnds, DaemonInv, TypeOK, LockHeld, Earned, Ordered, storage, serve
<1> QED
  BY <1>1, <1>2, <1>3 DEF Storage

LEMMA DispatchStep == ASSUME DaemonInv, Dispatch PROVE DaemonInv'
<1>1. CASE Lease
  BY <1>1 DEF Lease, Due, DaemonInv, TypeOK, LockHeld, Earned, Ordered, storage, breaker, serve
<1>2. CASE Dispatched
  BY <1>2 DEF Dispatched, DaemonInv, TypeOK, LockHeld, Earned, Ordered, storage, breaker, serve
<1>3. ASSUME NEW j \in Jobs, Start(j) PROVE DaemonInv'
  BY <1>3 DEF Start, DaemonInv, TypeOK, LockHeld, Earned, Ordered, Active, storage, breaker, serve
<1> QED
  BY <1>1, <1>2, <1>3 DEF Dispatch

\* A search that moves and leaves the breaker alone.
LEMMA JobMoves ==
  ASSUME DaemonInv, NEW j \in Jobs, NEW from, NEW to \in {"due", "running", "blocked", "cut", "missing", "unread"},
         JobStep(j, from, to), OfJob, "leased" \notin from,
         worker = "gone" => to \in {"due", "blocked", "cut"},
         breaker' = breaker
  PROVE  DaemonInv'
BY DEF JobStep, OfJob, DaemonInv, TypeOK, LockHeld, Earned, Ordered, Active, storage, breaker, serve

\* The probe knows a healthy storage from which only the file is gone.
LEMMA ProbeSound ==
  ASSUME NEW p \in Shown, OnlyFileGone(p)
  PROVE  mediaMountReadable(p)
<1>1. PICK k \in 1..Levels : /\ p.listing[k] \notin {"missing", "empty"}
                             /\ \A i \in 1..Levels : i < k => p.listing[i] = "missing"
  BY DEF OnlyFileGone
<1>2. p.listing[k] = "entries"
  BY <1>1 DEF OnlyFileGone, Shown, Places
<1>3. \A i \in 1..(k - 1) : i \in 1..Levels /\ i < k
  BY <1>1
<1> QED
  BY <1>1, <1>2, <1>3 DEF OnlyFileGone, mediaMountReadable, listsUpTo

LEMMA SearchStep == ASSUME DaemonInv, Searches PROVE DaemonInv'
<1> PICK j \in Jobs : Blocks(j) \/ Unblocks(j) \/ JobEnds(j) \/ Abandon(j)
  BY DEF Searches
<1>1. CASE Blocks(j)
  BY <1>1, JobMoves DEF Blocks
<1>2. CASE Unblocks(j)
  BY <1>2, JobMoves DEF Unblocks, Cancelled
<1>3. CASE Misses(j)
  BY <1>3, JobMoves DEF Misses, Cancelled
<1>4. CASE Fails(j)
  BY <1>4, JobMoves DEF Fails, Cancelled
<1>5. CASE Probe(j)
  <2>1. worker # "gone"
    BY <1>5 DEF Probe, JobStep, DaemonInv, Ordered
  <2>2. PICK p \in Shown :
          JobStep(j, {"missing"}, IF mediaMountReadable(p) THEN Completed
                                  ELSE IF OnlyFileGone(p) THEN "dead" ELSE "unread")
    BY <1>5 DEF Probe
  <2>3. JobStep(j, {"missing"}, IF mediaMountReadable(p) THEN Completed ELSE "unread")
    BY <2>2, ProbeSound
  <2>4. Completed \in {"due", "cut"}
    BY DEF Completed
  <2> QED
    BY <1>5, <2>1, <2>3, <2>4, JobMoves DEF Probe
<1>6. CASE GivesBack(j)
  BY <1>6, JobMoves DEF GivesBack
<1>7. CASE Reads(j) \/ Abandon(j)
  <2>1. job[j] # "leased" /\ job' = [job EXCEPT ![j] = "due"] /\ Read /\ OfJob
    BY <1>7 DEF Reads, Abandon, JobStep
  <2> QED
    BY <2>1 DEF Read, OfJob, DaemonInv, TypeOK, LockHeld, Earned, Ordered, storage, serve
<1>8. CASE Count(j)
  <2>1. job[j] = "unread" /\ worker # "gone"
    BY <1>8 DEF Count, JobStep, DaemonInv, Earned, Ordered
  <2>2. Earned' /\ failures' \in 0..(Threshold - 1) /\ pause' \in 0..MaxPause
            /\ paused' \in BOOLEAN /\ unread' \in 0..(2 * Threshold)
    <3>1. unread' = Smaller(unread + 1, 2 * Threshold)
      BY <1>8, <2>1 DEF Count, Unread
    <3>2. \A i \in Jobs : job'[i] # "dead"
      BY <1>8, <2>1 DEF Count, JobStep, Completed, DaemonInv, TypeOK, Earned
    <3>3. CASE failures + 1 < Threshold
      BY <1>8, <3>1, <3>2, <3>3 DEF Count, Unread, DaemonInv, TypeOK, Earned, Smaller
    <3>4. CASE ~(failures + 1 < Threshold)
      <4>1. failures = Threshold - 1 /\ failures' = 0 /\ pause' = Longer /\ paused' = TRUE
        BY <1>8, <3>4 DEF Count, Unread, DaemonInv, TypeOK
      <4>2. paused' \in BOOLEAN
        BY <4>1, Zenon
      <4> QED
        BY <3>1, <3>2, <4>1, <4>2, LongerType DEF DaemonInv, TypeOK, Earned, Smaller
    <3> QED
      BY <3>3, <3>4
  <2> QED
    BY <1>8, <2>1, <2>2 DEF Count, JobStep, OfJob, Completed, DaemonInv, TypeOK, LockHeld, Ordered,
                            storage, serve
<1> QED
  BY <1>1, <1>2, <1>3, <1>4, <1>5, <1>6, <1>7, <1>8 DEF JobEnds

LEMMA MaintenanceStep == ASSUME DaemonInv, Maintains PROVE DaemonInv'
<1> USE DEF OfMaintenance, DaemonInv, TypeOK, LockHeld, Earned, Ordered, None, Maintenance,
            storage, breaker, serve
<1>1. CASE StartMaintenance
  BY <1>1 DEF StartMaintenance, TryLock
<1>2. CASE ReconcileBlocks
  BY <1>2 DEF ReconcileBlocks
<1>3. CASE ReconcileResumes
  BY <1>3 DEF ReconcileResumes
<1>4. CASE Reconciled
  BY <1>4 DEF Reconciled
<1> QED
  BY <1>1, <1>2, <1>3, <1>4 DEF Maintains

LEMMA DrainStep == ASSUME DaemonInv, Drains PROVE DaemonInv'
<1> USE DEF WorkerStep, DaemonInv, TypeOK, LockHeld, Earned, Ordered, Active, Running,
            storage, breaker, serve
<1>1. CASE Stops
  BY <1>1 DEF Stops
<1>2. CASE DrainEnds
  BY <1>2 DEF DrainEnds, Drained
<1>3. CASE DrainTimesOut
  BY <1>3 DEF DrainTimesOut
<1>4. CASE DrainAbandons
  BY <1>4 DEF DrainAbandons, StuckOnly
<1> QED
  BY <1>1, <1>2, <1>3, <1>4 DEF Drains

LEMMA ScanStep == ASSUME DaemonInv, NEW r \in Requests, Scans(r) PROVE DaemonInv'
<1> USE DEF RunStep, OfRequest, DaemonInv, TypeOK, LockHeld, Earned, Ordered, None, Maintenance,
            storage, breaker, serve
<1>1. CASE Accept(r) \/ Begin(r) \/ GiveUp(r)
  BY <1>1 DEF Accept, Begin, GiveUp
<1>2. CASE Lock(r)
  BY <1>2 DEF Lock
<1>3. CASE ScanBlocks(r) \/ ScanResumes(r)
  BY <1>3 DEF ScanBlocks, ScanResumes
<1>4. CASE Scanned(r) \/ Probed(r)
  BY <1>4 DEF Scanned, Probed
<1> QED
  BY <1>1, <1>2, <1>3, <1>4 DEF Scans

LEMMA InboxStep == ASSUME DaemonInv, ApplyBlocks \/ ApplyResumes PROVE DaemonInv'
BY DEF ApplyBlocks, ApplyResumes, OfInbox, DaemonInv, TypeOK, LockHeld, Earned, Ordered,
       breaker, serve

LEMMA ServeSteps == ASSUME DaemonInv, Serves PROVE DaemonInv'
<1> USE DEF ServeStep, DaemonInv, TypeOK, LockHeld, Earned, Ordered, Stages,
            storage, breaker
<1>1. CASE Signal
  BY <1>1 DEF Signal
<1>2. CASE ComponentFails
  <2>1. stopping' = (stopping \/ FALSE) /\ stopping \in BOOLEAN
    BY <1>2 DEF ComponentFails
  <2>2. stopping' = stopping
    BY <2>1, Zenon
  <2> QED
    BY <1>2, <2>2 DEF ComponentFails
<1>3. CASE HTTPStopped
  <2>1. stopping' = (stopping \/ TRUE)
    BY <1>3 DEF HTTPStopped
  <2>2. stopping' = TRUE
    BY <2>1, Zenon
  <2> QED
    BY <1>3, <2>2 DEF HTTPStopped
<1>4. CASE WorkerDone
  BY <1>4 DEF WorkerDone
<1>5. CASE ControlDone
  BY <1>5 DEF ControlDone
<1>6. CASE ManualDone
  BY <1>6 DEF ManualDone, Counted
<1>7. CASE WebhooksDone
  BY <1>7 DEF WebhooksDone
<1> QED
  BY <1>1, <1>2, <1>3, <1>4, <1>5, <1>6, <1>7 DEF Serves

-----------------------------------------------------------------------------
(* The theorems *)

LEMMA DaemonInvKept == Spec => []DaemonInv
<1>1. DaemonInv /\ [Next]_vars => DaemonInv'
  <2> SUFFICES ASSUME DaemonInv, [Next]_vars PROVE DaemonInv'
    OBVIOUS
  <2>1. CASE UNCHANGED vars
    BY <2>1 DEF DaemonInv, TypeOK, LockHeld, Earned, Ordered, vars, storage, breaker, serve
  <2>2. CASE Next
    BY <2>2, StorageStep, DispatchStep, SearchStep, MaintenanceStep, DrainStep, ScanStep,
       InboxStep, ServeSteps DEF Next
  <2> QED
    BY <2>1, <2>2
<1> QED
  BY <1>1, InitDaemonInv, PTL DEF Spec

\* The media breaker's counters stay within their bounds, and behind every
\* pause are as many failures with a cause since media was last read as the
\* threshold asks for, twice as many behind a longer pause: a file that alone is
\* gone from a directory that lists never counts (recordSearchResult,
\* mediaMountReadable).
THEOREM BreakerStaysSound == Spec => []BreakerSound
<1>1. DaemonInv => BreakerSound
  BY DEF DaemonInv, TypeOK, Earned, BreakerSound, PauseEarned
<1> QED
  BY <1>1, DaemonInvKept, PTL

\* A scheduled reconciliation and a scan never run at the same time, and the
\* lock is held exactly while one of them runs, blocked or abandoned work
\* included (WithReconcileLock).
THEOREM ReconcilesStayApart == Spec => []ReconcilesApart
<1>1. DaemonInv => ReconcilesApart
  <2> SUFFICES ASSUME DaemonInv PROVE ReconcilesApart
    OBVIOUS
  <2>1. CASE mu = None
    BY <2>1 DEF DaemonInv, TypeOK, LockHeld, ReconcilesApart, None, Maintenance
  <2>2. CASE mu = Maintenance
    BY <2>2 DEF DaemonInv, TypeOK, LockHeld, ReconcilesApart, None, Maintenance
  <2>3. CASE mu \in Requests
    BY <2>3 DEF DaemonInv, TypeOK, LockHeld, ReconcilesApart, None, Maintenance
  <2> QED
    BY <2>1, <2>2, <2>3 DEF DaemonInv, TypeOK
<1> QED
  BY <1>1, DaemonInvKept, PTL

\* A daemon that has stopped left no search running or leased and no manual run
\* going on, but for what is blocked on the storage or was cut off by the end
\* of the context (drainDaemon, waitManualSearches).
THEOREM DaemonStopsClean == Spec => []StopsClean
<1>1. DaemonInv => StopsClean
  BY DEF DaemonInv, Ordered, StopsClean, LeasesReturned, ManualDrained
<1> QED
  BY <1>1, DaemonInvKept, PTL

-----------------------------------------------------------------------------
(***************************************************************************)
(* The slots of manual searches, for any number of callers and slots.  The *)
(* inductive invariant is the conjunction of the four invariants: that a   *)
(* grant keeps the count needs that the granted caller owned no slot,      *)
(* which is what OwnersAndWaiters says of a queued caller.                 *)
(***************************************************************************)
SlotInv == SlotsTypeOK /\ SlotsConserved /\ OwnersAndWaiters /\ NoIdleSlot

\* Cardinality of the owners when one caller is added or taken away.
LEMMA OwnersCount ==
    ASSUME NEW S \in SUBSET Callers, NEW c \in Callers
    PROVE  /\ Cardinality(S) \in Nat
           /\ c \notin S => Cardinality(S \cup {c}) = Cardinality(S) + 1
           /\ c \in S => Cardinality(S \ {c}) = Cardinality(S) - 1
<1>1. IsFiniteSet(S)
  BY CallersAssumption, FS_Subset
<1>2. Cardinality(S) \in Nat
  BY <1>1, FS_CardinalityType
<1>3. c \notin S => Cardinality(S \cup {c}) = Cardinality(S) + 1
  BY <1>1, FS_AddElement
<1>4. c \in S => Cardinality(S \ {c}) = Cardinality(S) - 1
  BY <1>1, FS_RemoveElement
<1> QED
  BY <1>2, <1>3, <1>4

\* The initial state: every slot is free and nobody waits.
LEMMA InitSlots == SlotsInit => SlotInv
<1> SUFFICES ASSUME SlotsInit PROVE SlotInv
  OBVIOUS
<1>1. Cardinality(owns) = 0
  BY FS_EmptySet DEF SlotsInit
<1>2. Len(waiters) = 0
  BY DEF SlotsInit
<1> QED
  BY <1>1, <1>2, SlotsAssumption
     DEF SlotsInit, SlotInv, SlotsTypeOK, SlotsConserved, OwnersAndWaiters, NoIdleSlot, InQueue

\* Giving a slot back keeps the count, serves the queue before it frees a slot
\* and takes the served caller out of the queue.
LEMMA ReleasedKeeps ==
    ASSUME SlotInv, NEW c \in Callers, c \in owns, ~InQueue(c), Released(c),
           pc[c] # "idle", pc' = [pc EXCEPT ![c] = "idle"]
    PROVE  SlotInv'
<1> USE DEF SlotInv
<1>1. CASE waiters = <<>>
  <2>1. owns' = owns \ {c} /\ free' = free + 1 /\ waiters' = waiters
    BY <1>1 DEF Released
  <2>2. Cardinality(owns') = Cardinality(owns) - 1 /\ Cardinality(owns) \in Nat
    BY <2>1, OwnersCount DEF SlotsTypeOK
  <2>3. SlotsTypeOK'
    BY <2>1 DEF SlotsTypeOK
  <2>4. SlotsConserved'
    BY <2>1, <2>2 DEF SlotsConserved, SlotsTypeOK
  <2>5. OwnersAndWaiters'
    BY <2>1, <1>1 DEF OwnersAndWaiters, InQueue, SlotsTypeOK
  <2>6. NoIdleSlot'
    BY <2>1, <1>1 DEF NoIdleSlot
  <2> QED
    BY <2>3, <2>4, <2>5, <2>6
<1>2. CASE waiters # <<>>
  <2> DEFINE h == waiters[1]
  <2>1. /\ waiters \in Seq(Callers) /\ Len(waiters) \in Nat /\ Len(waiters) >= 1
        /\ h \in Callers /\ Head(waiters) = h
    BY <1>2 DEF SlotsTypeOK
  <2>2. owns' = (owns \ {c}) \cup {h} /\ free' = free /\ waiters' = Tail(waiters)
    BY <1>2, <2>1 DEF Released
  <2>3. /\ Len(waiters') = Len(waiters) - 1
        /\ \A i \in 1..Len(waiters') : waiters'[i] = waiters[i + 1]
        /\ waiters' \in Seq(Callers)
    BY <2>1, <2>2
  <2>4. InQueue(h) /\ h # c
    BY <2>1 DEF InQueue
  <2>5. h \notin owns /\ pc[h] \in {"waiting", "leaving"}
    BY <2>1, <2>4 DEF OwnersAndWaiters
  <2>6. Cardinality(owns') = Cardinality(owns) /\ Cardinality(owns) \in Nat
    <3>1. owns \in SUBSET Callers /\ owns \ {c} \in SUBSET Callers
      BY DEF SlotsTypeOK
    <3>2. Cardinality(owns \ {c}) = Cardinality(owns) - 1 /\ Cardinality(owns) \in Nat
      BY <3>1, OwnersCount
    <3>3. Cardinality((owns \ {c}) \cup {h}) = Cardinality(owns \ {c}) + 1
      BY <3>1, <2>1, <2>5, OwnersCount
    <3> QED
      BY <2>2, <3>2, <3>3
  <2>7. SlotsTypeOK'
    BY <2>1, <2>2, <2>3 DEF SlotsTypeOK
  <2>8. SlotsConserved'
    BY <2>2, <2>6 DEF SlotsConserved
  <2>9. OwnersAndWaiters'
    <3>1. \A i, j \in 1..Len(waiters') : waiters'[i] = waiters'[j] => i = j
      BY <2>1, <2>3 DEF OwnersAndWaiters
    <3>2. ASSUME NEW d \in Callers
          PROVE  InQueue(d)' <=> InQueue(d) /\ d # h
      <4>1. ASSUME InQueue(d)' PROVE InQueue(d) /\ d # h
        <5>1. PICK i \in 1..Len(waiters') : waiters'[i] = d
          BY <4>1 DEF InQueue
        <5>2. i + 1 \in 1..Len(waiters) /\ waiters[i + 1] = d /\ i + 1 # 1
          BY <5>1, <2>1, <2>3
        <5>3. 1 \in 1..Len(waiters)
          BY <2>1
        <5> QED
          BY <5>2, <5>3 DEF OwnersAndWaiters, InQueue
      <4>2. ASSUME InQueue(d), d # h PROVE InQueue(d)'
        <5>1. PICK i \in 1..Len(waiters) : waiters[i] = d
          BY <4>2 DEF InQueue
        <5>2. i # 1
          BY <5>1, <4>2
        <5>3. i - 1 \in 1..Len(waiters') /\ waiters'[i - 1] = d
          BY <5>1, <5>2, <2>1, <2>3
        <5> QED
          BY <5>3 DEF InQueue
      <4> QED
        BY <4>1, <4>2
    <3>3. ASSUME NEW d \in Callers
          PROVE  /\ d \in owns' => pc'[d] # "idle"
                 /\ pc'[d] = "running" => d \in owns'
                 /\ InQueue(d)' <=> pc'[d] \in {"waiting", "leaving"} /\ d \notin owns'
      BY <3>2, <2>2, <2>4, <2>5 DEF OwnersAndWaiters, SlotsTypeOK
    <3> QED
      BY <3>1, <3>3 DEF OwnersAndWaiters, InQueue
  <2>10. NoIdleSlot'
    BY <1>2, <2>2 DEF NoIdleSlot, SlotsTypeOK
  <2> QED
    BY <2>7, <2>8, <2>9, <2>10
<1> QED
  BY <1>1, <1>2

\* A caller takes a free slot or joins the end of the queue.
LEMMA AcquireKeeps ==
    ASSUME SlotInv, NEW c \in Callers, Acquire(c)
    PROVE  SlotInv'
<1> USE DEF SlotInv
<1>1. pc[c] = "idle" /\ c \notin owns /\ ~InQueue(c)
  BY DEF Acquire, OwnersAndWaiters
<1>2. CASE free > 0 /\ waiters = <<>>
  <2>1. /\ owns' = owns \cup {c} /\ free' = free - 1 /\ waiters' = waiters
        /\ pc' = [pc EXCEPT ![c] = "running"]
    BY <1>2 DEF Acquire
  <2>2. Cardinality(owns') = Cardinality(owns) + 1 /\ Cardinality(owns) \in Nat
    BY <1>1, <2>1, OwnersCount DEF SlotsTypeOK
  <2>3. SlotsTypeOK'
    BY <2>1, <1>2 DEF SlotsTypeOK
  <2>4. SlotsConserved'
    BY <2>1, <2>2 DEF SlotsConserved, SlotsTypeOK
  <2>5. OwnersAndWaiters'
    BY <1>1, <1>2, <2>1 DEF OwnersAndWaiters, InQueue, SlotsTypeOK
  <2>6. NoIdleSlot'
    BY <1>2, <2>1 DEF NoIdleSlot
  <2> QED
    BY <2>3, <2>4, <2>5, <2>6
<1>3. CASE ~(free > 0 /\ waiters = <<>>)
  <2>1. /\ waiters' = Append(waiters, c) /\ free' = free /\ owns' = owns
        /\ pc' = [pc EXCEPT ![c] = "waiting"]
    BY <1>3 DEF Acquire
  <2>2. /\ waiters \in Seq(Callers) /\ Len(waiters) \in Nat
        /\ Len(waiters') = Len(waiters) + 1 /\ waiters' \in Seq(Callers)
        /\ \A i \in 1..Len(waiters) : waiters'[i] = waiters[i]
        /\ waiters'[Len(waiters) + 1] = c
    BY <2>1 DEF SlotsTypeOK
  <2>3. SlotsTypeOK'
    BY <2>1, <2>2 DEF SlotsTypeOK
  <2>4. SlotsConserved'
    BY <2>1 DEF SlotsConserved
  <2>5. OwnersAndWaiters'
    <3>1. \A i, j \in 1..Len(waiters') : waiters'[i] = waiters'[j] => i = j
      BY <1>1, <2>2 DEF OwnersAndWaiters, InQueue
    <3>2. \A d \in Callers : InQueue(d)' <=> InQueue(d) \/ d = c
      BY <2>2 DEF InQueue
    <3>3. ASSUME NEW d \in Callers
          PROVE  /\ d \in owns' => pc'[d] # "idle"
                 /\ pc'[d] = "running" => d \in owns'
                 /\ InQueue(d)' <=> pc'[d] \in {"waiting", "leaving"} /\ d \notin owns'
      BY <3>2, <1>1, <2>1 DEF OwnersAndWaiters, SlotsTypeOK
    <3> QED
      BY <3>1, <3>3 DEF OwnersAndWaiters, InQueue
  <2>6. NoIdleSlot'
    BY <1>3, <2>1 DEF NoIdleSlot
  <2> QED
    BY <2>3, <2>4, <2>5, <2>6
<1> QED
  BY <1>2, <1>3

\* A caller that gives up leaves the others queued in their order.
LEMMA LeaveKeeps ==
    ASSUME SlotInv, NEW c \in Callers, LeaveQueue(c)
    PROVE  SlotInv'
<1> USE DEF SlotInv
<1>1. PICK k \in 1..Len(waiters) :
          /\ waiters[k] = c
          /\ waiters' = [j \in 1..(Len(waiters) - 1) |->
                            IF j < k THEN waiters[j] ELSE waiters[j + 1]]
  BY DEF LeaveQueue
<1>2. free' = free /\ owns' = owns /\ pc' = [pc EXCEPT ![c] = "idle"] /\ pc[c] = "leaving"
  BY DEF LeaveQueue
<1>3. /\ waiters \in Seq(Callers) /\ Len(waiters) \in Nat /\ Len(waiters) >= 1
      /\ \A i \in 1..Len(waiters) : waiters[i] \in Callers
  BY <1>1 DEF SlotsTypeOK
<1>4. waiters' \in Seq(Callers) /\ Len(waiters') = Len(waiters) - 1
  BY <1>1, <1>3
<1>5. InQueue(c) /\ c \notin owns
  BY <1>1 DEF InQueue, OwnersAndWaiters
<1>6. SlotsTypeOK'
  BY <1>2, <1>4 DEF SlotsTypeOK
<1>7. SlotsConserved'
  BY <1>2 DEF SlotsConserved
<1>8. OwnersAndWaiters'
  <2>1. \A i \in 1..Len(waiters') :
            waiters'[i] = IF i < k THEN waiters[i] ELSE waiters[i + 1]
    BY <1>1, <1>4
  <2>2. \A i, j \in 1..Len(waiters') : waiters'[i] = waiters'[j] => i = j
    BY <1>3, <1>4, <2>1 DEF OwnersAndWaiters
  <2>3. ASSUME NEW d \in Callers
        PROVE  InQueue(d)' <=> InQueue(d) /\ d # c
    <3>1. ASSUME InQueue(d)' PROVE InQueue(d) /\ d # c
      <4>1. PICK i \in 1..Len(waiters') : waiters'[i] = d
        BY <3>1 DEF InQueue
      <4>2. PICK m \in 1..Len(waiters) : waiters[m] = d /\ m # k
        BY <4>1, <2>1, <1>1, <1>3, <1>4
      <4> QED
        BY <4>2, <1>1 DEF OwnersAndWaiters, InQueue
    <3>2. ASSUME InQueue(d), d # c PROVE InQueue(d)'
      <4>1. PICK i \in 1..Len(waiters) : waiters[i] = d
        BY <3>2 DEF InQueue
      <4>2. i # k
        BY <4>1, <3>2, <1>1
      <4>3. CASE i < k
        <5>1. i \in 1..Len(waiters') /\ waiters'[i] = d
          BY <4>1, <4>3, <2>1, <1>1, <1>3, <1>4
        <5> QED
          BY <5>1 DEF InQueue
      <4>4. CASE i > k
        <5>1. i - 1 \in 1..Len(waiters') /\ ~(i - 1 < k) /\ (i - 1) + 1 = i
          BY <4>1, <4>4, <1>1, <1>3, <1>4
        <5>2. waiters'[i - 1] = d
          BY <5>1, <4>1, <2>1
        <5> QED
          BY <5>1, <5>2 DEF InQueue
      <4> QED
        BY <4>2, <4>3, <4>4, <4>1, <1>1
    <3> QED
      BY <3>1, <3>2
  <2>4. ASSUME NEW d \in Callers
        PROVE  /\ d \in owns' => pc'[d] # "idle"
               /\ pc'[d] = "running" => d \in owns'
               /\ InQueue(d)' <=> pc'[d] \in {"waiting", "leaving"} /\ d \notin owns'
    BY <2>3, <1>2, <1>5 DEF OwnersAndWaiters, SlotsTypeOK
  <2> QED
    BY <2>2, <2>4 DEF OwnersAndWaiters, InQueue
<1>9. NoIdleSlot'
  <2>1. waiters # <<>>
    BY <1>3
  <2> QED
    BY <2>1, <1>2 DEF NoIdleSlot, SlotsTypeOK
<1> QED
  BY <1>6, <1>7, <1>8, <1>9

\* Every step keeps the invariant.
LEMMA NextSlots == SlotInv /\ [SlotsNext]_slotVars => SlotInv'
<1> SUFFICES ASSUME SlotInv, [SlotsNext]_slotVars PROVE SlotInv'
  OBVIOUS
<1>1. CASE UNCHANGED slotVars
  BY <1>1 DEF slotVars, SlotInv, SlotsTypeOK, SlotsConserved, OwnersAndWaiters, NoIdleSlot, InQueue
<1>2. CASE SlotsNext
  <2>1. PICK c \in Callers : \/ Acquire(c) \/ Granted(c) \/ ContextEnds(c)
                             \/ LeaveQueue(c) \/ PassOn(c) \/ Finish(c)
    BY <1>2 DEF SlotsNext
  <2>2. CASE Acquire(c)
    BY <2>2, AcquireKeeps
  <2>3. CASE Granted(c)
    BY <2>3 DEF Granted, SlotInv, SlotsTypeOK, SlotsConserved, OwnersAndWaiters, NoIdleSlot, InQueue
  <2>4. CASE ContextEnds(c)
    BY <2>4 DEF ContextEnds, SlotInv, SlotsTypeOK, SlotsConserved, OwnersAndWaiters, NoIdleSlot, InQueue
  <2>5. CASE LeaveQueue(c)
    BY <2>5, LeaveKeeps
  <2>6. CASE PassOn(c)
    <3>1. c \in owns /\ ~InQueue(c) /\ pc[c] # "idle"
      BY <2>6 DEF PassOn, SlotInv, OwnersAndWaiters
    <3> QED
      BY <2>6, <3>1, ReleasedKeeps DEF PassOn
  <2>7. CASE Finish(c)
    <3>1. c \in owns /\ ~InQueue(c) /\ pc[c] # "idle"
      BY <2>7 DEF Finish, SlotInv, OwnersAndWaiters
    <3> QED
      BY <2>7, <3>1, ReleasedKeeps DEF Finish
  <2> QED
    BY <2>1, <2>2, <2>3, <2>4, <2>5, <2>6, <2>7
<1> QED
  BY <1>1, <1>2

\* For any number of callers and slots, no slot of the daemon's manual searches
\* is lost or granted twice, whenever contexts end; whoever owns one will release
\* it, and the queue is exactly the callers that wait, each once.
THEOREM SlotsKept == SlotsSpec => []SlotsSound
<1>1. SlotInv => SlotsSound
  BY DEF SlotInv, SlotsSound
<1> QED
  BY InitSlots, NextSlots, <1>1, PTL DEF SlotsSpec

\* For any number of callers and slots, a slot is free only when nobody waits.
THEOREM NoSlotIdles == SlotsSpec => []NoIdleSlot
<1>1. SlotInv => NoIdleSlot
  BY DEF SlotInv
<1> QED
  BY InitSlots, NextSlots, <1>1, PTL DEF SlotsSpec

\* For any number of callers and slots, slots are granted in the order of
\* arrival: release serves the head of the queue, and acquire passes nobody.
THEOREM FirstComeFirstServed == SlotsSpec => NoOvertaking
<1>1. SlotInv /\ [SlotsNext]_slotVars =>
        [\A c \in owns' \ owns : \A i \in 1..Len(waiters) :
            \E j \in 1..i : waiters[j] = c]_slotVars
  <2> SUFFICES ASSUME SlotInv, SlotsNext, NEW c \in owns' \ owns, NEW i \in 1..Len(waiters)
               PROVE  \E j \in 1..i : waiters[j] = c
    BY DEF slotVars
  <2>1. waiters \in Seq(Callers) /\ Len(waiters) >= 1 /\ waiters # <<>> /\ 1 \in 1..i
    BY DEF SlotInv, SlotsTypeOK
  <2>2. PICK d \in Callers : \/ Acquire(d) \/ Granted(d) \/ ContextEnds(d)
                             \/ LeaveQueue(d) \/ PassOn(d) \/ Finish(d)
    BY DEF SlotsNext
  <2>3. Released(d)
    BY <2>1, <2>2 DEF Acquire, Granted, ContextEnds, LeaveQueue, PassOn, Finish
  <2>4. owns' = (owns \ {d}) \cup {Head(waiters)}
    BY <2>1, <2>3 DEF Released
  <2>5. c = waiters[1]
    BY <2>1, <2>4
  <2> QED
    BY <2>1, <2>5
<1> QED
  BY <1>1, InitSlots, NextSlots, PTL DEF SlotsSpec, NoOvertaking

=============================================================================
