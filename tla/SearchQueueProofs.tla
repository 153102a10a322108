------------------------- MODULE SearchQueueProofs -------------------------
(***************************************************************************)
(* TLAPS proofs about SearchQueue, for every set of media, languages and   *)
(* jobs and every bound.                                                   *)
(***************************************************************************)
EXTENDS SearchQueue, TLAPS

-----------------------------------------------------------------------------
(* What the statements do to a row *)

LEMMA UnleasedType ==
    ASSUME NEW row \in RowType
    PROVE  Unleased(row) \in RowType
BY DEF Unleased, RowType

\* The events keep a row well formed.
LEMMA ScheduledType ==
    ASSUME NEW row \in RowType, NEW class \in {Upgrade, Missing, Import}
    PROVE  Scheduled(row, class) \in RowType /\ Unsupported(row, class) \in RowType
BY DEF Scheduled, Unsupported, RowType, Larger, Upgrade, Missing, Import

Results == {"done", "upgrade", "missing", "throttled", "failed", "unsupported"}

\* A completion keeps a row well formed.
LEMMA CompletedType ==
    ASSUME NEW row \in RowType, NEW deleted \in BOOLEAN, NEW result \in Results,
           NEW clear \in BOOLEAN
    PROVE  Completed(row, deleted, result, clear) \in RowType
<1>1. Unleased(row) \in RowType
  BY UnleasedType
<1>2. EndedByDelete(row) \in RowType /\ RerunDue(row) \in RowType
  BY <1>1 DEF EndedByDelete, RerunDue, RowType
<1>3. Completion(result) \in [state : {"pending", "complete"}, due : {"later", "none"},
                              class : {0, Upgrade, Missing}]
  BY DEF Completion, Results, Upgrade, Missing
<1>4. Reported(row, result, clear) \in RowType
  <2> DEFINE r == Unleased(row)
             c == Completion(result)
             class == IF c.class = 0 THEN r.class ELSE c.class
             replace == r.replace /\ ~clear
             outcome == IF result = "throttled" THEN "throttled" ELSE "ended"
  <2>1. class \in {Upgrade, Missing, Import}
    BY <1>1, <1>3 DEF RowType
  <2>2. replace \in BOOLEAN
    OBVIOUS
  <2>3. c.state \in {"pending", "complete"} /\ c.due \in {"later", "none"}
    BY <1>3
  <2>4. Reported(row, result, clear) =
            [r EXCEPT !.state = c.state, !.due = c.due, !.class = class,
                      !.outcome = outcome, !.replace = replace]
    BY DEF Reported
  <2> HIDE DEF r, c, class, replace
  <2> QED
    BY <1>1, <2>1, <2>2, <2>3, <2>4 DEF r, RowType
<1> QED
  BY <1>2, <1>4 DEF Completed

LEMMA RejectedType ==
    ASSUME NEW row \in RowType, NEW j \in Jobs
    PROVE  RejectedRow(row, j) \in RowType
BY DEF RejectedRow, Held, RowType

\* The columns that the other statements set.
LEMMA RowEdits ==
    ASSUME NEW row \in RowType
    PROVE  /\ [row EXCEPT !.due = "now"] \in RowType
           /\ [row EXCEPT !.live = FALSE] \in RowType
           /\ [row EXCEPT !.live = TRUE] \in RowType
           /\ [row EXCEPT !.replace = FALSE] \in RowType
           /\ [row EXCEPT !.state = "pending", !.due = "now"] \in RowType
           /\ [row EXCEPT !.state = "complete", !.due = "none", !.outcome = "deleted",
                          !.rerun = FALSE] \in RowType
           /\ [row EXCEPT !.state = "complete", !.due = "none", !.outcome = "ended"] \in RowType
           /\ ReplacedInPlace(row) \in RowType
BY DEF RowType, ReplacedInPlace

LEMMA LeasedType ==
    ASSUME NEW row \in RowType, NEW j \in Jobs
    PROVE  [row EXCEPT !.owner = j, !.live = TRUE, !.rerun = FALSE] \in RowType
BY DEF RowType

LEMMA NoRowType == NoRow \in RowType
BY DEF NoRow, RowType

LEMMA IdleJobType == IdleJob \in JobType
BY BoundAssumption DEF IdleJob, JobType, Phases

-----------------------------------------------------------------------------
(* Type correctness *)

\* Jobs and keys of a running job.
LEMMA RunningKey ==
    ASSUME TypeOK, NEW j \in Jobs, job[j].phase # "idle"
    PROVE  /\ job[j].key \in Keys
           /\ job[j].key[1] \in Media
           /\ searches[job[j].key] \in RowType
           /\ media[job[j].key[1]] \in MediaType
BY DEF TypeOK, Keys

LEMMA ImportType ==
    ASSUME TypeOK, NEW m \in Media, NEW ident \in 0..MaxIdent, NEW unsupported \in BOOLEAN,
           NEW class \in {Missing, Import}, ImportMutation(m, ident, unsupported, class)
    PROVE  /\ media' \in [Media -> MediaType]
           /\ searches' \in [Keys -> RowType]
           /\ changes' \in [Keys -> 0..MaxChanges]
           /\ answered' \in [Keys -> 0..MaxChanges]
           /\ gap' \in [Keys -> {"none", "settled", "inplace"}]
           /\ rejected' \in [Keys -> BOOLEAN]
<1>1. media' \in [Media -> MediaType]
  BY DEF TypeOK, MediaType, ImportMutation
<1>2. searches' \in [Keys -> RowType]
  BY ScheduledType DEF TypeOK, ImportMutation
<1>3. \A k \in KeysOf(m) : changes[k] + 1 \in 0..MaxChanges
  BY BoundAssumption DEF TypeOK, ImportMutation, KeysOf
<1>4. changes' \in [Keys -> 0..MaxChanges] /\ answered' \in [Keys -> 0..MaxChanges]
  BY <1>3 DEF TypeOK, ImportMutation
<1>5. gap' \in [Keys -> {"none", "settled", "inplace"}] /\ rejected' \in [Keys -> BOOLEAN]
  BY DEF TypeOK, ImportMutation
<1> QED
  BY <1>1, <1>2, <1>4, <1>5

LEMMA CompleteType ==
    ASSUME TypeOK, NEW j \in Jobs, job[j].phase # "idle", NEW result \in Results,
           NEW clear \in BOOLEAN, CompleteSearch(j, result, clear)
    PROVE  TypeOK'
<1> DEFINE k == job[j].key
<1>1. /\ k \in Keys /\ searches[k] \in RowType /\ media[k[1]].deleted \in BOOLEAN
  BY RunningKey DEF MediaType
<1>2. searches' \in [Keys -> RowType]
  BY <1>1, CompletedType DEF TypeOK, CompleteSearch
<1>3. answered' \in [Keys -> 0..MaxChanges]
  BY <1>1 DEF TypeOK, CompleteSearch, Larger, JobType
<1>4. rejected' \in [Keys -> BOOLEAN]
  BY <1>1 DEF TypeOK, CompleteSearch
<1>5. job' \in [Jobs -> JobType] /\ \A i \in Jobs : job'[i].phase # "idle" => job'[i].key \in Keys
  BY IdleJobType DEF TypeOK, CompleteSearch, IdleJob
<1> QED
  BY <1>2, <1>3, <1>4, <1>5 DEF TypeOK, CompleteSearch

LEMMA InitType == Init => TypeOK
BY BoundAssumption, NoRowType, IdleJobType DEF Init, TypeOK, MediaType, IdleJob

\* Every step keeps the types.
LEMMA NextType == TypeOK /\ [Next]_vars => TypeOK'
<1> SUFFICES ASSUME TypeOK, [Next]_vars PROVE TypeOK'
  OBVIOUS
<1> USE BoundAssumption
<1>1. ASSUME NEW m \in Media, ImportEvent(m) PROVE TypeOK'
  <2>1. PICK ident \in 0..MaxIdent, unsupported \in BOOLEAN :
            ImportMutation(m, ident, unsupported, Import)
    BY <1>1 DEF ImportEvent
  <2>2. UNCHANGED <<job, configured, faults>>
    BY <1>1 DEF ImportEvent
  <2> QED
    BY <2>1, <2>2, ImportType DEF TypeOK
<1>2. ASSUME NEW m \in Media, DeleteEvent(m) PROVE TypeOK'
  <2>1. searches' \in [Keys -> RowType]
    <3>1. \A k \in Keys : [searches[k] EXCEPT !.state = "complete", !.due = "none",
                              !.outcome = "deleted", !.rerun = FALSE] \in RowType
      BY RowEdits DEF TypeOK
    <3> QED
      BY <1>2, <3>1 DEF DeleteEvent, TypeOK
  <2>2. media' \in [Media -> MediaType]
    BY <1>2 DEF DeleteEvent, TypeOK, MediaType
  <2> QED
    BY <1>2, <2>1, <2>2 DEF DeleteEvent, TypeOK
<1>3. ASSUME NEW k \in Keys, BecomesDue(k) \/ LeaseExpires(k) \/ ClockJump(k) \/ UndoReject(k)
      PROVE  TypeOK'
  <2>1. /\ [searches[k] EXCEPT !.due = "now"] \in RowType
        /\ [searches[k] EXCEPT !.live = FALSE] \in RowType
        /\ [searches[k] EXCEPT !.replace = FALSE] \in RowType
    BY RowEdits DEF TypeOK
  <2>2. CASE BecomesDue(k)
    BY <2>1, <2>2 DEF BecomesDue, TypeOK, history
  <2>3. CASE LeaseExpires(k)
    BY <2>1, <2>3 DEF LeaseExpires, TypeOK, history
  <2>4. CASE ClockJump(k)
    BY <2>1, <2>4 DEF ClockJump, TypeOK, history
  <2>5. CASE UndoReject(k)
    BY <2>1, <2>5 DEF UndoReject, TypeOK
  <2> QED
    BY <1>3, <2>2, <2>3, <2>4, <2>5
<1>4. CASE RetryThrottledSearches
  <2>1. \A k \in Keys : [searches[k] EXCEPT !.state = "pending", !.due = "now"] \in RowType
    BY RowEdits DEF TypeOK
  <2> QED
    BY <1>4, <2>1 DEF RetryThrottledSearches, TypeOK, history
<1>5. CASE Crash
  BY <1>5, IdleJobType DEF Crash, TypeOK, IdleJob, history
<1>6. CASE EnsureConfiguredLanguageSearches
  <2>1. searches' \in [Keys -> RowType]
    BY <1>6, NoRowType DEF EnsureConfiguredLanguageSearches, TypeOK, RowType
  <2> QED
    BY <1>6, <2>1 DEF EnsureConfiguredLanguageSearches, TypeOK, history
<1>7. ASSUME NEW j \in Jobs, NEW k \in Keys, LeaseDueSearch(j, k) PROVE TypeOK'
  <2>1. searches' \in [Keys -> RowType]
    <3>1. [searches[k] EXCEPT !.owner = j, !.live = TRUE, !.rerun = FALSE] \in RowType
      BY LeasedType DEF TypeOK
    <3> QED
      BY <1>7, <3>1 DEF LeaseDueSearch, TypeOK
  <2>2. [IdleJob EXCEPT !.phase = "leased", !.key = k, !.seen = changes[k],
                        !.replace = searches[k].replace] \in JobType
    BY IdleJobType DEF TypeOK, RowType, JobType, Phases
  <2> QED
    BY <1>7, <2>1, <2>2 DEF LeaseDueSearch, TypeOK, history, IdleJob
<1>8. ASSUME NEW j \in Jobs, NEW k \in Keys, ResolveManual(j, k) PROVE TypeOK'
  <2>1. PICK ident \in 0..MaxIdent, unsupported \in BOOLEAN :
            job' = [job EXCEPT ![j] = [IdleJob EXCEPT !.phase = "resolving", !.key = k,
                                                      !.ident = ident, !.unsupported = unsupported]]
    BY <1>8 DEF ResolveManual
  <2>2. [IdleJob EXCEPT !.phase = "resolving", !.key = k, !.ident = ident, !.unsupported = unsupported] \in JobType
    BY IdleJobType DEF JobType, Phases
  <2> QED
    BY <1>8, <2>1, <2>2 DEF ResolveManual, TypeOK, history, IdleJob
<1>9. ASSUME NEW j \in Jobs, NEW k \in Keys, PrepareReject(j, k) PROVE TypeOK'
  <2>1. [IdleJob EXCEPT !.phase = "rejecting", !.key = k, !.ident = media[k[1]].ident] \in JobType
    BY IdleJobType DEF JobType, Phases, TypeOK, MediaType, Keys
  <2> QED
    BY <1>9, <2>1 DEF PrepareReject, TypeOK, history, IdleJob
<1>10. ASSUME NEW j \in Jobs, RenewSearchLease(j) \/ LoseLease(j) \/ CancelJob(j) \/ AbandonJob(j)
       PROVE  TypeOK'
  <2>1. job[j].key \in Keys
    BY <1>10 DEF RenewSearchLease, LoseLease, CancelJob, AbandonJob, TypeOK, RunPhases
  <2>2. /\ Unleased(searches[job[j].key]) \in RowType
        /\ [searches[job[j].key] EXCEPT !.live = TRUE] \in RowType
    BY <2>1, UnleasedType, RowEdits DEF TypeOK
  <2>3. CASE RenewSearchLease(j)
    BY <2>2, <2>3 DEF RenewSearchLease, TypeOK, history
  <2>4. CASE LoseLease(j)
    BY <2>4, IdleJobType DEF LoseLease, TypeOK, history, IdleJob
  <2>5. CASE CancelJob(j)
    BY <2>2, <2>5, IdleJobType DEF CancelJob, Released, TypeOK, history, IdleJob
  <2>6. CASE AbandonJob(j)
    BY <2>6, IdleJobType DEF AbandonJob, TypeOK, history, IdleJob
  <2> QED
    BY <1>10, <2>3, <2>4, <2>5, <2>6
<1>11. ASSUME NEW j \in Jobs,
              LoadMedia(j) \/ RefreshStale(j) \/ RefreshInventory(j) \/ StartManual(j) \/ ReadReplace(j)
       PROVE  TypeOK'
  <2>1. /\ job[j].key \in Keys /\ media[job[j].key[1]] \in MediaType
        /\ searches[job[j].key] \in RowType
    BY <1>11, RunningKey
       DEF LoadMedia, RefreshStale, RefreshInventory, StartManual, ReadReplace
  <2>2. /\ changes[job[j].key] \in 0..MaxChanges /\ job[j] \in JobType
        /\ media[job[j].key[1]].ident \in 0..MaxIdent
        /\ searches[job[j].key].replace \in BOOLEAN
        /\ (job[j].revived \/ searches[job[j].key].state = "absent") \in BOOLEAN
    BY <2>1 DEF TypeOK, MediaType, RowType
  <2> DEFINE Keeps(v) == v \in JobType /\ v.key = job[j].key
  <2>3. \A v : Keeps(v) /\ job' = [job EXCEPT ![j] = v] =>
            /\ job' \in [Jobs -> JobType]
            /\ \A i \in Jobs : job'[i].phase # "idle" => job'[i].key \in Keys
    BY <2>1 DEF TypeOK
  <2>4. \E v : Keeps(v) /\ job' = [job EXCEPT ![j] = v]
    <3>1. CASE LoadMedia(j)
      <4>1. \A phase \in Phases : Keeps([job[j] EXCEPT !.phase = phase,
                                           !.ident = media[job[j].key[1]].ident])
        BY <2>2 DEF JobType
      <4> QED
        BY <3>1, <4>1 DEF LoadMedia, Phases
    <3>2. CASE RefreshStale(j)
      <4>1. Keeps([job[j] EXCEPT !.phase = "failed"])
        BY <2>2 DEF JobType, Phases
      <4> QED
        BY <3>2, <4>1 DEF RefreshStale
    <3>3. CASE RefreshInventory(j)
      <4>1. Keeps([job[j] EXCEPT !.phase = "searching", !.seen = changes[job[j].key]])
        BY <2>2 DEF JobType, Phases
      <4> QED
        BY <3>3, <4>1 DEF RefreshInventory
    <3>4. CASE StartManual(j)
      <4>1. \A b \in BOOLEAN : Keeps([job[j] EXCEPT !.phase = "claiming", !.revived = b])
        BY <2>2 DEF JobType, Phases
      <4>2. job' = [job EXCEPT ![j] = [job[j] EXCEPT !.phase = "claiming",
                        !.revived = job[j].revived \/ searches[job[j].key].state = "absent"]]
        BY <3>4 DEF StartManual
      <4> QED
        BY <2>2, <4>1, <4>2, Zenon
    <3>5. CASE ReadReplace(j)
      <4>1. Keeps([job[j] EXCEPT !.phase = "loaded", !.replace = searches[job[j].key].replace])
        BY <2>2 DEF JobType, Phases
      <4> QED
        BY <3>5, <4>1 DEF ReadReplace
    <3> QED
      BY <1>11, <3>1, <3>2, <3>3, <3>4, <3>5
  <2>5. UNCHANGED <<media, searches, configured, faults, changes, answered, gap, rejected>>
    BY <1>11 DEF LoadMedia, RefreshStale, RefreshInventory, StartManual, ReadReplace, history
  <2> QED
    BY <2>3, <2>4, <2>5 DEF TypeOK
<1>12. ASSUME NEW j \in Jobs, RefreshReplacedInPlace(j) PROVE TypeOK'
  <2>1. job[j].key \in Keys /\ job[j] \in JobType
    BY <1>12, RunningKey DEF RefreshReplacedInPlace, TypeOK
  <2>2. searches' \in [Keys -> RowType] /\ gap' \in [Keys -> {"none", "settled", "inplace"}]
    <3>1. \A k \in Keys : ReplacedInPlace(searches[k]) \in RowType
      BY RowEdits DEF TypeOK
    <3> QED
      BY <1>12, <3>1 DEF RefreshReplacedInPlace, TypeOK
  <2>3. changes' \in [Keys -> 0..MaxChanges]
    BY <1>12 DEF RefreshReplacedInPlace, TypeOK
  <2>4. job' = [job EXCEPT ![j].phase = "searching", ![j].seen = changes'[job[j].key]]
    BY <1>12 DEF RefreshReplacedInPlace
  <2>5. job' \in [Jobs -> JobType] /\ \A i \in Jobs : job'[i].phase # "idle" => job'[i].key \in Keys
    BY <2>1, <2>3, <2>4 DEF TypeOK, JobType, Phases
  <2> QED
    BY <1>12, <2>2, <2>3, <2>5 DEF RefreshReplacedInPlace, TypeOK
<1>13. ASSUME NEW j \in Jobs, FinishWorkerJob(j) \/ FinishManual(j) PROVE TypeOK'
  <2>1. job[j].phase # "idle" /\ job[j].replace \in BOOLEAN
    BY <1>13 DEF FinishWorkerJob, FinishManual, TypeOK, JobType
  <2>2. PICK result \in Results, clear \in BOOLEAN : CompleteSearch(j, result, clear)
    BY <1>13, <2>1 DEF FinishWorkerJob, FinishManual, Results
  <2> QED
    BY <2>1, <2>2, CompleteType
<1>14. ASSUME NEW j \in Jobs, ReviveManual(j) PROVE TypeOK'
  <2>1. job[j].key \in Keys /\ job[j].key[1] \in Media /\ job[j] \in JobType
    BY <1>14, RunningKey DEF ReviveManual, TypeOK
  <2>2. job' \in [Jobs -> JobType] /\ \A i \in Jobs : job'[i].phase # "idle" => job'[i].key \in Keys
    BY <1>14, <2>1 DEF ReviveManual, TypeOK, JobType, Phases
  <2>3. CASE UNCHANGED <<media, searches, history>>
    BY <1>14, <2>2, <2>3 DEF ReviveManual, TypeOK, history
  <2>4. CASE ImportMutation(job[j].key[1], job[j].ident, job[j].unsupported, Missing)
    <3>1. job[j].ident \in 0..MaxIdent /\ job[j].unsupported \in BOOLEAN
      BY <2>1 DEF JobType
    <3> QED
      BY <1>14, <2>1, <2>2, <2>4, <3>1, ImportType DEF ReviveManual, TypeOK
  <2> QED
    BY <1>14, <2>3, <2>4 DEF ReviveManual
<1>15. ASSUME NEW j \in Jobs, UpsertManual(j) PROVE TypeOK'
  <2>1. job[j].key \in Keys /\ job[j].key[1] \in Media /\ job[j] \in JobType
    BY <1>15, RunningKey DEF UpsertManual, TypeOK
  <2>2. media' \in [Media -> MediaType]
    <3>1. /\ job[j].ident \in 0..MaxIdent
          /\ job[j].unsupported \in BOOLEAN
      BY <2>1 DEF JobType, TypeOK
    <3>2. [deleted |-> FALSE, unsupported |-> job[j].unsupported, ident |-> job[j].ident] \in MediaType
      BY <3>1 DEF MediaType
    <3> QED
      BY <1>15, <2>1, <3>2 DEF UpsertManual, TypeOK
  <2> QED
    BY <1>15, <2>1, <2>2 DEF UpsertManual, TypeOK, JobType, Phases, history
<1>16. ASSUME NEW j \in Jobs, RecordReject(j) PROVE TypeOK'
  <2>1. job[j].key \in Keys /\ job[j].key[1] \in Media /\ job[j] \in JobType
    BY <1>16, RunningKey DEF RecordReject, TypeOK
  <2>2. searches' \in [Keys -> RowType]
    BY <1>16, <2>1, RejectedType DEF RecordReject, TypeOK
  <2>3. changes[job[j].key] + 1 \in 0..MaxChanges /\ Active(job[j].key[1]) \in BOOLEAN
    BY <1>16, <2>1 DEF RecordReject, TypeOK, Active
  <2>4. job' \in [Jobs -> JobType] /\ \A i \in Jobs : job'[i].phase # "idle" => job'[i].key \in Keys
    BY <1>16, <2>1, <2>3 DEF RecordReject, TypeOK, JobType, Phases
  <2> QED
    BY <1>16, <2>1, <2>2, <2>3, <2>4 DEF RecordReject, TypeOK
<1>17. ASSUME NEW j \in Jobs, ClaimSearch(j) PROVE TypeOK'
  <2>1. job[j].key \in Keys /\ job[j] \in JobType /\ searches[job[j].key] \in RowType
    BY <1>17, RunningKey DEF ClaimSearch, TypeOK
  <2>2. searches' \in [Keys -> RowType]
    BY <1>17, <2>1, NoRowType DEF ClaimSearch, TypeOK, RowType
  <2>3. job' \in [Jobs -> JobType] /\ \A i \in Jobs : job'[i].phase # "idle" => job'[i].key \in Keys
    BY <1>17, <2>1 DEF ClaimSearch, TypeOK, JobType, Phases
  <2> QED
    BY <1>17, <2>2, <2>3 DEF ClaimSearch, TypeOK, history
<1>18. ASSUME NEW j \in Jobs, FailManual(j) \/ ReleaseManual(j) PROVE TypeOK'
  <2>1. job[j].key \in Keys /\ job[j] \in JobType
    BY <1>18, RunningKey DEF FailManual, ReleaseManual, TypeOK
  <2>2. searches' \in [Keys -> RowType]
    BY <1>18, <2>1, UnleasedType DEF FailManual, ReleaseManual, Released, TypeOK
  <2>3. job' \in [Jobs -> JobType] /\ \A i \in Jobs : job'[i].phase # "idle" => job'[i].key \in Keys
    <3>1. \/ job' = [job EXCEPT ![j] = IdleJob]
          \/ job' = [job EXCEPT ![j] = [@ EXCEPT !.phase = "upgrading"]]
      BY <1>18 DEF FailManual, ReleaseManual
    <3>2. [job[j] EXCEPT !.phase = "upgrading"] \in JobType
          /\ [job[j] EXCEPT !.phase = "upgrading"].key = job[j].key
      BY <2>1 DEF JobType, Phases
    <3> QED
      <4>1. CASE job' = [job EXCEPT ![j] = IdleJob]
        BY <4>1, IdleJobType DEF TypeOK, IdleJob
      <4>2. CASE job' = [job EXCEPT ![j] = [@ EXCEPT !.phase = "upgrading"]]
        BY <2>1, <4>2, <3>2 DEF TypeOK
      <4> QED
        BY <3>1, <4>1, <4>2
  <2> QED
    BY <1>18, <2>2, <2>3 DEF FailManual, ReleaseManual, TypeOK, history
<1>19. ASSUME NEW j \in Jobs, SettlePendingSearch(j) PROVE TypeOK'
  <2>1. job[j].key \in Keys /\ job[j] \in JobType /\ searches[job[j].key] \in RowType
    BY <1>19, RunningKey DEF SettlePendingSearch, TypeOK
  <2>2. searches' \in [Keys -> RowType]
    <3>1. [Unleased(searches[job[j].key]) EXCEPT !.state = "complete", !.due = "none",
                                                 !.outcome = "ended"] \in RowType
      BY <2>1, UnleasedType, RowEdits
    <3> QED
      BY <1>19, <2>1, <3>1 DEF SettlePendingSearch, TypeOK
  <2>3. answered' \in [Keys -> 0..MaxChanges]
    BY <1>19, <2>1 DEF SettlePendingSearch, TypeOK, Larger, JobType
  <2>4. gap' \in [Keys -> {"none", "settled", "inplace"}]
    BY <1>19, <2>1 DEF SettlePendingSearch, TypeOK
  <2>5. job' \in [Jobs -> JobType] /\ \A i \in Jobs : job'[i].phase # "idle" => job'[i].key \in Keys
    BY <1>19, <2>1 DEF SettlePendingSearch, TypeOK, JobType, Phases
  <2> QED
    BY <1>19, <2>2, <2>3, <2>4, <2>5 DEF SettlePendingSearch, TypeOK
<1>20. ASSUME NEW j \in Jobs, EnsureUpgradeSearch(j) PROVE TypeOK'
  <2>1. job[j].key \in Keys /\ searches[job[j].key] \in RowType
    BY <1>20, RunningKey DEF EnsureUpgradeSearch
  <2>2. searches' \in [Keys -> RowType]
    BY <1>20, <2>1 DEF EnsureUpgradeSearch, TypeOK, RowType
  <2> QED
    BY <1>20, <2>2, IdleJobType DEF EnsureUpgradeSearch, TypeOK, history, IdleJob
<1>21. CASE UNCHANGED vars
  BY <1>21 DEF TypeOK, vars, history
<1> QED
  BY <1>1, <1>2, <1>3, <1>4, <1>5, <1>6, <1>7, <1>8, <1>9, <1>10, <1>11, <1>12, <1>13,
     <1>14, <1>15, <1>16, <1>17, <1>18, <1>19, <1>20, <1>21 DEF Next

\* Every reachable state is well typed: rows, jobs and history keep their
\* shape through every statement of the store and every job step.
THEOREM TypeCorrect == Spec => []TypeOK
BY InitType, NextType, PTL DEF Spec

-----------------------------------------------------------------------------
(* No lost change *)

\* NoLostChange alone is not inductive: whether a completion may replace the
\* schedule depends on what its job has seen, which OwnerUpToDate records.
ChangeInv == TypeOK /\ NoLostChange /\ OwnerUpToDate

\* The two parts for one search and one job.
Queued(row) == row.state = "pending" /\ row.due = "now" /\ row.class # Upgrade

Covers(j) ==
    (/\ job[j].phase \in RunPhases /\ searches[job[j].key].owner = j
     /\ ~searches[job[j].key].rerun /\ gap[job[j].key] = "none") =>
        Larger(answered[job[j].key], job[j].seen) >= changes[job[j].key]

LEMMA ChangeParts ==
    /\ NoLostChange <=> \A k \in Keys : Unanswered(k) => Queued(searches[k])
    /\ OwnerUpToDate <=> \A j \in Jobs : Covers(j)
BY DEF NoLostChange, OwnerUpToDate, Queued, Covers

\* A step that leaves the history alone keeps the invariant when it keeps
\* every queued row queued and gives no run a search it has not seen.
LEMMA ChangeFrame ==
    ASSUME ChangeInv, TypeOK', UNCHANGED <<changes, answered, gap>>,
           \A k \in Keys : Queued(searches[k]) => Queued(searches'[k]),
           \A j \in Jobs :
                \/ job'[j].phase \notin RunPhases
                \/ searches'[job'[j].key].owner # j
                \/ /\ job[j].phase \in RunPhases /\ job'[j].key = job[j].key
                   /\ job'[j].seen = job[j].seen
                   /\ searches[job[j].key].owner = j
                   /\ searches'[job[j].key].rerun = searches[job[j].key].rerun
                \/ job'[j].seen = changes[job'[j].key]
    PROVE  ChangeInv'
<1>1. NoLostChange'
  BY DEF ChangeInv, NoLostChange, Queued, Unanswered
<1>2. ASSUME NEW j \in Jobs PROVE Covers(j)'
  <2>1. Covers(j)
    BY ChangeParts DEF ChangeInv
  <2>2. job'[j].phase \in RunPhases => job'[j].key \in Keys
    BY DEF TypeOK, RunPhases
  <2>3. \A k \in Keys : changes[k] \in Int /\ answered[k] \in Int
    BY DEF ChangeInv, TypeOK
  <2>4. job'[j].seen \in Int
    BY DEF TypeOK, JobType
  <2> QED
    BY <2>1, <2>2, <2>3, <2>4 DEF Covers, Larger
<1>3. OwnerUpToDate'
  BY <1>2 DEF OwnerUpToDate, Covers
<1> QED
  BY <1>1, <1>3 DEF ChangeInv

\* The rows and jobs that the frame condition speaks of are well formed.
LEMMA ChangeTypes ==
    ASSUME ChangeInv
    PROVE  /\ TypeOK
           /\ \A k \in Keys : searches[k] \in RowType
           /\ \A j \in Jobs : job[j] \in JobType
           /\ \A j \in Jobs : job[j].phase \in RunPhases => job[j].key \in Keys
BY DEF ChangeInv, TypeOK, RunPhases

\* What the statements do to the columns that the invariant reads.
Keeps(old, new) ==
    /\ Queued(old) => Queued(new)
    /\ new.owner = old.owner /\ new.rerun = old.rerun

LEMMA KeptRow ==
    ASSUME NEW row \in RowType
    PROVE  /\ Keeps(row, row)
           /\ Keeps(row, [row EXCEPT !.due = "now"])
           /\ Keeps(row, [row EXCEPT !.live = FALSE])
           /\ Keeps(row, [row EXCEPT !.live = TRUE])
           /\ Keeps(row, [row EXCEPT !.replace = FALSE])
           /\ Keeps(row, [row EXCEPT !.state = "pending", !.due = "now"])
BY DEF Keeps, Queued, RowType

LEMMA LeasedRow ==
    ASSUME NEW row \in RowType, NEW j \in Jobs
    PROVE  /\ [row EXCEPT !.owner = j, !.live = TRUE, !.rerun = FALSE].owner = j
           /\ Queued(row) => Queued([row EXCEPT !.owner = j, !.live = TRUE, !.rerun = FALSE])
BY DEF Queued, RowType

LEMMA UnleasedRow ==
    ASSUME NEW row \in RowType
    PROVE  /\ Unleased(row).owner = NoJob
           /\ Queued(row) => Queued(Unleased(row))
BY DEF Queued, RowType, Unleased

LEMMA KeepsFrame ==
    ASSUME ChangeInv, TypeOK', UNCHANGED <<changes, answered, gap, job>>,
           \A k \in Keys : Keeps(searches[k], searches'[k])
    PROVE  ChangeInv'
BY ChangeTypes, ChangeFrame DEF Keeps

\* Time, the owner's commands and startup.
LEMMA ChangeTime ==
    ASSUME ChangeInv, TypeOK',
           \/ \E k \in Keys : BecomesDue(k) \/ LeaseExpires(k) \/ ClockJump(k) \/ UndoReject(k)
           \/ RetryThrottledSearches \/ Crash \/ EnsureConfiguredLanguageSearches
    PROVE  ChangeInv'
<1>1. ASSUME NEW k \in Keys, BecomesDue(k) \/ LeaseExpires(k) \/ ClockJump(k) \/ UndoReject(k)
      PROVE  ChangeInv'
  <2>1. UNCHANGED <<changes, answered, gap, job>>
    BY <1>1 DEF BecomesDue, LeaseExpires, ClockJump, UndoReject, history
  <2>2. \A q \in Keys \ {k} : searches'[q] = searches[q]
    BY <1>1, ChangeTypes DEF BecomesDue, LeaseExpires, ClockJump, UndoReject, TypeOK
  <2>3. \/ searches'[k] = [searches[k] EXCEPT !.due = "now"]
        \/ searches'[k] = [searches[k] EXCEPT !.live = FALSE]
        \/ searches'[k] = [searches[k] EXCEPT !.replace = FALSE]
    BY <1>1, ChangeTypes DEF BecomesDue, LeaseExpires, ClockJump, UndoReject, TypeOK
  <2>4. searches[k] \in RowType
    BY ChangeTypes
  <2>5. Keeps(searches[k], searches'[k])
    BY <2>3, <2>4 DEF Keeps, Queued, RowType
  <2>6. \A q \in Keys : Keeps(searches[q], searches'[q])
    BY <2>2, <2>5 DEF Keeps
  <2> QED
    BY <2>1, <2>6, KeepsFrame
<1>2. CASE RetryThrottledSearches
  <2>1. UNCHANGED <<changes, answered, gap, job>>
    BY <1>2 DEF RetryThrottledSearches, history
  <2>2. \A k \in Keys : searches'[k] \in {searches[k],
                                          [searches[k] EXCEPT !.state = "pending", !.due = "now"]}
    BY <1>2 DEF RetryThrottledSearches
  <2>3. \A q \in Keys : Keeps(searches[q], searches'[q])
    BY <2>2, ChangeTypes, KeptRow
  <2> QED
    BY <2>1, <2>3, KeepsFrame
<1>3. CASE Crash
  <2>1. UNCHANGED <<changes, answered, gap, searches>> /\ \A j \in Jobs : job'[j].phase = "idle"
    BY <1>3 DEF Crash, history, IdleJob
  <2> QED
    BY <2>1, ChangeFrame DEF RunPhases
<1>4. CASE EnsureConfiguredLanguageSearches
  <2>1. /\ UNCHANGED <<changes, answered, gap, job>>
        /\ \A k \in Keys : searches'[k] = searches[k] \/ ~Queued(searches[k])
        /\ \A k \in Keys : searches'[k] = searches[k] \/ searches'[k].owner = NoJob
    BY <1>4 DEF EnsureConfiguredLanguageSearches, Backfilled, history, Queued, NoRow
  <2> QED
    BY <2>1, ChangeTypes, ChangeFrame, JobsAssumption
<1> QED
  BY <1>1, <1>2, <1>3, <1>4

\* Steps of one job that record nothing.
LEMMA ChangeJobStep ==
    ASSUME ChangeInv, TypeOK', NEW j \in Jobs,
           \/ \E k \in Keys : ResolveManual(j, k) \/ PrepareReject(j, k) \/ LeaseDueSearch(j, k)
           \/ RenewSearchLease(j) \/ LoseLease(j) \/ CancelJob(j) \/ AbandonJob(j)
           \/ LoadMedia(j) \/ RefreshStale(j) \/ RefreshInventory(j)
           \/ UpsertManual(j) \/ StartManual(j) \/ ClaimSearch(j) \/ ReadReplace(j)
           \/ FailManual(j) \/ ReleaseManual(j) \/ EnsureUpgradeSearch(j)
    PROVE  ChangeInv'
<1> USE ChangeTypes
<1>1. ASSUME NEW k \in Keys, ResolveManual(j, k) \/ PrepareReject(j, k) PROVE ChangeInv'
  <2>1. /\ UNCHANGED <<changes, answered, gap, searches>>
        /\ job'[j].phase \notin RunPhases
        /\ \A i \in Jobs \ {j} : job'[i] = job[i]
    BY <1>1 DEF ResolveManual, PrepareReject, history, RunPhases, IdleJob, TypeOK
  <2> QED
    BY <2>1, ChangeFrame
<1>2. ASSUME NEW k \in Keys, LeaseDueSearch(j, k) PROVE ChangeInv'
  <2>1. /\ UNCHANGED <<changes, answered, gap>>
        /\ job'[j].key = k /\ job'[j].seen = changes[k]
        /\ \A i \in Jobs \ {j} : job'[i] = job[i]
    BY <1>2 DEF LeaseDueSearch, history, IdleJob, TypeOK
  <2>2. /\ \A q \in Keys \ {k} : searches'[q] = searches[q]
        /\ searches'[k] = [searches[k] EXCEPT !.owner = j, !.live = TRUE, !.rerun = FALSE]
    BY <1>2 DEF LeaseDueSearch, TypeOK
  <2>3. searches[k] \in RowType
    OBVIOUS
  <2>4. searches'[k].owner = j /\ (Queued(searches[k]) => Queued(searches'[k]))
    BY <2>2, <2>3 DEF RowType, Queued
  <2>5. \A q \in Keys : Queued(searches[q]) => Queued(searches'[q])
    BY <2>2, <2>4
  <2>6. ASSUME NEW i \in Jobs \ {j}, job'[i].phase \in RunPhases, searches'[job'[i].key].owner = i
        PROVE  /\ job[i].phase \in RunPhases /\ job'[i].key = job[i].key
               /\ job'[i].seen = job[i].seen
               /\ searches'[job[i].key] = searches[job[i].key]
    <3>1. job'[i] = job[i] /\ job[i].key \in Keys
      BY <2>1, <2>6
    <3>2. job[i].key # k
      BY <2>4, <2>6, <3>1
    <3> QED
      BY <2>2, <2>6, <3>1, <3>2
  <2> QED
    BY <2>1, <2>5, <2>6, ChangeFrame
<1>3. CASE RenewSearchLease(j)
  <2>1. job[j].key \in Keys
    BY <1>3 DEF RenewSearchLease
  <2>2. UNCHANGED <<changes, answered, gap, job>>
    BY <1>3 DEF RenewSearchLease, history
  <2>3. \A q \in Keys : searches'[q] \in {searches[q], [searches[q] EXCEPT !.live = TRUE]}
    BY <1>3, <2>1 DEF RenewSearchLease, TypeOK
  <2>4. \A q \in Keys : Keeps(searches[q], searches'[q])
    BY <2>3, KeptRow
  <2> QED
    BY <2>2, <2>4, KeepsFrame
<1>4. CASE LoseLease(j) \/ AbandonJob(j)
  <2>1. /\ UNCHANGED <<changes, answered, gap, searches>>
        /\ job'[j].phase \notin RunPhases
        /\ \A i \in Jobs \ {j} : job'[i] = job[i]
    BY <1>4 DEF LoseLease, AbandonJob, history, RunPhases, IdleJob, TypeOK
  <2> QED
    BY <2>1, ChangeFrame
<1>5. CASE CancelJob(j) \/ FailManual(j) \/ ReleaseManual(j)
  <2>1. job[j].key \in Keys
    BY <1>5, RunningKey DEF CancelJob, FailManual, ReleaseManual
  <2>2. /\ UNCHANGED <<changes, answered, gap>>
        /\ job'[j].phase \notin RunPhases
        /\ \A i \in Jobs \ {j} : job'[i] = job[i]
        /\ searches' = Released(job[j].key, j)
    BY <1>5 DEF CancelJob, FailManual, ReleaseManual, history, RunPhases, IdleJob, TypeOK, JobType
  <2>3. \A q \in Keys : /\ Queued(searches[q]) => Queued(searches'[q])
                        /\ searches'[q] = searches[q] \/ searches'[q].owner = NoJob
    <3>1. \A q \in Keys : searches'[q] \in {searches[q], Unleased(searches[q])}
      BY <2>1, <2>2 DEF Released, TypeOK
    <3> QED
      BY <3>1, UnleasedRow
  <2> QED
    BY <2>2, <2>3, ChangeFrame, JobsAssumption
<1>6. CASE LoadMedia(j) \/ RefreshStale(j) \/ RefreshInventory(j) \/ ReadReplace(j)
  <2>1. /\ UNCHANGED <<changes, answered, gap, searches>>
        /\ \A i \in Jobs \ {j} : job'[i] = job[i]
        /\ job[j].phase \in RunPhases /\ job'[j].key = job[j].key
        /\ job'[j].seen \in {job[j].seen, changes[job[j].key]}
    BY <1>6 DEF LoadMedia, RefreshStale, RefreshInventory, ReadReplace, history, RunPhases,
        TypeOK, JobType
  <2> QED
    BY <2>1, ChangeFrame
<1>7. CASE UpsertManual(j) \/ StartManual(j)
  <2>1. /\ UNCHANGED <<changes, answered, gap, searches>>
        /\ job'[j].phase \notin RunPhases
        /\ \A i \in Jobs \ {j} : job'[i] = job[i]
    BY <1>7 DEF UpsertManual, StartManual, history, RunPhases, TypeOK, JobType
  <2> QED
    BY <2>1, ChangeFrame
<1>8. CASE ClaimSearch(j)
  <2>1. job[j].key \in Keys
    BY <1>8, RunningKey DEF ClaimSearch
  <2>2. /\ UNCHANGED <<changes, answered, gap>>
        /\ \A i \in Jobs \ {j} : job'[i] = job[i]
        /\ job'[j].key = job[j].key /\ job'[j].seen = changes[job[j].key]
    BY <1>8 DEF ClaimSearch, history, TypeOK, JobType
  <2>3. /\ \A q \in Keys \ {job[j].key} : searches'[q] = searches[q]
        /\ searches'[job[j].key].owner = j
        /\ Queued(searches[job[j].key]) => Queued(searches'[job[j].key])
    <3> DEFINE row == searches[job[j].key]
               fresh == [NoRow EXCEPT !.state = "pending", !.due = "now", !.class = Missing]
               queued == IF row.state = "absent" THEN fresh ELSE row
    <3>1. row \in RowType /\ fresh \in RowType
      BY <2>1, NoRowType DEF RowType
    <3>2. queued \in RowType /\ (Queued(row) => queued = row)
      BY <3>1 DEF Queued
    <3>3. searches' = [searches EXCEPT ![job[j].key] =
                            [queued EXCEPT !.owner = j, !.live = TRUE, !.rerun = FALSE]]
      BY <1>8 DEF ClaimSearch
    <3> HIDE DEF queued
    <3> QED
      BY <2>1, <3>2, <3>3, LeasedRow DEF TypeOK
  <2> QED
    BY <2>2, <2>3, ChangeFrame
<1>9. CASE EnsureUpgradeSearch(j)
  <2>1. job[j].key \in Keys
    BY <1>9, RunningKey DEF EnsureUpgradeSearch
  <2>2. /\ UNCHANGED <<changes, answered, gap>>
        /\ job'[j].phase \notin RunPhases
        /\ \A i \in Jobs \ {j} : job'[i] = job[i]
    BY <1>9 DEF EnsureUpgradeSearch, history, RunPhases, IdleJob, TypeOK
  <2>3. \A q \in Keys : /\ Queued(searches[q]) => Queued(searches'[q])
                        /\ searches'[q] = searches[q] \/ searches'[q].owner = NoJob
    <3>1. \A q \in Keys \ {job[j].key} : searches'[q] = searches[q]
      BY <1>9, <2>1 DEF EnsureUpgradeSearch, TypeOK
    <3>2. \/ searches'[job[j].key] = searches[job[j].key]
          \/ /\ searches[job[j].key].owner = NoJob /\ searches[job[j].key].state # "pending"
             /\ searches'[job[j].key] =
                    [searches[job[j].key] EXCEPT !.state = "pending", !.due = "later",
                            !.class = Upgrade, !.outcome = "", !.rerun = FALSE]
      BY <1>9, <2>1 DEF EnsureUpgradeSearch, TypeOK
    <3>3. /\ Queued(searches[job[j].key]) => Queued(searches'[job[j].key])
          /\ searches'[job[j].key] = searches[job[j].key] \/ searches'[job[j].key].owner = NoJob
      BY <2>1, <3>2 DEF Queued, RowType
    <3> QED
      BY <2>1, <3>1, <3>3
  <2> QED
    BY <2>2, <2>3, ChangeFrame, JobsAssumption
<1> QED
  BY <1>1, <1>2, <1>3, <1>4, <1>5, <1>6, <1>7, <1>8, <1>9

\* A step keeps the invariant when it does so for every search and every job.
LEMMA ChangePointwise ==
    ASSUME TypeOK', \A k \in Keys : Unanswered(k)' => Queued(searches'[k]),
           \A j \in Jobs : Covers(j)'
    PROVE  ChangeInv'
<1>1. NoLostChange'
  BY DEF NoLostChange, Queued
<1>2. OwnerUpToDate'
  BY DEF OwnerUpToDate, Covers
<1> QED
  BY <1>1, <1>2 DEF ChangeInv

\* An event leaves a row queued or ended, and asks its owner to run again.
LEMMA EventRow ==
    ASSUME NEW row \in RowType, NEW class \in {Missing, Import}, NEW unsupported \in BOOLEAN
    PROVE  LET new == IF unsupported THEN Unsupported(row, class) ELSE Scheduled(row, class)
           IN  /\ new.state = "complete" \/ Queued(new)
               /\ new.owner = row.owner
               /\ row.owner # NoJob => new.rerun
<1>1. /\ Queued(Scheduled(row, class)) /\ Scheduled(row, class).owner = row.owner
      /\ row.owner # NoJob => Scheduled(row, class).rerun
  <2> DEFINE larger == Larger(row.class, class)
             rerun == row.owner # NoJob
  <2>1. larger \in {2, 3}
    <3>1. row.class \in {1, 2, 3} /\ class \in {2, 3}
      BY DEF RowType, Upgrade, Missing, Import
    <3> QED
      BY <3>1 DEF Larger
  <2>2. rerun \in BOOLEAN /\ (row.owner # NoJob => rerun)
    OBVIOUS
  <2>3. Scheduled(row, class) = [row EXCEPT !.state = "pending", !.due = "now", !.outcome = "",
                                            !.class = larger, !.rerun = rerun]
    BY DEF Scheduled
  <2> HIDE DEF larger, rerun
  <2>4. /\ Scheduled(row, class).owner = row.owner /\ Scheduled(row, class).rerun = rerun
        /\ Scheduled(row, class).state = "pending" /\ Scheduled(row, class).due = "now"
        /\ Scheduled(row, class).class = larger
    BY <2>3 DEF RowType
  <2> QED
    BY <2>1, <2>2, <2>4 DEF Queued, Upgrade
<1>2. row.owner = NoJob => /\ Unsupported(row, class).state = "complete"
                           /\ Unsupported(row, class).owner = row.owner
  BY DEF Unsupported, RowType
<1>3. row.owner # NoJob => Unsupported(row, class) = Scheduled(row, class)
  BY DEF Unsupported
<1> QED
  BY <1>1, <1>2, <1>3

LEMMA ChangeImport ==
    ASSUME ChangeInv, TypeOK', NEW m \in Media, NEW ident, NEW unsupported \in BOOLEAN,
           NEW class \in {Missing, Import}, ImportMutation(m, ident, unsupported, class),
           \A j \in Jobs : job'[j].phase \notin RunPhases \/ job'[j] = job[j]
    PROVE  ChangeInv'
<1> DEFINE Row(k) == IF unsupported THEN Unsupported(searches[k], class)
                                    ELSE Scheduled(searches[k], class)
<1>1. \A k \in Keys : /\ Row(k).state = "complete" \/ Queued(Row(k))
                      /\ Row(k).owner = searches[k].owner
                      /\ searches[k].owner # NoJob => Row(k).rerun
  BY EventRow, ChangeTypes
<1>2. \A k \in Keys :
        /\ k \in KeysOf(m) =>
            /\ searches'[k] = Row(k) /\ changes'[k] = changes[k] + 1
            /\ Row(k).state = "complete" => answered'[k] = changes[k] + 1
        /\ k \notin KeysOf(m) =>
            /\ searches'[k] = searches[k] /\ changes'[k] = changes[k]
            /\ answered'[k] = answered[k] /\ gap'[k] = gap[k]
  BY DEF ImportMutation
<1>3. \A k \in Keys : changes[k] \in Int /\ answered[k] \in Int
  BY DEF ChangeInv, TypeOK
<1> HIDE DEF Row
<1>4. ASSUME NEW k \in Keys, Unanswered(k)' PROVE Queued(searches'[k])
  <2>1. CASE k \in KeysOf(m)
    BY <1>1, <1>2, <1>3, <1>4, <2>1 DEF Unanswered
  <2>2. CASE k \notin KeysOf(m)
    <3>1. Unanswered(k)
      BY <1>2, <1>4, <2>2 DEF Unanswered
    <3> QED
      BY <1>2, <2>2, <3>1, ChangeParts DEF ChangeInv
  <2> QED
    BY <2>1, <2>2
<1>5. ASSUME NEW j \in Jobs PROVE Covers(j)'
  <2>1. SUFFICES ASSUME job'[j].phase \in RunPhases PROVE Covers(j)'
    BY DEF Covers
  <2>2. job'[j] = job[j] /\ job[j].key \in Keys
    BY <2>1, ChangeTypes
  <2>3. CASE job[j].key \in KeysOf(m)
    BY <1>1, <1>2, <2>2, <2>3, JobsAssumption DEF Covers
  <2>4. CASE job[j].key \notin KeysOf(m)
    BY <1>2, <2>2, <2>4, ChangeParts DEF Covers, ChangeInv
  <2> QED
    BY <2>3, <2>4
<1> QED
  BY <1>4, <1>5, ChangePointwise

\* The Arr events and the revival of a file by a manual search.
LEMMA ChangeEvent ==
    ASSUME ChangeInv, TypeOK',
           \/ \E m \in Media : ImportEvent(m) \/ DeleteEvent(m)
           \/ \E j \in Jobs : ReviveManual(j)
    PROVE  ChangeInv'
<1>1. ASSUME NEW m \in Media, ImportEvent(m) PROVE ChangeInv'
  BY <1>1, ChangeImport DEF ImportEvent
<1>2. ASSUME NEW m \in Media, DeleteEvent(m) PROVE ChangeInv'
  <2>1. \A k \in Keys :
        /\ k[1] = m => answered'[k] = changes[k]
        /\ k[1] # m => /\ searches'[k] = searches[k] /\ answered'[k] = answered[k]
                       /\ gap'[k] = gap[k]
    BY <1>2 DEF DeleteEvent
  <2>2. UNCHANGED <<changes, job>>
    BY <1>2 DEF DeleteEvent
  <2>3. \A k \in Keys : changes[k] \in Int /\ answered[k] \in Int
    BY DEF ChangeInv, TypeOK
  <2>4. ASSUME NEW k \in Keys, Unanswered(k)' PROVE Queued(searches'[k])
    <3>1. k[1] # m
      BY <2>1, <2>2, <2>3, <2>4 DEF Unanswered
    <3>2. Unanswered(k)
      BY <2>1, <2>2, <2>4, <3>1 DEF Unanswered
    <3> QED
      BY <2>1, <3>1, <3>2, ChangeParts DEF ChangeInv
  <2>5. ASSUME NEW j \in Jobs PROVE Covers(j)'
    <3>1. SUFFICES ASSUME job[j].phase \in RunPhases PROVE Covers(j)'
      BY <2>2 DEF Covers
    <3>2. job[j].key \in Keys /\ job[j].seen \in Int /\ Covers(j)
      BY <3>1, ChangeTypes, ChangeParts DEF ChangeInv, JobType
    <3>3. CASE job[j].key[1] = m
      BY <2>1, <2>2, <2>3, <3>2, <3>3 DEF Covers, Larger
    <3>4. CASE job[j].key[1] # m
      BY <2>1, <2>2, <3>2, <3>4 DEF Covers
    <3> QED
      BY <3>3, <3>4
  <2> QED
    BY <2>4, <2>5, ChangePointwise
<1>3. ASSUME NEW j \in Jobs, ReviveManual(j) PROVE ChangeInv'
  <2>1. job[j].key \in Keys /\ job[j].key[1] \in Media
    BY <1>3, ChangeTypes, RunningKey DEF ReviveManual
  <2>2. \A i \in Jobs : job'[i].phase \notin RunPhases \/ job'[i] = job[i]
    BY <1>3, ChangeTypes DEF ReviveManual, RunPhases, TypeOK, JobType
  <2>3. CASE UNCHANGED <<media, searches, history>>
    BY <2>2, <2>3, ChangeTypes, ChangeFrame DEF history
  <2>4. CASE ImportMutation(job[j].key[1], job[j].ident, job[j].unsupported, Missing)
    <3>1. job[j].unsupported \in BOOLEAN
      BY <1>3, ChangeTypes DEF TypeOK, JobType
    <3> QED
      BY <2>1, <2>2, <2>4, <3>1, ChangeImport
  <2> QED
    BY <1>3, <2>3, <2>4 DEF ReviveManual
<1> QED
  BY <1>1, <1>2, <1>3

\* A step of one job on its own search.
LEMMA ChangeLocal ==
    ASSUME ChangeInv, TypeOK', NEW j \in Jobs, NEW k \in Keys, job[j].key = k,
           \A q \in Keys \ {k} :
                /\ searches'[q] = searches[q] /\ changes'[q] = changes[q]
                /\ answered'[q] = answered[q] /\ gap'[q] = gap[q],
           \A i \in Jobs \ {j} : job'[i] = job[i],
           job'[j].phase \notin RunPhases,
           Unanswered(k)' => Queued(searches'[k]),
           \A i \in Jobs \ {j} :
                (job[i].phase \in RunPhases /\ job[i].key = k) => Covers(i)'
    PROVE  ChangeInv'
<1>1. ASSUME NEW q \in Keys, Unanswered(q)' PROVE Queued(searches'[q])
  <2>1. CASE q = k
    BY <1>1, <2>1
  <2>2. CASE q # k
    <3>1. Unanswered(q)
      BY <1>1, <2>2 DEF Unanswered
    <3> QED
      BY <2>2, <3>1, ChangeParts DEF ChangeInv
  <2> QED
    BY <2>1, <2>2
<1>2. ASSUME NEW i \in Jobs PROVE Covers(i)'
  <2>1. SUFFICES ASSUME i # j, job[i].phase \in RunPhases, job[i].key # k
                 PROVE  Covers(i)'
    <3>1. i = j \/ job[i].phase \notin RunPhases => Covers(i)'
      BY DEF Covers
    <3>2. i # j /\ job[i].phase \in RunPhases /\ job[i].key = k => Covers(i)'
      OBVIOUS
    <3> QED
      BY <3>1, <3>2
  <2>2. job'[i] = job[i] /\ job[i].key \in Keys /\ Covers(i)
    BY <2>1, ChangeTypes, ChangeParts DEF ChangeInv
  <2> QED
    BY <2>1, <2>2 DEF Covers
<1> QED
  BY <1>1, <1>2, ChangePointwise

\* A run's report replaces the schedule only when the run owns the search, was
\* not asked to run again and so, by OwnerUpToDate, has seen every change.
LEMMA ChangeComplete ==
    ASSUME ChangeInv, TypeOK', NEW j \in Jobs, NEW result, NEW clear,
           job[j].phase \in RunPhases, CompleteSearch(j, result, clear)
    PROVE  ChangeInv'
<1>0. PICK k \in Keys : job[j].key = k
  BY ChangeTypes
<1> DEFINE row == searches[k]
<1>1. row \in RowType /\ job[j].seen \in Int /\ Covers(j)
  BY ChangeTypes, <1>0, ChangeParts DEF ChangeInv, JobType
<1>2. \A q \in Keys : changes[q] \in Int /\ answered[q] \in Int
  BY DEF ChangeInv, TypeOK
<1>3. /\ \A q \in Keys \ {k} : /\ searches'[q] = searches[q] /\ changes'[q] = changes[q]
                               /\ answered'[q] = answered[q] /\ gap'[q] = gap[q]
      /\ \A i \in Jobs \ {j} : job'[i] = job[i]
      /\ job'[j].phase \notin RunPhases
      /\ UNCHANGED <<changes, gap>>
  BY <1>0, <1>1, ChangeTypes DEF CompleteSearch, TypeOK, IdleJob, RunPhases
<1> DEFINE deleted == media[k[1]].deleted
           applies == row.owner = j /\ ~deleted /\ ~row.rerun
<1>4. answered'[k] = IF row.owner = j /\ deleted THEN changes[k]
                     ELSE IF applies THEN Larger(answered[k], job[j].seen)
                     ELSE answered[k]
  BY <1>0, <1>1, ChangeTypes DEF CompleteSearch, TypeOK
<1>5. searches'[k] = IF row.owner = j THEN Completed(row, deleted, result, clear) ELSE row
  BY <1>0, <1>1, ChangeTypes DEF CompleteSearch, TypeOK
<1>6. Unanswered(k) => Queued(row)
  BY <1>1, ChangeParts DEF ChangeInv
<1>7. changes'[k] = changes[k] /\ gap'[k] = gap[k]
  BY <1>3
<1> HIDE DEF deleted, row
<1>8. CASE row.owner # j
  <2>1. searches'[k] = row /\ answered'[k] = answered[k]
    BY <1>4, <1>5, <1>8
  <2>2. Unanswered(k)' => Queued(searches'[k])
    BY <1>6, <1>7, <2>1 DEF Unanswered
  <2>3. ASSUME NEW i \in Jobs \ {j}, job[i].phase \in RunPhases, job[i].key = k
        PROVE  Covers(i)'
    <3>1. Covers(i)
      BY ChangeParts DEF ChangeInv
    <3> QED
      BY <1>3, <1>7, <2>1, <2>3, <3>1 DEF Covers, row
  <2> QED
    BY <1>1, <1>3, <2>2, <2>3, <1>0, ChangeLocal
<1>9. CASE row.owner = j
  <2>1. searches'[k] = Completed(row, deleted, result, clear)
    BY <1>5, <1>9
  <2>2. searches'[k].owner = NoJob
    <3>1. EndedByDelete(row).owner = NoJob
      BY <1>1, UnleasedType DEF EndedByDelete, Unleased, RowType
    <3>2. RerunDue(row).owner = NoJob
      BY <1>1, UnleasedType DEF RerunDue, Unleased, RowType
    <3>3. Reported(row, result, clear).owner = NoJob
      <4>1. Unleased(row).owner = NoJob /\ Unleased(row) \in RowType
        BY <1>1, UnleasedType DEF Unleased, RowType
      <4> DEFINE class == IF Completion(result).class = 0 THEN Unleased(row).class
                          ELSE Completion(result).class
                 outcome == IF result = "throttled" THEN "throttled" ELSE "ended"
                 replace == Unleased(row).replace /\ ~clear
      <4>2. Reported(row, result, clear) =
                [Unleased(row) EXCEPT !.state = Completion(result).state,
                    !.due = Completion(result).due, !.class = class, !.outcome = outcome,
                    !.replace = replace]
        BY DEF Reported
      <4> HIDE DEF class, outcome, replace
      <4> QED
        BY <4>1, <4>2 DEF RowType
    <3> QED
      BY <2>1, <3>1, <3>2, <3>3 DEF Completed
  <2>3. Unanswered(k)' => Queued(searches'[k])
    <3>1. CASE deleted
      <4>1. answered'[k] = changes[k]
        BY <1>4, <1>9, <3>1
      <4> QED
        BY <1>1, <1>2, <1>7, <4>1 DEF Unanswered
    <3>2. CASE ~deleted /\ row.rerun
      <4>1. answered'[k] = answered[k] /\ searches'[k] = RerunDue(row)
        BY <1>4, <2>1, <3>2 DEF Completed
      <4>2. Queued(row) => Queued(RerunDue(row))
        BY <1>1, UnleasedType DEF RerunDue, Unleased, Queued, RowType
      <4> QED
        BY <1>6, <1>7, <4>1, <4>2 DEF Unanswered
    <3>3. CASE ~deleted /\ ~row.rerun
      <4>1. answered'[k] = Larger(answered[k], job[j].seen)
        BY <1>4, <1>9, <3>3
      <4>2. gap[k] = "none" => Larger(answered[k], job[j].seen) >= changes[k]
        BY <1>0, <1>1, <1>9, <3>3 DEF Covers, row
      <4> QED
        BY <1>1, <1>2, <1>7, <4>1, <4>2 DEF Unanswered, Larger
    <3> QED
      BY <3>1, <3>2, <3>3
  <2>4. ASSUME NEW i \in Jobs \ {j}, job[i].phase \in RunPhases, job[i].key = k
        PROVE  Covers(i)'
    <3>1. searches'[job'[i].key].owner # i
      BY <1>3, <2>2, <2>4, JobsAssumption
    <3> QED
      BY <3>1 DEF Covers
  <2> QED
    BY <1>1, <1>3, <2>3, <2>4, <1>0, ChangeLocal
<1> QED
  BY <1>8, <1>9

\* The ends of worker jobs and manual searches.
LEMMA ChangeFinish ==
    ASSUME ChangeInv, TypeOK', NEW j \in Jobs, FinishWorkerJob(j) \/ FinishManual(j)
    PROVE  ChangeInv'
<1>1. job[j].phase \in RunPhases
  BY DEF FinishWorkerJob, FinishManual, RunPhases
<1>2. \E result, clear : CompleteSearch(j, result, clear)
  BY DEF FinishWorkerJob, FinishManual
<1> QED
  BY <1>1, <1>2, ChangeComplete

\* A rejection queues its search and leaves a live lease to its owner, which
\* is asked to run again.
LEMMA ChangeReject ==
    ASSUME ChangeInv, TypeOK', NEW j \in Jobs, RecordReject(j)
    PROVE  ChangeInv'
<1>0. PICK k \in Keys : job[j].key = k
  BY ChangeTypes, RunningKey DEF RecordReject
<1> DEFINE row == searches[k]
<1>1. row \in RowType
  BY ChangeTypes
<1>2. /\ \A q \in Keys \ {k} : /\ searches'[q] = searches[q] /\ changes'[q] = changes[q]
                               /\ answered'[q] = answered[q] /\ gap'[q] = gap[q]
      /\ \A i \in Jobs \ {j} : job'[i] = job[i]
      /\ job'[j].phase \notin RunPhases
      /\ searches'[k] = RejectedRow(row, j)
  BY <1>0, ChangeTypes DEF RecordReject, TypeOK, JobType, RunPhases
<1>3. /\ Queued(RejectedRow(row, j))
      /\ RejectedRow(row, j).owner = j \/ RejectedRow(row, j).rerun
  <2> DEFINE due == [row EXCEPT !.state = "pending", !.due = "now", !.class = Import,
                                !.outcome = "", !.replace = TRUE]
  <2>1. due \in RowType /\ Queued(due)
    <3>1. due \in RowType /\ due.state = "pending" /\ due.due = "now" /\ due.class = Import
      BY <1>1 DEF RowType
    <3> QED
      BY <3>1 DEF Queued, Import, Upgrade
  <2>2. RejectedRow(row, j) = IF Held(row) THEN [due EXCEPT !.rerun = TRUE]
                              ELSE [due EXCEPT !.owner = j, !.live = TRUE, !.rerun = FALSE]
    BY DEF RejectedRow
  <2> HIDE DEF due
  <2>3. CASE Held(row)
    BY <2>1, <2>2, <2>3 DEF Queued, RowType
  <2>4. CASE ~Held(row)
    BY <2>1, <2>2, <2>4 DEF Queued, RowType
  <2> QED
    BY <2>3, <2>4
<1>4. ASSUME NEW i \in Jobs \ {j}, job[i].phase \in RunPhases, job[i].key = k
      PROVE  Covers(i)'
  BY <1>2, <1>3, <1>4 DEF Covers
<1> QED
  BY <1>0, <1>2, <1>3, <1>4, ChangeLocal

\* A settlement that drops a change opens a gap; any other one is of a run
\* that has seen every change.
LEMMA ChangeSettle ==
    ASSUME ChangeInv, TypeOK', NEW j \in Jobs, SettlePendingSearch(j)
    PROVE  ChangeInv'
<1>0. PICK k \in Keys : job[j].key = k
  BY ChangeTypes, RunningKey DEF SettlePendingSearch
<1> DEFINE row == searches[k]
           settles == Settles(row, j)
           unseen == Unanswered(k) /\ job[j].seen < changes[k]
<1>1. /\ row \in RowType /\ job[j].seen \in Int
      /\ changes[k] \in Int /\ answered[k] \in Int
  BY ChangeTypes DEF ChangeInv, TypeOK, JobType
<1>2. /\ \A q \in Keys \ {k} : /\ searches'[q] = searches[q] /\ changes'[q] = changes[q]
                               /\ answered'[q] = answered[q] /\ gap'[q] = gap[q]
      /\ \A i \in Jobs \ {j} : job'[i] = job[i]
      /\ job'[j].phase \notin RunPhases
      /\ changes'[k] = changes[k]
  BY <1>0, ChangeTypes DEF SettlePendingSearch, TypeOK, JobType, RunPhases
<1>3. CASE settles
  <2>1. /\ searches'[k] = [Unleased(row) EXCEPT !.state = "complete", !.due = "none",
                                                !.outcome = "ended"]
        /\ answered'[k] = Larger(answered[k], job[j].seen)
        /\ unseen => gap'[k] # "none"
        /\ gap[k] # "none" => gap'[k] # "none"
    BY <1>0, <1>3, ChangeTypes DEF SettlePendingSearch, TypeOK
  <2>2. searches'[k].owner = NoJob
    BY <1>1, <2>1, UnleasedType DEF Unleased, RowType
  <2>3. ~Unanswered(k)'
    BY <1>1, <1>2, <2>1 DEF Unanswered, Larger
  <2>4. ASSUME NEW i \in Jobs \ {j}, job[i].phase \in RunPhases, job[i].key = k
        PROVE  Covers(i)'
    BY <1>2, <2>2, <2>4, JobsAssumption DEF Covers
  <2> QED
    BY <1>0, <1>2, <2>3, <2>4, ChangeLocal
<1>4. CASE ~settles
  <2>1. searches'[k] = row /\ answered'[k] = answered[k] /\ gap'[k] = gap[k]
    BY <1>0, <1>4, ChangeTypes DEF SettlePendingSearch, TypeOK
  <2>2. Unanswered(k)' => Queued(searches'[k])
    BY <1>2, <2>1, ChangeParts DEF ChangeInv, Unanswered
  <2>3. ASSUME NEW i \in Jobs \ {j}, job[i].phase \in RunPhases, job[i].key = k
        PROVE  Covers(i)'
    <3>1. Covers(i)
      BY ChangeParts DEF ChangeInv
    <3> QED
      BY <1>2, <2>1, <2>3, <3>1 DEF Covers
  <2> QED
    BY <1>0, <1>2, <2>2, <2>3, ChangeLocal
<1> QED
  BY <1>3, <1>4

\* An in-place replacement queues its searches; an owner it does not ask to
\* run again opens a gap.
LEMMA ChangeInPlace ==
    ASSUME ChangeInv, TypeOK', NEW j \in Jobs, RefreshReplacedInPlace(j)
    PROVE  ChangeInv'
<1>1. PICK due :
        /\ changes' = [k \in Keys |-> IF k \in due THEN changes[k] + 1 ELSE changes[k]]
        /\ searches' = [k \in Keys |->
                IF k \in due THEN ReplacedInPlace(searches[k]) ELSE searches[k]]
        /\ gap' = [k \in Keys |->
                IF k \notin due THEN gap[k]
                ELSE IF searches[k].owner \in {NoJob, j} THEN "none" ELSE "inplace"]
        /\ job' = [job EXCEPT ![j].phase = "searching", ![j].seen = changes'[job[j].key]]
  BY DEF RefreshReplacedInPlace
<1>2. answered' = answered /\ job[j].phase = "loaded" /\ job[j].key \in Keys
  BY ChangeTypes DEF RefreshReplacedInPlace, RunPhases
<1>3. \A k \in Keys :
        /\ k \in due => /\ searches'[k] = ReplacedInPlace(searches[k])
                        /\ searches[k].owner \notin {NoJob, j} => gap'[k] # "none"
        /\ k \notin due => /\ searches'[k] = searches[k] /\ changes'[k] = changes[k]
                           /\ gap'[k] = gap[k]
  BY <1>1
<1>4. /\ job'[j].key = job[j].key /\ job'[j].seen = changes'[job[j].key]
      /\ \A i \in Jobs \ {j} : job'[i] = job[i]
  <2> DEFINE seen == changes'[job[j].key]
  <2>1. job' = [job EXCEPT ![j].phase = "searching", ![j].seen = seen]
    BY <1>1
  <2> HIDE DEF seen
  <2>2. job'[j].key = job[j].key /\ job'[j].seen = seen /\ \A i \in Jobs \ {j} : job'[i] = job[i]
    BY <2>1, ChangeTypes DEF TypeOK, JobType
  <2> QED
    BY <2>2 DEF seen
<1>5. \A k \in Keys : /\ Queued(ReplacedInPlace(searches[k]))
                      /\ ReplacedInPlace(searches[k]).owner = searches[k].owner
  <2>1. ASSUME NEW row \in RowType
        PROVE  /\ ReplacedInPlace(row).state = "pending" /\ ReplacedInPlace(row).due = "now"
               /\ ReplacedInPlace(row).class = Import /\ ReplacedInPlace(row).owner = row.owner
    BY DEF ReplacedInPlace, RowType
  <2>2. Import # Upgrade
    BY DEF Import, Upgrade
  <2> QED
    BY <2>1, <2>2, ChangeTypes DEF Queued
<1>6. ASSUME NEW k \in Keys, Unanswered(k)' PROVE Queued(searches'[k])
  <2>1. CASE k \in due
    BY <1>3, <1>5, <2>1
  <2>2. CASE k \notin due
    BY <1>2, <1>3, <1>6, <2>2, ChangeParts DEF ChangeInv, Unanswered
  <2> QED
    BY <2>1, <2>2
<1>7. Covers(j)'
  <2>1. changes'[job[j].key] \in Int /\ answered'[job[j].key] \in Int
    BY <1>2 DEF TypeOK
  <2> QED
    BY <1>4, <2>1 DEF Covers, Larger
<1>8. ASSUME NEW i \in Jobs \ {j} PROVE Covers(i)'
  <2>1. SUFFICES ASSUME job[i].phase \in RunPhases PROVE Covers(i)'
    BY <1>4 DEF Covers
  <2>2. job'[i] = job[i] /\ job[i].key \in Keys /\ Covers(i)
    BY <1>4, <2>1, ChangeTypes, ChangeParts DEF ChangeInv
  <2>3. CASE job[i].key \in due
    BY <1>3, <1>5, <2>2, <2>3, JobsAssumption DEF Covers
  <2>4. CASE job[i].key \notin due
    BY <1>2, <1>3, <2>2, <2>4 DEF Covers
  <2> QED
    BY <2>3, <2>4
<1> QED
  BY <1>6, <1>7, <1>8, ChangePointwise

LEMMA InitChange == Init => ChangeInv
BY InitType, BoundAssumption
   DEF Init, ChangeInv, NoLostChange, OwnerUpToDate, Unanswered, IdleJob, RunPhases

LEMMA NextChange == ChangeInv /\ [Next]_vars => ChangeInv'
<1> SUFFICES ASSUME ChangeInv, [Next]_vars PROVE ChangeInv'
  OBVIOUS
<1>1. TypeOK'
  BY NextType DEF ChangeInv
<1>2. CASE UNCHANGED vars
  BY <1>1, <1>2, ChangeTypes, ChangeFrame DEF vars
<1>3. CASE \E m \in Media : ImportEvent(m) \/ DeleteEvent(m)
  BY <1>1, <1>3, ChangeEvent
<1>4. CASE \/ \E k \in Keys : BecomesDue(k) \/ LeaseExpires(k) \/ ClockJump(k) \/ UndoReject(k)
           \/ RetryThrottledSearches \/ Crash \/ EnsureConfiguredLanguageSearches
  BY <1>1, <1>4, ChangeTime
<1>5. ASSUME NEW j \in Jobs, NEW k \in Keys,
             LeaseDueSearch(j, k) \/ ResolveManual(j, k) \/ PrepareReject(j, k)
      PROVE  ChangeInv'
  BY <1>1, <1>5, ChangeJobStep
<1>6. ASSUME NEW j \in Jobs,
             \/ RenewSearchLease(j) \/ LoseLease(j) \/ CancelJob(j) \/ AbandonJob(j)
             \/ LoadMedia(j) \/ RefreshStale(j) \/ RefreshInventory(j)
             \/ UpsertManual(j) \/ StartManual(j) \/ ClaimSearch(j) \/ ReadReplace(j)
             \/ FailManual(j) \/ ReleaseManual(j) \/ EnsureUpgradeSearch(j)
      PROVE  ChangeInv'
  BY <1>1, <1>6, ChangeJobStep
<1>7. ASSUME NEW j \in Jobs, FinishWorkerJob(j) \/ FinishManual(j) PROVE ChangeInv'
  BY <1>1, <1>7, ChangeFinish
<1>8. ASSUME NEW j \in Jobs, ReviveManual(j) PROVE ChangeInv'
  BY <1>1, <1>8, ChangeEvent
<1>9. ASSUME NEW j \in Jobs, RefreshReplacedInPlace(j) PROVE ChangeInv'
  BY <1>1, <1>9, ChangeInPlace
<1>10. ASSUME NEW j \in Jobs, RecordReject(j) PROVE ChangeInv'
  BY <1>1, <1>10, ChangeReject
<1>11. ASSUME NEW j \in Jobs, SettlePendingSearch(j) PROVE ChangeInv'
  BY <1>1, <1>11, ChangeSettle
<1> QED
  BY <1>2, <1>3, <1>4, <1>5, <1>6, <1>7, <1>8, <1>9, <1>10, <1>11 DEF Next

\* No import, rename, in-place replacement or rejection is lost to what a
\* running job reports: until a recorded run has observed it, its search stays
\* queued, due now and above upgrade class.
THEOREM ChangesKept == Spec => []NoLostChange
<1>1. ChangeInv => NoLostChange
  BY DEF ChangeInv
<1> QED
  BY <1>1, InitChange, NextChange, PTL DEF Spec

\* A job that may still complete its search has observed every change to it.
THEOREM OwnersUpToDate == Spec => []OwnerUpToDate
<1>1. ChangeInv => OwnerUpToDate
  BY DEF ChangeInv
<1> QED
  BY <1>1, InitChange, NextChange, PTL DEF Spec

-----------------------------------------------------------------------------
(* Rejections *)

\* The runs that have read whether a replacement is queued.
Informed == RunPhases \ {"claimed"}

\* RejectionKept for one search and one job.  What makes it inductive: a search
\* without a row has nothing armed, so the backfill overwrites no rejection.
Armed(k) ==
    /\ searches[k].state = "absent" => ~searches[k].replace
    /\ rejected[k] => searches[k].replace
    /\ rejected[k] /\ gap[k] = "none" => searches[k].state = "pending"

Knows(j) ==
    (/\ job[j].phase \in Informed /\ searches[job[j].key].owner = j
     /\ ~searches[job[j].key].rerun /\ rejected[job[j].key]) => job[j].replace

RejectInv == TypeOK /\ (\A k \in Keys : Armed(k)) /\ (\A j \in Jobs : Knows(j))

LEMMA RejectImplies == RejectInv => RejectionKept
BY DEF RejectInv, Armed, Knows, Informed, RejectionKept, RejectionStaysArmed, OwnerKnowsRejection

LEMMA RejectTypes ==
    ASSUME RejectInv
    PROVE  /\ TypeOK
           /\ \A k \in Keys : searches[k] \in RowType /\ Armed(k)
           /\ \A j \in Jobs : job[j] \in JobType /\ Knows(j)
           /\ \A j \in Jobs : job[j].phase \in RunPhases => job[j].key \in Keys
BY DEF RejectInv, TypeOK, RunPhases

\* What the statements leave of the columns that the invariant reads.
Leaves(old, new) ==
    /\ new.replace = old.replace
    /\ old.state = "pending" => new.state = "pending"
    /\ new.state = "absent" => old.state = "absent"

\* A step that leaves rejections alone keeps the invariant when no run comes
\* to own a rejected search without reading its flag.
LEMMA RejectFrame ==
    ASSUME RejectInv, TypeOK', UNCHANGED <<gap, rejected>>,
           \A k \in Keys : Leaves(searches[k], searches'[k]),
           \A j \in Jobs :
                \/ job'[j].phase \notin Informed
                \/ searches'[job'[j].key].owner # j
                \/ /\ job[j].phase \in Informed /\ job'[j].key = job[j].key
                   /\ job'[j].replace = job[j].replace
                   /\ searches[job[j].key].owner = j
                   /\ searches'[job[j].key].rerun = searches[job[j].key].rerun
                \/ job'[j].replace = searches[job'[j].key].replace
    PROVE  RejectInv'
<1>1. ASSUME NEW k \in Keys PROVE Armed(k)'
  BY RejectTypes DEF Armed, Leaves
<1>2. ASSUME NEW j \in Jobs PROVE Knows(j)'
  <2>1. Knows(j)
    BY RejectTypes
  <2>2. job'[j].phase \in Informed => job'[j].key \in Keys
    BY DEF TypeOK, Informed, RunPhases
  <2>3. \A k \in Keys : rejected[k] => searches[k].replace
    BY RejectTypes DEF Armed
  <2> QED
    BY <2>1, <2>2, <2>3 DEF Knows
<1> QED
  BY <1>1, <1>2 DEF RejectInv

\* The same when the jobs stay what they are, and rows keep their lease or lose it.
LEMMA RejectRows ==
    ASSUME RejectInv, TypeOK', UNCHANGED <<gap, rejected, job>>,
           \A k \in Keys : /\ Leaves(searches[k], searches'[k])
                           /\ \/ searches'[k].owner = NoJob
                              \/ /\ searches'[k].owner = searches[k].owner
                                 /\ searches'[k].rerun = searches[k].rerun
    PROVE  RejectInv'
<1>1. ASSUME NEW j \in Jobs
      PROVE  \/ job'[j].phase \notin Informed
             \/ searches'[job'[j].key].owner # j
             \/ /\ job[j].phase \in Informed /\ job'[j].key = job[j].key
                /\ job'[j].replace = job[j].replace
                /\ searches[job[j].key].owner = j
                /\ searches'[job[j].key].rerun = searches[job[j].key].rerun
  BY RejectTypes, JobsAssumption DEF Informed
<1> QED
  BY <1>1, RejectFrame

\* Time, the owner's commands and startup.
LEMMA RejectTime ==
    ASSUME RejectInv, TypeOK',
           \/ \E k \in Keys : BecomesDue(k) \/ LeaseExpires(k) \/ ClockJump(k) \/ UndoReject(k)
           \/ RetryThrottledSearches \/ Crash \/ EnsureConfiguredLanguageSearches
    PROVE  RejectInv'
<1>1. ASSUME NEW k \in Keys, BecomesDue(k) \/ LeaseExpires(k) \/ ClockJump(k) PROVE RejectInv'
  <2>1. UNCHANGED <<gap, rejected, job>>
    BY <1>1 DEF BecomesDue, LeaseExpires, ClockJump, history
  <2>2. \A q \in Keys : \/ searches'[q] = searches[q]
                        \/ searches'[q] = [searches[q] EXCEPT !.due = "now"]
                        \/ searches'[q] = [searches[q] EXCEPT !.live = FALSE]
    BY <1>1, RejectTypes DEF BecomesDue, LeaseExpires, ClockJump, TypeOK
  <2>3. ASSUME NEW q \in Keys
        PROVE  /\ Leaves(searches[q], searches'[q]) /\ searches'[q].owner = searches[q].owner
               /\ searches'[q].rerun = searches[q].rerun
    <3>1. searches[q] \in RowType
      BY RejectTypes
    <3> QED
      BY <2>2, <3>1 DEF Leaves, RowType
  <2> QED
    BY <2>1, <2>3, RejectRows
<1>2. ASSUME NEW k \in Keys, UndoReject(k) PROVE RejectInv'
  <2>1. /\ searches' = [searches EXCEPT ![k].replace = FALSE] /\ ~rejected'[k]
        /\ job' = job /\ gap' = gap
        /\ \A q \in Keys \ {k} : rejected'[q] = rejected[q] /\ searches'[q] = searches[q]
    BY <1>2, RejectTypes DEF UndoReject, TypeOK
  <2>2. searches'[k].replace = FALSE
    <3>1. searches[k] \in RowType
      BY RejectTypes
    <3>2. searches'[k] = [searches[k] EXCEPT !.replace = FALSE]
      BY <2>1, RejectTypes DEF TypeOK
    <3> QED
      BY <3>1, <3>2 DEF RowType
  <2>3. ASSUME NEW q \in Keys PROVE Armed(q)'
    BY <2>1, <2>2, RejectTypes DEF Armed
  <2>4. ASSUME NEW j \in Jobs PROVE Knows(j)'
    BY <2>1, RejectTypes DEF Knows, Informed
  <2> QED
    BY <2>3, <2>4 DEF RejectInv
<1>3. CASE RetryThrottledSearches
  <2>1. UNCHANGED <<gap, rejected, job>>
    BY <1>3 DEF RetryThrottledSearches, history
  <2>2. \A q \in Keys : \/ searches'[q] = searches[q]
                        \/ searches'[q] = [searches[q] EXCEPT !.state = "pending", !.due = "now"]
    BY <1>3 DEF RetryThrottledSearches
  <2>3. ASSUME NEW q \in Keys
        PROVE  /\ Leaves(searches[q], searches'[q]) /\ searches'[q].owner = searches[q].owner
               /\ searches'[q].rerun = searches[q].rerun
    <3>1. searches[q] \in RowType
      BY RejectTypes
    <3> QED
      BY <2>2, <3>1 DEF Leaves, RowType
  <2> QED
    BY <2>1, <2>3, RejectRows
<1>4. CASE Crash
  <2>1. UNCHANGED <<gap, rejected, searches>> /\ \A j \in Jobs : job'[j].phase = "idle"
    BY <1>4 DEF Crash, history, IdleJob
  <2> QED
    BY <2>1, RejectFrame DEF Informed, RunPhases, Leaves
<1>5. CASE EnsureConfiguredLanguageSearches
  <2>1. UNCHANGED <<gap, rejected, job>>
    BY <1>5 DEF EnsureConfiguredLanguageSearches, history
  <2>2. \A k \in Keys : \/ searches'[k] = searches[k]
                        \/ /\ searches[k].state = "absent" /\ searches'[k].owner = NoJob
                           /\ searches'[k].replace = FALSE /\ searches'[k].state # "absent"
    BY <1>5 DEF EnsureConfiguredLanguageSearches, Backfilled, NoRow
  <2>3. ASSUME NEW k \in Keys PROVE Armed(k)'
    BY <2>1, <2>2, RejectTypes DEF Armed
  <2>4. ASSUME NEW j \in Jobs PROVE Knows(j)'
    BY <2>1, <2>2, RejectTypes, JobsAssumption DEF Knows, Informed
  <2> QED
    BY <2>3, <2>4 DEF RejectInv
<1> QED
  BY <1>1, <1>2, <1>3, <1>4, <1>5

\* Steps of one job that record nothing.
LEMMA RejectJobStep ==
    ASSUME RejectInv, TypeOK', NEW j \in Jobs,
           \/ \E k \in Keys : ResolveManual(j, k) \/ PrepareReject(j, k) \/ LeaseDueSearch(j, k)
           \/ RenewSearchLease(j) \/ LoseLease(j) \/ CancelJob(j) \/ AbandonJob(j)
           \/ LoadMedia(j) \/ RefreshStale(j) \/ RefreshInventory(j)
           \/ UpsertManual(j) \/ StartManual(j) \/ ClaimSearch(j) \/ ReadReplace(j)
           \/ FailManual(j) \/ ReleaseManual(j) \/ EnsureUpgradeSearch(j)
    PROVE  RejectInv'
<1> USE RejectTypes
<1>0. Informed \subseteq RunPhases
  BY DEF Informed
<1>1. ASSUME UNCHANGED <<gap, rejected, searches>>, job'[j].phase \notin Informed,
             \A i \in Jobs \ {j} : job'[i] = job[i]
      PROVE  RejectInv'
  BY <1>1, RejectFrame DEF Leaves
<1>2. ASSUME NEW k \in Keys, ResolveManual(j, k) \/ PrepareReject(j, k) PROVE RejectInv'
  <2>1. /\ UNCHANGED <<gap, rejected, searches>> /\ job'[j].phase \in {"resolving", "rejecting"}
        /\ \A i \in Jobs \ {j} : job'[i] = job[i]
    <3>1. CASE ResolveManual(j, k)
      BY <3>1 DEF ResolveManual, history, IdleJob, TypeOK
    <3>2. CASE PrepareReject(j, k)
      BY <3>2 DEF PrepareReject, history, IdleJob, TypeOK
    <3> QED
      BY <1>2, <3>1, <3>2
  <2> QED
    BY <1>1, <2>1 DEF Informed, RunPhases
<1>3. CASE LoseLease(j) \/ AbandonJob(j)
  BY <1>1, <1>3 DEF LoseLease, AbandonJob, history, Informed, RunPhases, IdleJob, TypeOK
<1>4. CASE UpsertManual(j) \/ StartManual(j)
  <2>1. /\ UNCHANGED <<gap, rejected, searches>> /\ job'[j].phase \in {"queued", "claiming"}
        /\ \A i \in Jobs \ {j} : job'[i] = job[i]
    BY <1>4 DEF UpsertManual, StartManual, history, TypeOK, JobType
  <2> QED
    BY <1>1, <2>1 DEF Informed, RunPhases
<1>5. ASSUME NEW k \in Keys, LeaseDueSearch(j, k) PROVE RejectInv'
  <2>1. /\ UNCHANGED <<gap, rejected>>
        /\ job'[j].key = k /\ job'[j].replace = searches[k].replace
        /\ \A i \in Jobs \ {j} : job'[i] = job[i]
    BY <1>5 DEF LeaseDueSearch, history, IdleJob, TypeOK
  <2>2. /\ \A q \in Keys \ {k} : searches'[q] = searches[q]
        /\ searches'[k] = [searches[k] EXCEPT !.owner = j, !.live = TRUE, !.rerun = FALSE]
    BY <1>5 DEF LeaseDueSearch, TypeOK
  <2>3. searches[k] \in RowType
    OBVIOUS
  <2>4. searches'[k].owner = j /\ Leaves(searches[k], searches'[k])
    BY <2>2, <2>3 DEF RowType, Leaves
  <2>5. \A q \in Keys : Leaves(searches[q], searches'[q])
    BY <2>2, <2>4 DEF Leaves
  <2>6. ASSUME NEW i \in Jobs \ {j}, job'[i].phase \in Informed, searches'[job'[i].key].owner = i
        PROVE  /\ job'[i] = job[i]
               /\ searches'[job[i].key] = searches[job[i].key]
    <3>1. job'[i] = job[i] /\ job[i].key \in Keys
      BY <1>0, <2>1, <2>6
    <3>2. job[i].key # k
      BY <2>4, <2>6, <3>1
    <3> QED
      BY <2>2, <3>1, <3>2
  <2> QED
    BY <2>1, <2>5, <2>6, RejectFrame
<1>6. CASE RenewSearchLease(j)
  <2>1. job[j].key \in Keys
    BY <1>6 DEF RenewSearchLease
  <2>2. UNCHANGED <<gap, rejected, job>>
    BY <1>6 DEF RenewSearchLease, history
  <2>3. \A q \in Keys : searches'[q] \in {searches[q], [searches[q] EXCEPT !.live = TRUE]}
    BY <1>6, <2>1 DEF RenewSearchLease, TypeOK
  <2>4. ASSUME NEW q \in Keys
        PROVE  /\ Leaves(searches[q], searches'[q]) /\ searches'[q].owner = searches[q].owner
               /\ searches'[q].rerun = searches[q].rerun
    <3>1. searches[q] \in RowType
      OBVIOUS
    <3> QED
      BY <2>3, <3>1 DEF Leaves, RowType
  <2> QED
    BY <2>2, <2>4, RejectRows
<1>7. ASSUME UNCHANGED <<gap, rejected>>, job'[j].phase \notin Informed,
             \A i \in Jobs \ {j} : job'[i] = job[i],
             \A q \in Keys : /\ Leaves(searches[q], searches'[q])
                             /\ searches'[q] = searches[q] \/ searches'[q].owner = NoJob
      PROVE  RejectInv'
  <2>1. ASSUME NEW i \in Jobs \ {j}, job'[i].phase \in Informed, searches'[job'[i].key].owner = i
        PROVE  job'[i] = job[i] /\ searches'[job[i].key] = searches[job[i].key]
    <3>1. job'[i] = job[i] /\ job[i].key \in Keys
      BY <1>0, <1>7, <2>1
    <3> QED
      BY <1>7, <2>1, <3>1, JobsAssumption
  <2> QED
    BY <1>7, <2>1, RejectFrame
<1>8. CASE CancelJob(j) \/ FailManual(j) \/ ReleaseManual(j)
  <2>1. job[j].key \in Keys
    BY <1>8, RunningKey DEF CancelJob, FailManual, ReleaseManual
  <2>2. /\ UNCHANGED <<gap, rejected>>
        /\ job'[j].phase \notin Informed
        /\ \A i \in Jobs \ {j} : job'[i] = job[i]
        /\ searches' = Released(job[j].key, j)
    BY <1>8 DEF CancelJob, FailManual, ReleaseManual, history, Informed, RunPhases, IdleJob, TypeOK, JobType
  <2>3. \A q \in Keys : searches'[q] \in {searches[q], Unleased(searches[q])}
    BY <2>1, <2>2 DEF Released, TypeOK
  <2>4. ASSUME NEW q \in Keys
        PROVE  /\ Leaves(searches[q], searches'[q])
               /\ searches'[q] = searches[q] \/ searches'[q].owner = NoJob
    <3>1. searches[q] \in RowType
      OBVIOUS
    <3> QED
      BY <2>3, <3>1 DEF Leaves, RowType, Unleased
  <2> QED
    BY <1>7, <2>2, <2>4
<1>9. CASE LoadMedia(j) \/ RefreshStale(j) \/ RefreshInventory(j)
  <2>1. /\ UNCHANGED <<gap, rejected, searches>>
        /\ \A i \in Jobs \ {j} : job'[i] = job[i]
        /\ job[j].phase \in Informed /\ job'[j].key = job[j].key
        /\ job'[j].replace = job[j].replace
    BY <1>9 DEF LoadMedia, RefreshStale, RefreshInventory, history, Informed, RunPhases,
        TypeOK, JobType
  <2> QED
    BY <2>1, RejectFrame DEF Leaves
<1>10. CASE ReadReplace(j)
  <2>1. /\ UNCHANGED <<gap, rejected, searches>>
        /\ \A i \in Jobs \ {j} : job'[i] = job[i]
        /\ job'[j].key = job[j].key
        /\ job'[j].replace = searches[job[j].key].replace
    BY <1>10 DEF ReadReplace, history, TypeOK, JobType
  <2> QED
    BY <2>1, RejectFrame DEF Leaves
<1>11. CASE ClaimSearch(j)
  <2>1. job[j].key \in Keys
    BY <1>11, RunningKey DEF ClaimSearch
  <2>2. /\ UNCHANGED <<gap, rejected>>
        /\ \A i \in Jobs \ {j} : job'[i] = job[i]
        /\ job'[j].phase = "claimed"
    BY <1>11 DEF ClaimSearch, history, TypeOK, JobType
  <2>3. /\ \A q \in Keys \ {job[j].key} : searches'[q] = searches[q]
        /\ searches'[job[j].key].owner = j
        /\ Leaves(searches[job[j].key], searches'[job[j].key])
    <3> DEFINE row == searches[job[j].key]
               fresh == [NoRow EXCEPT !.state = "pending", !.due = "now", !.class = Missing]
               queued == IF row.state = "absent" THEN fresh ELSE row
    <3>1. row \in RowType /\ fresh \in RowType
      BY <2>1, NoRowType DEF RowType
    <3>2. row.state = "absent" => row.replace = FALSE
      BY <2>1, <3>1 DEF Armed, RowType
    <3>3. queued \in RowType /\ Leaves(row, queued)
      BY <3>1, <3>2 DEF Leaves, NoRow
    <3>4. searches' = [searches EXCEPT ![job[j].key] =
                            [queued EXCEPT !.owner = j, !.live = TRUE, !.rerun = FALSE]]
      BY <1>11 DEF ClaimSearch
    <3> HIDE DEF queued, fresh
    <3>5. searches'[job[j].key] = [queued EXCEPT !.owner = j, !.live = TRUE, !.rerun = FALSE]
      BY <2>1, <3>4 DEF TypeOK
    <3>6. searches'[job[j].key].owner = j /\ Leaves(queued, searches'[job[j].key])
      BY <3>3, <3>5 DEF Leaves, RowType
    <3> QED
      BY <2>1, <3>3, <3>4, <3>6 DEF TypeOK, Leaves
  <2>4. \A q \in Keys : Leaves(searches[q], searches'[q])
    BY <2>3 DEF Leaves
  <2>5. ASSUME NEW i \in Jobs \ {j}, job'[i].phase \in Informed, searches'[job'[i].key].owner = i
        PROVE  job'[i] = job[i] /\ searches'[job[i].key] = searches[job[i].key]
    <3>1. job'[i] = job[i] /\ job[i].key \in Keys
      BY <1>0, <2>2, <2>5
    <3> QED
      BY <2>3, <2>5, <3>1
  <2>6. job'[j].phase \notin Informed
    BY <2>2 DEF Informed
  <2> QED
    BY <2>2, <2>4, <2>5, <2>6, RejectFrame
<1>12. CASE EnsureUpgradeSearch(j)
  <2>1. job[j].key \in Keys
    BY <1>12, RunningKey DEF EnsureUpgradeSearch
  <2>2. /\ UNCHANGED <<gap, rejected>>
        /\ job'[j].phase \notin Informed
        /\ \A i \in Jobs \ {j} : job'[i] = job[i]
    BY <1>12 DEF EnsureUpgradeSearch, history, Informed, RunPhases, IdleJob, TypeOK
  <2>3. \A q \in Keys \ {job[j].key} : searches'[q] = searches[q]
    BY <1>12, <2>1 DEF EnsureUpgradeSearch, TypeOK
  <2>4. \/ searches'[job[j].key] = searches[job[j].key]
        \/ /\ searches[job[j].key].owner = NoJob
           /\ searches'[job[j].key] =
                    [searches[job[j].key] EXCEPT !.state = "pending", !.due = "later",
                            !.class = Upgrade, !.outcome = "", !.rerun = FALSE]
    BY <1>12, <2>1 DEF EnsureUpgradeSearch, TypeOK
  <2>5. searches[job[j].key] \in RowType
    BY <2>1
  <2>6. /\ Leaves(searches[job[j].key], searches'[job[j].key])
        /\ searches'[job[j].key] = searches[job[j].key] \/ searches'[job[j].key].owner = NoJob
    BY <2>4, <2>5 DEF Leaves, RowType
  <2>7. \A q \in Keys : /\ Leaves(searches[q], searches'[q])
                        /\ searches'[q] = searches[q] \/ searches'[q].owner = NoJob
    BY <2>3, <2>6 DEF Leaves
  <2> QED
    BY <1>7, <2>2, <2>7
<1> QED
  BY <1>2, <1>3, <1>4, <1>5, <1>6, <1>8, <1>9, <1>10, <1>11, <1>12

\* An event keeps a flag, and ends or queues the search.
LEMMA EventFlag ==
    ASSUME NEW row \in RowType, NEW class \in {Missing, Import}, NEW unsupported \in BOOLEAN
    PROVE  LET new == IF unsupported THEN Unsupported(row, class) ELSE Scheduled(row, class)
           IN  new.replace = row.replace /\ new.state # "absent"
<1> DEFINE larger == Larger(row.class, class)
           rerun == row.owner # NoJob
<1>1. Scheduled(row, class) = [row EXCEPT !.state = "pending", !.due = "now", !.outcome = "",
                                          !.class = larger, !.rerun = rerun]
  BY DEF Scheduled
<1>2. Unsupported(row, class) =
        IF row.owner = NoJob
        THEN [row EXCEPT !.state = "complete", !.due = "none", !.outcome = "ended",
                         !.class = larger, !.rerun = FALSE]
        ELSE Scheduled(row, class)
  BY DEF Unsupported
<1> HIDE DEF larger, rerun
<1> QED
  BY <1>1, <1>2 DEF RowType

LEMMA RejectImport ==
    ASSUME RejectInv, TypeOK', NEW m \in Media, NEW ident, NEW unsupported \in BOOLEAN,
           NEW class \in {Missing, Import}, ImportMutation(m, ident, unsupported, class),
           \A i \in Jobs : job'[i].phase \in Informed => job'[i] = job[i]
    PROVE  RejectInv'
<1> DEFINE Row(k) == IF unsupported THEN Unsupported(searches[k], class)
                                    ELSE Scheduled(searches[k], class)
<1>1. \A k \in Keys \ KeysOf(m) :
        searches'[k] = searches[k] /\ gap'[k] = gap[k] /\ rejected'[k] = rejected[k]
  BY RejectTypes DEF ImportMutation, TypeOK
<1>2. \A k \in KeysOf(m) : k \in Keys
  BY DEF KeysOf
<1>3. \A k \in KeysOf(m) : searches'[k] = Row(k) /\ (rejected'[k] => rejected[k] /\ Row(k).state # "complete")
  BY <1>2 DEF ImportMutation
<1>4. ASSUME NEW k \in KeysOf(m)
      PROVE  /\ Row(k).state = "complete" \/ Queued(Row(k))
             /\ Row(k).owner = searches[k].owner
             /\ searches[k].owner # NoJob => Row(k).rerun
             /\ Row(k).replace = searches[k].replace /\ Row(k).state # "absent"
  <2>1. searches[k] \in RowType
    BY <1>2, RejectTypes
  <2> QED
    BY <2>1, EventRow, EventFlag
<1> HIDE DEF Row
<1>5. ASSUME NEW k \in Keys PROVE Armed(k)'
  <2>1. CASE k \in KeysOf(m)
    BY <1>3, <1>4, <2>1, RejectTypes DEF Armed, Queued
  <2>2. CASE k \notin KeysOf(m)
    BY <1>1, <2>2, RejectTypes DEF Armed
  <2> QED
    BY <2>1, <2>2
<1>6. ASSUME NEW j \in Jobs PROVE Knows(j)'
  <2>1. SUFFICES ASSUME job'[j].phase \in Informed PROVE Knows(j)'
    BY DEF Knows
  <2>2. job'[j] = job[j] /\ job[j].key \in Keys /\ Knows(j)
    BY <2>1, RejectTypes DEF Informed
  <2>3. CASE job[j].key \in KeysOf(m)
    BY <1>3, <1>4, <2>2, <2>3, JobsAssumption DEF Knows
  <2>4. CASE job[j].key \notin KeysOf(m)
    BY <1>1, <2>2, <2>4 DEF Knows
  <2> QED
    BY <2>3, <2>4
<1> QED
  BY <1>5, <1>6 DEF RejectInv

LEMMA RejectEvent ==
    ASSUME RejectInv, TypeOK',
           \/ \E m \in Media : ImportEvent(m) \/ DeleteEvent(m)
           \/ \E j \in Jobs : ReviveManual(j)
    PROVE  RejectInv'
<1>1. ASSUME NEW m \in Media, ImportEvent(m) PROVE RejectInv'
  BY <1>1, RejectImport DEF ImportEvent
<1>2. ASSUME NEW m \in Media, DeleteEvent(m) PROVE RejectInv'
  <2>1. /\ job' = job
        /\ \A k \in Keys : IF k[1] = m THEN ~rejected'[k]
                           ELSE rejected'[k] = rejected[k] /\ gap'[k] = gap[k] /\ searches'[k] = searches[k]
    BY <1>2, RejectTypes DEF DeleteEvent, TypeOK
  <2>2. \A k \in Keys : searches'[k].state = "absent" => searches'[k] = searches[k]
    <3>1. \A k \in Keys : \/ searches'[k] = searches[k]
                          \/ searches'[k] = [searches[k] EXCEPT !.state = "complete", !.due = "none",
                                                                !.outcome = "deleted", !.rerun = FALSE]
      BY <1>2 DEF DeleteEvent
    <3>2. \A k \in Keys : searches[k] \in RowType
      BY RejectTypes
    <3> QED
      BY <3>1, <3>2 DEF RowType
  <2>3. ASSUME NEW k \in Keys PROVE Armed(k)'
    BY <2>1, <2>2, RejectTypes DEF Armed
  <2>4. ASSUME NEW j \in Jobs PROVE Knows(j)'
    BY <2>1, RejectTypes DEF Knows, Informed
  <2> QED
    BY <2>3, <2>4 DEF RejectInv
<1>3. ASSUME NEW j \in Jobs, ReviveManual(j) PROVE RejectInv'
  <2>1. /\ job[j].phase = "resolving" /\ job[j].key \in Keys /\ job[j].key[1] \in Media
    BY <1>3, RunningKey, RejectTypes DEF ReviveManual
  <2>2. job'[j].phase = "upserting" /\ \A i \in Jobs \ {j} : job'[i] = job[i]
    BY <1>3, RejectTypes DEF ReviveManual, TypeOK, JobType
  <2>3. \A i \in Jobs : job'[i].phase \in Informed => job'[i] = job[i]
    BY <2>2 DEF Informed, RunPhases
  <2>4. CASE UNCHANGED <<media, searches, history>>
    BY <2>2, <2>3, <2>4, RejectFrame DEF history, Leaves, Informed, RunPhases
  <2>5. CASE ImportMutation(job[j].key[1], job[j].ident, job[j].unsupported, Missing)
    <3>1. job[j].unsupported \in BOOLEAN
      BY <1>3, RejectTypes DEF TypeOK, JobType
    <3> QED
      BY <2>1, <2>3, <2>5, <3>1, RejectImport
  <2> QED
    BY <1>3, <2>4, <2>5 DEF ReviveManual
<1> QED
  BY <1>1, <1>2, <1>3

\* A step that touches only search k and its job j.
LEMMA RejectLocal ==
    ASSUME RejectInv, TypeOK', NEW j \in Jobs, NEW k \in Keys,
           \A q \in Keys \ {k} : /\ searches'[q] = searches[q] /\ gap'[q] = gap[q]
                                 /\ rejected'[q] = rejected[q],
           \A i \in Jobs \ {j} : job'[i] = job[i],
           job'[j].phase \notin Informed, Armed(k)',
           \A i \in Jobs \ {j} : job[i].phase \in Informed /\ job[i].key = k => Knows(i)'
    PROVE  RejectInv'
<1>1. ASSUME NEW q \in Keys PROVE Armed(q)'
  BY RejectTypes DEF Armed
<1>2. ASSUME NEW i \in Jobs PROVE Knows(i)'
  <2>1. CASE i = j \/ job'[i].phase \notin Informed
    BY <2>1 DEF Knows
  <2>2. CASE i # j /\ job[i].phase \in Informed
    <3>1. job'[i] = job[i] /\ job[i].key \in Keys /\ Knows(i)
      BY <2>2, RejectTypes DEF Informed
    <3>2. CASE job[i].key = k
      BY <2>2, <3>2
    <3>3. CASE job[i].key # k
      BY <3>1, <3>3 DEF Knows
    <3> QED
      BY <3>2, <3>3
  <2> QED
    BY <2>1, <2>2
<1> QED
  BY <1>1, <1>2 DEF RejectInv

\* A run's report takes the flag of a rejection only when the run knows of it:
\* one that does not know would have been asked to run again.
LEMMA RejectComplete ==
    ASSUME RejectInv, TypeOK', NEW j \in Jobs, NEW result \in Results, NEW clear \in BOOLEAN,
           job[j].phase \in Informed, CompleteSearch(j, result, clear),
           job[j].replace /\ result \in {"done", "upgrade", "missing"} => clear
    PROVE  RejectInv'
<1>0. PICK k \in Keys : job[j].key = k
  BY RejectTypes DEF Informed
<1> DEFINE row == searches[k]
           deleted == media[k[1]].deleted
           applies == row.owner = j /\ ~deleted /\ ~row.rerun
<1>1. row \in RowType /\ Knows(j) /\ Armed(k)
  BY RejectTypes
<1>2. /\ \A q \in Keys \ {k} : /\ searches'[q] = searches[q] /\ gap'[q] = gap[q]
                               /\ rejected'[q] = rejected[q]
      /\ \A i \in Jobs \ {j} : job'[i] = job[i]
      /\ job'[j].phase = "idle" /\ gap' = gap
  BY <1>0, RejectTypes DEF CompleteSearch, TypeOK, IdleJob
<1>3. searches'[k] = IF row.owner = j THEN Completed(row, deleted, result, clear) ELSE row
  BY <1>0, RejectTypes DEF CompleteSearch, TypeOK
<1>4. rejected'[k] => /\ rejected[k] /\ ~(row.owner = j /\ deleted)
                      /\ ~(applies /\ (clear \/ result = "unsupported"))
  BY <1>0, RejectTypes DEF CompleteSearch, TypeOK
<1> HIDE DEF row, deleted
<1>5. job'[j].phase \notin Informed
  BY <1>2 DEF Informed, RunPhases
<1>6. CASE row.owner # j
  <2>1. Armed(k)'
    BY <1>1, <1>2, <1>3, <1>4, <1>6 DEF Armed, row
  <2>2. ASSUME NEW i \in Jobs \ {j}, job[i].phase \in Informed, job[i].key = k PROVE Knows(i)'
    <3>1. Knows(i) /\ job'[i] = job[i] /\ searches'[k] = searches[k]
      BY <1>2, <1>3, <1>6, RejectTypes DEF row
    <3> QED
      BY <1>4, <2>2, <3>1 DEF Knows
  <2> QED
    BY <1>2, <1>5, <2>1, <2>2, RejectLocal
<1>7. CASE row.owner = j
  <2> DEFINE u == Unleased(row)
             c == Completion(result)
             class == IF c.class = 0 THEN u.class ELSE c.class
             outcome == IF result = "throttled" THEN "throttled" ELSE "ended"
             replace == u.replace /\ ~clear
  <2>1. u \in RowType /\ u.owner = NoJob /\ u.replace = row.replace /\ u.state = row.state
    BY <1>1 DEF Unleased, RowType
  <2>2. /\ c.state \in {"pending", "complete"}
        /\ result \in {"upgrade", "missing", "throttled", "failed"} => c.state = "pending"
    BY DEF Completion, Results
  <2>3. Reported(row, result, clear) = [u EXCEPT !.state = c.state, !.due = c.due, !.class = class,
                                                 !.outcome = outcome, !.replace = replace]
    BY DEF Reported
  <2>4. replace \in BOOLEAN /\ (~clear => (replace <=> u.replace))
    OBVIOUS
  <2> HIDE DEF u, c, class, outcome, replace
  <2>5. /\ Reported(row, result, clear).owner = NoJob /\ Reported(row, result, clear).state = c.state
        /\ Reported(row, result, clear).replace = replace
    BY <2>1, <2>3 DEF RowType
  <2>6. /\ EndedByDelete(row).owner = NoJob /\ EndedByDelete(row).state = "complete"
        /\ RerunDue(row).owner = NoJob /\ RerunDue(row).state = "pending"
        /\ RerunDue(row).replace = row.replace
    BY <2>1 DEF EndedByDelete, RerunDue, RowType, u
  <2>7. searches'[k].owner = NoJob /\ searches'[k].state # "absent"
    BY <1>3, <1>7, <2>2, <2>5, <2>6 DEF Completed
  <2>8. ASSUME rejected'[k] PROVE searches'[k].replace /\ (gap[k] = "none" => searches'[k].state = "pending")
    <3>1. rejected[k] /\ row.replace /\ ~deleted
      BY <1>1, <1>4, <1>7, <2>8 DEF Armed, row
    <3>2. CASE row.rerun
      BY <1>3, <1>7, <2>6, <3>1, <3>2 DEF Completed
    <3>3. CASE ~row.rerun
      <4>1. job[j].replace
        BY <1>0, <1>1, <1>7, <3>1, <3>3 DEF Knows, row
      <4>2. ~clear /\ result # "unsupported"
        BY <1>4, <1>7, <2>8, <3>1, <3>3
      <4>3. result \in {"throttled", "failed"}
        BY <4>1, <4>2 DEF Results
      <4>4. searches'[k] = Reported(row, result, clear)
        BY <1>3, <1>7, <3>1, <3>3 DEF Completed
      <4> QED
        BY <2>1, <2>2, <2>4, <2>5, <3>1, <4>2, <4>3, <4>4
    <3> QED
      BY <3>2, <3>3
  <2>9. Armed(k)'
    BY <1>2, <2>7, <2>8 DEF Armed
  <2>10. ASSUME NEW i \in Jobs \ {j}, job[i].phase \in Informed, job[i].key = k PROVE Knows(i)'
    BY <1>2, <2>7, <2>10, JobsAssumption DEF Knows
  <2> QED
    BY <1>2, <1>5, <2>9, <2>10, RejectLocal
<1> QED
  BY <1>6, <1>7

LEMMA RejectFinish ==
    ASSUME RejectInv, TypeOK', NEW j \in Jobs, FinishWorkerJob(j) \/ FinishManual(j)
    PROVE  RejectInv'
<1>1. job[j].phase \in Informed
  BY DEF FinishWorkerJob, FinishManual, RunPhases, Informed
<1>2. job[j].replace \in BOOLEAN
  BY RejectTypes DEF JobType
<1>3. \E result \in Results, clear \in BOOLEAN :
        /\ CompleteSearch(j, result, clear)
        /\ job[j].replace /\ result \in {"done", "upgrade", "missing"} => clear
  BY <1>2 DEF FinishWorkerJob, FinishManual, Results
<1> QED
  BY <1>1, <1>3, RejectComplete

\* A rejection arms its search, and asks the owner of a live lease to run again.
LEMMA RejectRecord ==
    ASSUME RejectInv, TypeOK', NEW j \in Jobs, RecordReject(j)
    PROVE  RejectInv'
<1>0. PICK k \in Keys : job[j].key = k
  BY RejectTypes, RunningKey DEF RecordReject
<1> DEFINE row == searches[k]
<1>1. row \in RowType
  BY RejectTypes
<1>2. /\ \A q \in Keys \ {k} : /\ searches'[q] = searches[q] /\ gap'[q] = gap[q]
                               /\ rejected'[q] = rejected[q]
      /\ \A i \in Jobs \ {j} : job'[i] = job[i]
      /\ job'[j].phase = "queued"
      /\ searches'[k] = RejectedRow(row, j)
  BY <1>0, RejectTypes DEF RecordReject, TypeOK, JobType
<1>3. /\ RejectedRow(row, j).state = "pending" /\ RejectedRow(row, j).replace
      /\ RejectedRow(row, j).owner = j \/ RejectedRow(row, j).rerun
  <2> DEFINE due == [row EXCEPT !.state = "pending", !.due = "now", !.class = Import,
                                !.outcome = "", !.replace = TRUE]
  <2>1. due \in RowType /\ due.state = "pending" /\ due.replace = TRUE
    BY <1>1 DEF RowType
  <2>2. RejectedRow(row, j) = IF Held(row) THEN [due EXCEPT !.rerun = TRUE]
                              ELSE [due EXCEPT !.owner = j, !.live = TRUE, !.rerun = FALSE]
    BY DEF RejectedRow
  <2> HIDE DEF due
  <2> QED
    BY <2>1, <2>2 DEF RowType
<1>4. Armed(k)'
  BY <1>2, <1>3 DEF Armed
<1>5. ASSUME NEW i \in Jobs \ {j}, job[i].phase \in Informed, job[i].key = k PROVE Knows(i)'
  BY <1>2, <1>3, <1>5 DEF Knows
<1>6. job'[j].phase \notin Informed
  BY <1>2 DEF Informed, RunPhases
<1> QED
  BY <1>2, <1>4, <1>5, <1>6, RejectLocal

\* A settlement of a rejected search opens a gap.
LEMMA RejectSettle ==
    ASSUME RejectInv, TypeOK', NEW j \in Jobs, SettlePendingSearch(j)
    PROVE  RejectInv'
<1>0. PICK k \in Keys : job[j].key = k
  BY RejectTypes, RunningKey DEF SettlePendingSearch
<1> DEFINE row == searches[k]
           settles == Settles(row, j)
<1>1. row \in RowType /\ Armed(k)
  BY RejectTypes
<1>2. /\ \A q \in Keys \ {k} : /\ searches'[q] = searches[q] /\ gap'[q] = gap[q]
                               /\ rejected'[q] = rejected[q]
      /\ \A i \in Jobs \ {j} : job'[i] = job[i]
      /\ job'[j].phase = "releasing"
      /\ rejected' = rejected
  BY <1>0, RejectTypes DEF SettlePendingSearch, TypeOK, JobType
<1>3. job'[j].phase \notin Informed
  BY <1>2 DEF Informed, RunPhases
<1>4. CASE settles
  <2>1. /\ searches'[k] = [Unleased(row) EXCEPT !.state = "complete", !.due = "none",
                                                !.outcome = "ended"]
        /\ rejected[k] => gap'[k] # "none"
    BY <1>0, <1>4, RejectTypes DEF SettlePendingSearch, TypeOK
  <2>2. searches'[k].owner = NoJob /\ searches'[k].replace = row.replace /\ searches'[k].state = "complete"
    <3>1. Unleased(row) \in RowType /\ Unleased(row).owner = NoJob /\ Unleased(row).replace = row.replace
      BY <1>1 DEF Unleased, RowType
    <3> QED
      BY <2>1, <3>1 DEF RowType
  <2>3. Armed(k)'
    BY <1>1, <1>2, <2>1, <2>2 DEF Armed
  <2>4. ASSUME NEW i \in Jobs \ {j}, job[i].phase \in Informed, job[i].key = k PROVE Knows(i)'
    BY <1>2, <2>2, <2>4, JobsAssumption DEF Knows
  <2> QED
    BY <1>2, <1>3, <2>3, <2>4, RejectLocal
<1>5. CASE ~settles
  <2>1. searches'[k] = row /\ gap'[k] = gap[k]
    BY <1>0, <1>5, RejectTypes DEF SettlePendingSearch, TypeOK
  <2>2. Armed(k)'
    BY <1>1, <1>2, <2>1 DEF Armed
  <2>3. ASSUME NEW i \in Jobs \ {j}, job[i].phase \in Informed, job[i].key = k PROVE Knows(i)'
    <3>1. Knows(i)
      BY RejectTypes
    <3> QED
      BY <1>2, <2>1, <2>3, <3>1 DEF Knows
  <2> QED
    BY <1>2, <1>3, <2>2, <2>3, RejectLocal
<1> QED
  BY <1>4, <1>5

\* An in-place replacement queues its searches and leaves their flags.
LEMMA RejectInPlace ==
    ASSUME RejectInv, TypeOK', NEW j \in Jobs, RefreshReplacedInPlace(j)
    PROVE  RejectInv'
<1>1. \A k \in Keys : \/ searches'[k] = ReplacedInPlace(searches[k])
                      \/ searches'[k] = searches[k] /\ gap'[k] = gap[k]
  <2>1. PICK due :
          /\ searches' = [k \in Keys |->
                IF k \in due THEN ReplacedInPlace(searches[k]) ELSE searches[k]]
          /\ gap' = [k \in Keys |->
                IF k \notin due THEN gap[k]
                ELSE IF searches[k].owner \in {NoJob, j} THEN "none" ELSE "inplace"]
    BY DEF RefreshReplacedInPlace
  <2> QED
    BY <2>1
<1>2. ASSUME NEW row \in RowType
      PROVE  /\ ReplacedInPlace(row).state = "pending" /\ ReplacedInPlace(row).replace = row.replace
             /\ ReplacedInPlace(row).owner = row.owner /\ ReplacedInPlace(row).rerun = row.rerun
  BY DEF ReplacedInPlace, RowType
<1>3. rejected' = rejected /\ job[j].phase \in Informed
  BY DEF RefreshReplacedInPlace, Informed, RunPhases
<1>4. /\ job'[j].key = job[j].key /\ job'[j].replace = job[j].replace
      /\ \A i \in Jobs \ {j} : job'[i] = job[i]
  <2>1. \E seen : job' = [job EXCEPT ![j].phase = "searching", ![j].seen = seen]
    BY DEF RefreshReplacedInPlace
  <2> QED
    BY <2>1, RejectTypes DEF TypeOK, JobType
<1>5. ASSUME NEW k \in Keys PROVE Armed(k)'
  <2>1. searches[k] \in RowType /\ Armed(k)
    BY RejectTypes
  <2> QED
    BY <1>1, <1>2, <1>3, <2>1 DEF Armed
<1>6. ASSUME NEW i \in Jobs PROVE Knows(i)'
  <2>1. SUFFICES ASSUME job[i].phase \in Informed PROVE Knows(i)'
    BY <1>3, <1>4 DEF Knows
  <2>2. job'[i].key = job[i].key /\ job'[i].replace = job[i].replace /\ job[i].key \in Keys /\ Knows(i)
    BY <1>4, <2>1, RejectTypes DEF Informed
  <2>3. /\ searches'[job[i].key].owner = searches[job[i].key].owner
        /\ searches'[job[i].key].rerun = searches[job[i].key].rerun
    BY <1>1, <1>2, <2>2, RejectTypes
  <2> QED
    BY <1>3, <2>1, <2>2, <2>3 DEF Knows
<1> QED
  BY <1>5, <1>6 DEF RejectInv

LEMMA InitReject == Init => RejectInv
<1> HAVE Init
<1>1. \A k \in Keys : Armed(k)
  BY DEF Init, Armed, NoRow
<1>2. \A j \in Jobs : Knows(j)
  BY DEF Init, Knows, Informed, RunPhases, IdleJob
<1> QED
  BY <1>1, <1>2, InitType DEF RejectInv

LEMMA NextReject == RejectInv /\ [Next]_vars => RejectInv'
<1> SUFFICES ASSUME RejectInv, [Next]_vars PROVE RejectInv'
  OBVIOUS
<1>1. TypeOK'
  BY NextType DEF RejectInv
<1>2. CASE UNCHANGED vars
  BY <1>1, <1>2, RejectTypes, RejectFrame DEF vars, Leaves
<1>3. CASE \E m \in Media : ImportEvent(m) \/ DeleteEvent(m)
  BY <1>1, <1>3, RejectEvent
<1>4. CASE \/ \E k \in Keys : BecomesDue(k) \/ LeaseExpires(k) \/ ClockJump(k) \/ UndoReject(k)
           \/ RetryThrottledSearches \/ Crash \/ EnsureConfiguredLanguageSearches
  BY <1>1, <1>4, RejectTime
<1>5. ASSUME NEW j \in Jobs, NEW k \in Keys,
             LeaseDueSearch(j, k) \/ ResolveManual(j, k) \/ PrepareReject(j, k)
      PROVE  RejectInv'
  BY <1>1, <1>5, RejectJobStep
<1>6. ASSUME NEW j \in Jobs,
             \/ RenewSearchLease(j) \/ LoseLease(j) \/ CancelJob(j) \/ AbandonJob(j)
             \/ LoadMedia(j) \/ RefreshStale(j) \/ RefreshInventory(j)
             \/ UpsertManual(j) \/ StartManual(j) \/ ClaimSearch(j) \/ ReadReplace(j)
             \/ FailManual(j) \/ ReleaseManual(j) \/ EnsureUpgradeSearch(j)
      PROVE  RejectInv'
  BY <1>1, <1>6, RejectJobStep
<1>7. ASSUME NEW j \in Jobs, FinishWorkerJob(j) \/ FinishManual(j) PROVE RejectInv'
  BY <1>1, <1>7, RejectFinish
<1>8. ASSUME NEW j \in Jobs, ReviveManual(j) PROVE RejectInv'
  BY <1>1, <1>8, RejectEvent
<1>9. ASSUME NEW j \in Jobs, RefreshReplacedInPlace(j) PROVE RejectInv'
  BY <1>1, <1>9, RejectInPlace
<1>10. ASSUME NEW j \in Jobs, RecordReject(j) PROVE RejectInv'
  BY <1>1, <1>10, RejectRecord
<1>11. ASSUME NEW j \in Jobs, SettlePendingSearch(j) PROVE RejectInv'
  BY <1>1, <1>11, RejectSettle
<1> QED
  BY <1>2, <1>3, <1>4, <1>5, <1>6, <1>7, <1>8, <1>9, <1>10, <1>11 DEF Next

\* What the owner asked for by rejecting a subtitle stays armed and queued until
\* a run that knows of it completes, it is undone or the file is gone
\* (RecordUserRejection, CompleteSearch, SearchReplaceInstalled).
THEOREM RejectionsKept == Spec => []RejectionKept
BY InitReject, NextReject, RejectImplies, PTL DEF Spec

-----------------------------------------------------------------------------
(* Leases and deleted files *)

\* What a step may do to the lease of search k: leave it, take one that is not
\* live, or end it by the owner's own doing.
LeaseStep(k) ==
    LET row == searches[k]
        new == searches'[k]
    IN  \/ new.owner = row.owner /\ (new.state = "absent" => row.state = "absent")
        \/ row.state = "absent" /\ new.owner = NoJob
        \/ ~Held(row) /\ new.state # "absent"
        \/ /\ new.owner = NoJob /\ job[row.owner].key = k
           /\ job'[row.owner].phase \in {"idle", "releasing", "upgrading"}

\* What it may do to the search of a deleted file.
EndedStep(k) ==
    (/\ media[k[1]].deleted /\ media'[k[1]].deleted
     /\ searches[k].state = "complete" /\ changes'[k] = changes[k]) =>
        searches'[k].state = "complete"

LEMMA SameRow ==
    ASSUME NEW k \in Keys, searches'[k].owner = searches[k].owner, searches'[k].state = searches[k].state
    PROVE  LeaseStep(k) /\ EndedStep(k)
BY DEF LeaseStep, EndedStep

LEMMA RowTime ==
    ASSUME TypeOK, NEW k \in Keys,
           \/ \E q \in Keys : BecomesDue(q) \/ LeaseExpires(q) \/ ClockJump(q) \/ UndoReject(q)
           \/ RetryThrottledSearches \/ Crash \/ EnsureConfiguredLanguageSearches
    PROVE  LeaseStep(k) /\ EndedStep(k)
<1>0. searches[k] \in RowType
  BY DEF TypeOK
<1>1. CASE \E q \in Keys : BecomesDue(q) \/ LeaseExpires(q) \/ ClockJump(q) \/ UndoReject(q)
  <2>1. \/ searches'[k] = searches[k]
        \/ searches'[k] = [searches[k] EXCEPT !.due = "now"]
        \/ searches'[k] = [searches[k] EXCEPT !.live = FALSE]
        \/ searches'[k] = [searches[k] EXCEPT !.replace = FALSE]
    <3>1. PICK q \in Keys : BecomesDue(q) \/ LeaseExpires(q) \/ ClockJump(q) \/ UndoReject(q)
      BY <1>1
    <3>2. \/ searches' = [searches EXCEPT ![q].due = "now"]
          \/ searches' = [searches EXCEPT ![q].live = FALSE]
          \/ searches' = [searches EXCEPT ![q].replace = FALSE]
      BY <3>1 DEF BecomesDue, LeaseExpires, ClockJump, UndoReject
    <3>3. CASE q = k
      BY <3>2, <3>3 DEF TypeOK
    <3>4. CASE q # k
      BY <3>2, <3>4 DEF TypeOK
    <3> QED
      BY <3>3, <3>4
  <2>2. searches'[k].owner = searches[k].owner /\ searches'[k].state = searches[k].state
    BY <1>0, <2>1 DEF RowType
  <2> QED
    BY <2>2, SameRow
<1>2. CASE RetryThrottledSearches
  <2>1. \/ searches'[k] = searches[k]
        \/ /\ searches'[k] = [searches[k] EXCEPT !.state = "pending", !.due = "now"]
           /\ ~media[k[1]].deleted
    BY <1>2 DEF RetryThrottledSearches, Active
  <2>2. CASE searches'[k] = searches[k]
    BY <2>2, SameRow
  <2>3. CASE searches'[k] = [searches[k] EXCEPT !.state = "pending", !.due = "now"] /\ ~media[k[1]].deleted
    <3>1. searches'[k].owner = searches[k].owner /\ searches'[k].state = "pending"
      BY <1>0, <2>3 DEF RowType
    <3> QED
      BY <2>3, <3>1 DEF LeaseStep, EndedStep
  <2> QED
    BY <2>1, <2>2, <2>3
<1>3. CASE Crash
  BY <1>3, SameRow DEF Crash
<1>4. CASE EnsureConfiguredLanguageSearches
  <2>1. \/ searches'[k] = searches[k]
        \/ searches[k].state = "absent" /\ searches'[k].owner = NoJob
    BY <1>4 DEF EnsureConfiguredLanguageSearches, Backfilled, NoRow
  <2> QED
    BY <2>1, SameRow DEF LeaseStep, EndedStep
<1> QED
  BY <1>1, <1>2, <1>3, <1>4

LEMMA RowEvent ==
    ASSUME TypeOK, NEW k \in Keys,
           \/ \E m \in Media : ImportEvent(m) \/ DeleteEvent(m)
           \/ \E j \in Jobs : ReviveManual(j)
    PROVE  LeaseStep(k) /\ EndedStep(k)
<1>0. searches[k] \in RowType
  BY DEF TypeOK
<1>1. ASSUME NEW m \in Media, NEW ident, NEW unsupported \in BOOLEAN, NEW class \in {Missing, Import},
             ImportMutation(m, ident, unsupported, class)
      PROVE  LeaseStep(k) /\ EndedStep(k)
  <2>1. CASE k \notin KeysOf(m)
    BY <1>1, <2>1, SameRow DEF ImportMutation
  <2>2. CASE k \in KeysOf(m)
    <3> DEFINE new == IF unsupported THEN Unsupported(searches[k], class) ELSE Scheduled(searches[k], class)
    <3>1. searches'[k] = new
      BY <1>1, <2>2 DEF ImportMutation
    <3>2. new.owner = searches[k].owner /\ new.state # "absent"
      BY <1>0, EventRow, EventFlag
    <3> HIDE DEF new
    <3>3. ~media'[k[1]].deleted
      BY <1>1, <2>2 DEF ImportMutation, KeysOf, TypeOK
    <3> QED
      BY <3>1, <3>2, <3>3 DEF LeaseStep, EndedStep
  <2> QED
    BY <2>1, <2>2
<1>2. CASE \E m \in Media : ImportEvent(m)
  BY <1>1, <1>2 DEF ImportEvent
<1>3. CASE \E m \in Media : DeleteEvent(m)
  <2>1. \/ searches'[k] = searches[k]
        \/ searches'[k] = [searches[k] EXCEPT !.state = "complete", !.due = "none",
                                              !.outcome = "deleted", !.rerun = FALSE]
    BY <1>3 DEF DeleteEvent
  <2>2. CASE searches'[k] = searches[k]
    BY <2>2, SameRow
  <2>3. CASE searches'[k] = [searches[k] EXCEPT !.state = "complete", !.due = "none",
                                                !.outcome = "deleted", !.rerun = FALSE]
    <3>1. searches'[k].owner = searches[k].owner /\ searches'[k].state = "complete"
      BY <1>0, <2>3 DEF RowType
    <3> QED
      BY <3>1 DEF LeaseStep, EndedStep
  <2> QED
    BY <2>1, <2>2, <2>3
<1>4. ASSUME NEW j \in Jobs, ReviveManual(j) PROVE LeaseStep(k) /\ EndedStep(k)
  <2>1. job[j].key[1] \in Media
    BY <1>4, RunningKey DEF ReviveManual
  <2>2. CASE UNCHANGED <<media, searches, history>>
    BY <2>2, SameRow
  <2>3. job[j].unsupported \in BOOLEAN
    BY <1>4 DEF TypeOK, JobType
  <2> QED
    BY <1>1, <1>4, <2>1, <2>2, <2>3 DEF ReviveManual
<1> QED
  BY <1>2, <1>3, <1>4

\* A completion ends the lease of the job that ends, and a deleted file's search.
LEMMA RowComplete ==
    ASSUME TypeOK, NEW k \in Keys, NEW j \in Jobs, job[j].phase # "idle", NEW result, NEW clear,
           CompleteSearch(j, result, clear)
    PROVE  LeaseStep(k) /\ EndedStep(k)
<1> DEFINE row == searches[k]
           deleted == media[k[1]].deleted
<1>0. row \in RowType /\ job[j].key \in Keys
  BY RunningKey DEF TypeOK
<1>1. CASE job[j].key # k \/ row.owner # j
  <2>1. searches'[k] = searches[k]
    BY <1>0, <1>1 DEF CompleteSearch, TypeOK
  <2> QED
    BY <2>1, SameRow
<1>2. CASE job[j].key = k /\ row.owner = j
  <2>1. searches'[k] = Completed(row, deleted, result, clear) /\ job'[j].phase = "idle"
    BY <1>0, <1>2 DEF CompleteSearch, TypeOK, IdleJob
  <2> HIDE DEF row, deleted
  <2> DEFINE u == Unleased(row)
             class == IF Completion(result).class = 0 THEN u.class ELSE Completion(result).class
             outcome == IF result = "throttled" THEN "throttled" ELSE "ended"
             replace == u.replace /\ ~clear
  <2>2. u \in RowType /\ u.owner = NoJob
    BY <1>0 DEF Unleased, RowType
  <2>3. Reported(row, result, clear) =
            [u EXCEPT !.state = Completion(result).state, !.due = Completion(result).due,
                      !.class = class, !.outcome = outcome, !.replace = replace]
    BY DEF Reported
  <2>4. /\ EndedByDelete(row) = [u EXCEPT !.state = "complete", !.due = "none",
                                          !.outcome = "deleted", !.replace = FALSE]
        /\ RerunDue(row) = [u EXCEPT !.state = "pending", !.outcome = ""]
    BY DEF EndedByDelete, RerunDue
  <2> HIDE DEF u, class, outcome, replace
  <2>5. /\ EndedByDelete(row).owner = NoJob /\ EndedByDelete(row).state = "complete"
        /\ RerunDue(row).owner = NoJob /\ Reported(row, result, clear).owner = NoJob
    BY <2>2, <2>3, <2>4 DEF RowType
  <2>6. searches'[k].owner = NoJob /\ (deleted => searches'[k].state = "complete")
    BY <2>1, <2>5 DEF Completed
  <2> QED
    BY <1>2, <2>1, <2>6 DEF LeaseStep, EndedStep, row, deleted
<1> QED
  BY <1>1, <1>2

LEMMA RowJob ==
    ASSUME TypeOK, NEW k \in Keys, NEW j \in Jobs,
           \/ \E q \in Keys : ResolveManual(j, q) \/ PrepareReject(j, q) \/ LeaseDueSearch(j, q)
           \/ RenewSearchLease(j) \/ LoseLease(j) \/ CancelJob(j) \/ AbandonJob(j)
           \/ LoadMedia(j) \/ RefreshStale(j) \/ RefreshInventory(j)
           \/ RefreshReplacedInPlace(j) \/ FinishWorkerJob(j)
           \/ UpsertManual(j) \/ RecordReject(j) \/ StartManual(j)
           \/ ClaimSearch(j) \/ ReadReplace(j) \/ FailManual(j) \/ FinishManual(j)
           \/ SettlePendingSearch(j) \/ ReleaseManual(j) \/ EnsureUpgradeSearch(j)
    PROVE  LeaseStep(k) /\ EndedStep(k)
<1> DEFINE row == searches[k]
           new == searches'[k]
<1>0. row \in RowType
  BY DEF TypeOK
<1>1. ASSUME NEW q \in Keys, ResolveManual(j, q) \/ PrepareReject(j, q)
      PROVE  LeaseStep(k) /\ EndedStep(k)
  BY <1>1, SameRow DEF ResolveManual, PrepareReject
<1>2. CASE \/ LoseLease(j) \/ AbandonJob(j) \/ LoadMedia(j) \/ RefreshStale(j) \/ RefreshInventory(j)
           \/ UpsertManual(j) \/ StartManual(j) \/ ReadReplace(j)
  BY <1>2, SameRow DEF LoseLease, AbandonJob, LoadMedia, RefreshStale, RefreshInventory, UpsertManual,
                       StartManual, ReadReplace
<1>3. ASSUME NEW q \in Keys, LeaseDueSearch(j, q) PROVE LeaseStep(k) /\ EndedStep(k)
  <2>1. CASE k # q
    <3>1. searches'[k] = searches[k]
      BY <1>3, <2>1 DEF LeaseDueSearch, TypeOK
    <3> QED
      BY <3>1, SameRow
  <2>2. CASE k = q
    <3>1. /\ new = [row EXCEPT !.owner = j, !.live = TRUE, !.rerun = FALSE]
          /\ ~Held(row) /\ row.state = "pending"
      BY <1>3, <2>2 DEF LeaseDueSearch, Leasable, TypeOK
    <3>2. new.state = "pending"
      BY <1>0, <3>1 DEF RowType
    <3> QED
      BY <3>1, <3>2 DEF LeaseStep, EndedStep
  <2> QED
    BY <2>1, <2>2
<1>4. CASE RenewSearchLease(j)
  <2>1. job[j].key \in Keys
    BY <1>4, RunningKey DEF RenewSearchLease, RunPhases
  <2>2. new \in {row, [row EXCEPT !.live = TRUE]}
    BY <1>4, <2>1 DEF RenewSearchLease, TypeOK
  <2>3. new.owner = row.owner /\ new.state = row.state
    BY <1>0, <2>2 DEF RowType
  <2> QED
    BY <2>3, SameRow
<1>5. CASE CancelJob(j) \/ FailManual(j) \/ ReleaseManual(j)
  <2>1. job[j].key \in Keys /\ searches' = Released(job[j].key, j)
    BY <1>5, RunningKey DEF CancelJob, FailManual, ReleaseManual
  <2>2. job'[j].phase \in {"idle", "upgrading"}
    BY <1>5 DEF CancelJob, FailManual, ReleaseManual, TypeOK, JobType, IdleJob
  <2>3. \/ new = row
        \/ new = Unleased(row) /\ job[j].key = k /\ row.owner = j
    BY <2>1 DEF Released, TypeOK
  <2>4. Unleased(row).owner = NoJob /\ Unleased(row).state = row.state
    BY <1>0 DEF Unleased, RowType
  <2> QED
    BY <2>2, <2>3, <2>4, SameRow DEF LeaseStep, EndedStep
<1>6. CASE FinishWorkerJob(j) \/ FinishManual(j)
  <2>1. job[j].phase # "idle" /\ \E result, clear : CompleteSearch(j, result, clear)
    BY <1>6 DEF FinishWorkerJob, FinishManual
  <2> QED
    BY <2>1, RowComplete
<1>7. CASE RefreshReplacedInPlace(j)
  <2>1. \/ new = row
        \/ new = ReplacedInPlace(row) /\ ~media[k[1]].deleted
    BY <1>7 DEF RefreshReplacedInPlace, ReplacedKeys
  <2>2. ReplacedInPlace(row).owner = row.owner /\ ReplacedInPlace(row).state = "pending"
    BY <1>0 DEF ReplacedInPlace, RowType
  <2> QED
    BY <2>1, <2>2, SameRow DEF LeaseStep, EndedStep
<1>8. CASE RecordReject(j)
  <2>1. job[j].key \in Keys
    BY <1>8, RunningKey DEF RecordReject
  <2>2. CASE job[j].key # k
    <3>1. new = row
      BY <1>8, <2>1, <2>2 DEF RecordReject, TypeOK
    <3> QED
      BY <3>1, SameRow
  <2>3. CASE job[j].key = k
    <3>1. new = RejectedRow(row, j) /\ changes'[k] = changes[k] + 1 /\ changes[k] \in Int
      BY <1>8, <2>1, <2>3 DEF RecordReject, TypeOK
    <3> DEFINE due == [row EXCEPT !.state = "pending", !.due = "now", !.class = Import,
                                  !.outcome = "", !.replace = TRUE]
    <3>2. due \in RowType /\ due.state = "pending" /\ due.owner = row.owner
      BY <1>0 DEF RowType
    <3>3. RejectedRow(row, j) = IF Held(row) THEN [due EXCEPT !.rerun = TRUE]
                                ELSE [due EXCEPT !.owner = j, !.live = TRUE, !.rerun = FALSE]
      BY DEF RejectedRow
    <3> HIDE DEF due
    <3>4. new.state = "pending" /\ (Held(row) => new.owner = row.owner)
      BY <3>1, <3>2, <3>3 DEF RowType
    <3>5. changes'[k] # changes[k]
      BY <3>1
    <3> QED
      BY <3>4, <3>5 DEF LeaseStep, EndedStep
  <2> QED
    BY <2>2, <2>3
<1>9. CASE ClaimSearch(j)
  <2>1. job[j].key \in Keys
    BY <1>9, RunningKey DEF ClaimSearch
  <2>2. CASE job[j].key # k
    <3>1. new = row
      BY <1>9, <2>1, <2>2 DEF ClaimSearch, TypeOK
    <3> QED
      BY <3>1, SameRow
  <2>3. CASE job[j].key = k
    <3> DEFINE fresh == [NoRow EXCEPT !.state = "pending", !.due = "now", !.class = Missing]
               queued == IF row.state = "absent" THEN fresh ELSE row
    <3>1. fresh \in RowType /\ fresh.state = "pending"
      BY NoRowType DEF RowType
    <3>2. queued \in RowType /\ queued.state # "absent" /\ (row.state = "complete" => queued = row)
      BY <1>0, <3>1
    <3>3. new = [queued EXCEPT !.owner = j, !.live = TRUE, !.rerun = FALSE] /\ Claimable(row, j)
      BY <1>9, <2>1, <2>3 DEF ClaimSearch, TypeOK
    <3> HIDE DEF queued, fresh
    <3>4. new.owner = j /\ new.state = queued.state
      BY <3>2, <3>3 DEF RowType
    <3> QED
      BY <3>2, <3>3, <3>4 DEF LeaseStep, EndedStep, Claimable
  <2> QED
    BY <2>2, <2>3
<1>10. CASE SettlePendingSearch(j)
  <2>1. job[j].key \in Keys
    BY <1>10, RunningKey DEF SettlePendingSearch
  <2>2. job'[j].phase = "releasing"
    BY <1>10 DEF SettlePendingSearch, TypeOK, JobType
  <2>3. CASE job[j].key # k \/ ~Settles(row, j)
    <3>1. new = row
      BY <1>10, <2>1, <2>3 DEF SettlePendingSearch, TypeOK
    <3> QED
      BY <3>1, SameRow
  <2>4. CASE job[j].key = k /\ Settles(row, j)
    <3>1. new = [Unleased(row) EXCEPT !.state = "complete", !.due = "none", !.outcome = "ended"]
      BY <1>10, <2>1, <2>4 DEF SettlePendingSearch, TypeOK
    <3>2. Unleased(row) \in RowType /\ Unleased(row).owner = NoJob
      BY <1>0 DEF Unleased, RowType
    <3>3. new.owner = NoJob /\ new.state = "complete"
      BY <3>1, <3>2 DEF RowType
    <3> QED
      BY <2>2, <2>4, <3>3 DEF LeaseStep, EndedStep, Settles
  <2> QED
    BY <2>3, <2>4
<1>11. CASE EnsureUpgradeSearch(j)
  <2>1. job[j].key \in Keys
    BY <1>11, RunningKey DEF EnsureUpgradeSearch
  <2>2. \/ new = row
        \/ /\ ~media[k[1]].deleted
           /\ new = [row EXCEPT !.state = "pending", !.due = "later", !.class = Upgrade,
                                !.outcome = "", !.rerun = FALSE]
    BY <1>11, <2>1 DEF EnsureUpgradeSearch, TypeOK
  <2>3. CASE new = row
    BY <2>3, SameRow
  <2>4. CASE /\ ~media[k[1]].deleted
             /\ new = [row EXCEPT !.state = "pending", !.due = "later", !.class = Upgrade,
                                  !.outcome = "", !.rerun = FALSE]
    <3>1. new.owner = row.owner /\ new.state = "pending"
      BY <1>0, <2>4 DEF RowType
    <3> QED
      BY <2>4, <3>1 DEF LeaseStep, EndedStep
  <2> QED
    BY <2>2, <2>3, <2>4
<1> QED
  BY <1>1, <1>2, <1>3, <1>4, <1>5, <1>6, <1>7, <1>8, <1>9, <1>10, <1>11

LEMMA RowStep ==
    ASSUME TypeOK, [Next]_vars
    PROVE  \A k \in Keys : LeaseStep(k) /\ EndedStep(k)
<1>1. CASE UNCHANGED vars
  BY <1>1, SameRow DEF vars
<1>2. CASE Next
  BY <1>2, RowTime, RowEvent, RowJob DEF Next
<1> QED
  BY <1>1, <1>2

\* A search without a row has no owner.
Unowned == \A k \in Keys : searches[k].state = "absent" => searches[k].owner = NoJob

LEMMA NextUnowned == TypeOK /\ Unowned /\ [Next]_vars => Unowned'
<1> SUFFICES ASSUME TypeOK, Unowned, [Next]_vars, NEW k \in Keys,
                    searches'[k].state = "absent"
             PROVE  searches'[k].owner = NoJob
  BY DEF Unowned
<1> QED
  BY RowStep DEF LeaseStep, Unowned

LEMMA UnownedInvariant == Spec => [](TypeOK /\ Unowned)
<1>1. Init => TypeOK /\ Unowned
  <2> HAVE Init
  <2>1. \A k \in Keys : searches[k].owner = NoJob
    BY DEF Init, NoRow
  <2> QED
    BY <2>1, InitType DEF Unowned
<1>2. (TypeOK /\ Unowned) /\ [Next]_vars => (TypeOK /\ Unowned)'
  BY NextType, NextUnowned
<1> QED
  BY <1>1, <1>2, PTL DEF Spec

\* The search of a deleted file that has ended stays ended, whatever a run that
\* still held it reports, until the file returns or is rejected again
\* (CompleteSearch, EnsureUpgradeSearch, ReplaceTrackInventory).
THEOREM DeletedEnds == Spec => DeletedStaysEnded
<1>1. TypeOK /\ [Next]_vars =>
        [\A k \in Keys :
            (/\ media[k[1]].deleted /\ media'[k[1]].deleted
             /\ searches[k].state = "complete" /\ changes'[k] = changes[k]) =>
                searches'[k].state = "complete"]_vars
  BY RowStep DEF EndedStep
<1> QED
  BY <1>1, TypeCorrect, PTL DEF Spec, DeletedStaysEnded

\* A settlement under a live lease is of the search's owner, which was not asked
\* to run again: it has seen every change and would know of a rejection.
LEMMA SettledUnderLease ==
    ASSUME ChangeInv, RejectInv, NEW k \in Keys, [Next]_vars, gap'[k] = "settled", gap[k] # "settled"
    PROVE  ~Held(searches[k])
<1>0. TypeOK /\ k \in Keys
  BY DEF ChangeInv
<1>1. PICK j \in Jobs : SettlePendingSearch(j)
  <2>1. gap' # gap
    OBVIOUS
  <2>2. ASSUME NEW m \in Media, NEW ident, NEW unsupported, NEW class,
               ImportMutation(m, ident, unsupported, class)
        PROVE  FALSE
    BY <2>2 DEF ImportMutation
  <2>3. ~\E m \in Media : ImportEvent(m)
    BY <2>2 DEF ImportEvent
  <2>4. ~\E m \in Media : DeleteEvent(m)
    BY DEF DeleteEvent
  <2>5. ASSUME NEW j \in Jobs PROVE ~ReviveManual(j)
    <3>1. SUFFICES ASSUME ReviveManual(j) PROVE FALSE
      OBVIOUS
    <3>2. job[j].key[1] \in Media
      BY <1>0, <3>1, RunningKey DEF ReviveManual
    <3> QED
      BY <2>1, <2>2, <3>1, <3>2 DEF ReviveManual, history
  <2>6. ASSUME NEW j \in Jobs PROVE ~RefreshReplacedInPlace(j)
    BY DEF RefreshReplacedInPlace
  <2>7. ASSUME NEW j \in Jobs PROVE ~RecordReject(j)
    <3>1. SUFFICES ASSUME RecordReject(j) PROVE FALSE
      OBVIOUS
    <3>2. gap'[k] \in {gap[k], "none"}
      BY <1>0, <3>1 DEF RecordReject, TypeOK
    <3> QED
      BY <3>2
  <2>8. ASSUME NEW j \in Jobs PROVE ~(FinishWorkerJob(j) \/ FinishManual(j))
    BY <2>1 DEF FinishWorkerJob, FinishManual, CompleteSearch
  <2>9. ASSUME NEW j \in Jobs
        PROVE  ~(\/ \E q \in Keys : ResolveManual(j, q) \/ PrepareReject(j, q) \/ LeaseDueSearch(j, q)
                 \/ RenewSearchLease(j) \/ LoseLease(j) \/ CancelJob(j) \/ AbandonJob(j)
                 \/ LoadMedia(j) \/ RefreshStale(j) \/ RefreshInventory(j)
                 \/ UpsertManual(j) \/ StartManual(j) \/ ClaimSearch(j) \/ ReadReplace(j)
                 \/ FailManual(j) \/ ReleaseManual(j) \/ EnsureUpgradeSearch(j))
    BY <2>1 DEF ResolveManual, PrepareReject, LeaseDueSearch, RenewSearchLease, LoseLease, CancelJob,
       AbandonJob, LoadMedia, RefreshStale, RefreshInventory, UpsertManual, StartManual, ClaimSearch,
       ReadReplace, FailManual, ReleaseManual, EnsureUpgradeSearch, history
  <2>10. ~(\/ \E q \in Keys : BecomesDue(q) \/ LeaseExpires(q) \/ ClockJump(q) \/ UndoReject(q)
           \/ RetryThrottledSearches \/ Crash \/ EnsureConfiguredLanguageSearches \/ UNCHANGED vars)
    BY <2>1 DEF BecomesDue, LeaseExpires, ClockJump, UndoReject, RetryThrottledSearches, Crash,
       EnsureConfiguredLanguageSearches, history, vars
  <2> QED
    BY <2>3, <2>4, <2>5, <2>6, <2>7, <2>8, <2>9, <2>10 DEF Next
<1>2. job[j].key \in Keys /\ job[j].seen \in Int /\ changes[k] \in Int /\ answered[k] \in Int
  BY <1>0, <1>1, RunningKey DEF SettlePendingSearch, TypeOK, JobType
<1>3. /\ job[j].key = k /\ Settles(searches[k], j) /\ gap[k] = "none"
      /\ (Unanswered(k) /\ job[j].seen < changes[k]) \/ rejected[k]
  BY <1>0, <1>1, <1>2 DEF SettlePendingSearch, TypeOK
<1>4. SUFFICES ASSUME Held(searches[k]) PROVE FALSE
  OBVIOUS
<1>5. searches[k].owner = j /\ ~searches[k].rerun
  BY <1>3, <1>4 DEF Settles
<1>6. job[j].phase = "searching" /\ ~job[j].replace
  BY <1>1 DEF SettlePendingSearch
<1>7. ~rejected[k]
  BY <1>3, <1>5, <1>6, RejectTypes DEF Knows, Informed, RunPhases
<1>8. Larger(answered[k], job[j].seen) >= changes[k]
  BY <1>3, <1>5, <1>6, ChangeParts DEF ChangeInv, Covers, RunPhases
<1> QED
  BY <1>2, <1>3, <1>7, <1>8 DEF Unanswered, Larger

\* A live lease is never taken from its owner, which alone gives it up, and no
\* change or rejection is settled away while one is held
\* (LeaseDueSearchesExcept, ClaimSearch, RecordUserRejection, SettlePendingSearch).
THEOREM LeasesProtect == Spec => LeaseProtects
<1>1. TypeOK /\ Unowned /\ [Next]_vars =>
        [\A k \in Keys :
            (Held(searches[k]) /\ searches'[k].owner # searches[k].owner) =>
                /\ searches'[k].owner = NoJob
                /\ job[searches[k].owner].key = k
                /\ job'[searches[k].owner].phase \in {"idle", "releasing", "upgrading"}]_vars
  BY RowStep DEF LeaseStep, Held, Unowned
<1>2. ChangeInv /\ RejectInv /\ [Next]_vars =>
        [\A k \in Keys :
            (gap'[k] = "settled" /\ gap[k] # "settled") => ~Held(searches[k])]_vars
  BY SettledUnderLease
<1>3. Spec => LiveLeaseNotStolen
  BY <1>1, UnownedInvariant, PTL DEF Spec, LiveLeaseNotStolen
<1>4. Spec => [](ChangeInv /\ RejectInv)
  BY InitChange, NextChange, InitReject, NextReject, PTL DEF Spec
<1>5. Spec => LossNeedsExpiredLease
  BY <1>2, <1>4, PTL DEF Spec, LossNeedsExpiredLease
<1> QED
  BY <1>3, <1>5 DEF LeaseProtects

=============================================================================
