----------------------------- MODULE Acquisition -----------------------------
(***************************************************************************)
(* Acquiring one subtitle: workflow.Service.Run for one media file and one *)
(* language, over as many searches as the queue starts (SearchQueue).  A   *)
(* search looks in the pack cache, asks the preferred providers for exact  *)
(* and then for broad matches, downloads the best candidates, times their  *)
(* versions with LAPSE and installs the first that fits; then it turns to  *)
(* the fallback providers.  What a candidate is rejected for is kept, so   *)
(* that later searches go on with the next ones.  The owner may reject the *)
(* installed subtitle, which the next search replaces or removes.          *)
(*                                                                         *)
(* A candidate has one or more versions (the members of a pack that match  *)
(* the episode); a version is <<candidate, n>>.  What the providers offer  *)
(* and what each version is worth is fixed; what fails, and when, is not.  *)
(***************************************************************************)
EXTENDS Naturals, FiniteSets

CONSTANTS
    Preferred, Fallback,    \* the two tiers of the route: sets of providers
    Candidates,             \* what the providers offer, all above the minimum score
    ProviderOf, ScoreOf,    \* functions on Candidates
    Exact,                  \* the candidates that match the file's hash
    VersionCount,           \* Candidates -> Nat \ {0}
    Kinds,                  \* candidate -> what its versions may turn out to be
    None,
    Delta,                  \* MinimumUpgradeDelta
    MaxTried,               \* candidates tried in one tier's tournament (3 in the code)
    MaxVersions,            \* maxEpisodeVersions
    MaxRejects,             \* bound: rejections by the owner
    MaxFaults               \* bound: failures of providers, LAPSE, the mount and the store

\* What LAPSE and the installer make of a version: it fits; LAPSE finds no
\* match; it fits but the installer's validation refuses it; LAPSE exits with
\* 2 and no output.
Verdicts == {"fits", "off", "invalid", "crash"}

ASSUME BoundAssumption == MaxTried \in Nat \ {0} /\ MaxVersions \in Nat \ {0} /\ Delta \in Nat \ {0}
ASSUME OfferAssumption ==
    /\ Preferred \cap Fallback = {}
    /\ ProviderOf \in [Candidates -> Preferred \cup Fallback]
    /\ ScoreOf \in [Candidates -> Nat]
    /\ VersionCount \in [Candidates -> Nat \ {0}]
    /\ Kinds \in [Candidates -> SUBSET Verdicts]
    /\ IsFiniteSet(Candidates) /\ Exact \subseteq Candidates
    /\ None \notin Candidates /\ \A c \in Candidates : \A n \in 1 .. VersionCount[c] : None # <<c, n>>
    \* An exact candidate is one file, and LAPSE is not run on it.
    /\ \A c \in Exact : VersionCount[c] = 1 /\ Kinds[c] \subseteq {"fits", "invalid"}

VARIABLES
    verdict,    \* version -> what it is worth
    mount,      \* "up", or "down": the media file cannot be read
    avail,      \* provider -> "up", "paused" (cooldown, quota) or "disabled"
    rejected,   \* candidate_rejections: versions, and <<c, 0>> for a whole candidate
    owner,      \* the rejections among them that are the owner's
    strikes,    \* candidate_lapse_failures: versions LAPSE exited on once
    installed,  \* the installed version, or None
    replacing,  \* the queued search replaces the installed subtitle
    cache,      \* the packs in the pack cache
    resume,     \* the providers a retry skips, stored with the search
    run,        \* the running search
    rejects, faults

stored == <<rejected, owner, strikes, installed, replacing, cache, resume>>
world == <<verdict, mount, avail, rejects>>
vars == <<verdict, mount, avail, rejected, owner, strikes, installed, replacing, cache, resume, run, rejects, faults>>

Providers == Preferred \cup Fallback
Versions(c) == {<<c, n>> : n \in 1 .. VersionCount[c]}
AllVersions == UNION {Versions(c) : c \in Candidates}
IsPack(c) == VersionCount[c] > 1
TierProviders(t) == IF t = "preferred" THEN Preferred ELSE Fallback

\* A search in progress.
NoRun == [
    pc |-> "idle",          \* "cache", "exact", "broad": to look there next; "work": to try what
                            \* was found; "done": the tier ended
    outcome |-> "none",     \* how it ended
    stage |-> "cache",      \* where the candidates at work were found
    tier |-> "preferred",
    todo |-> {},            \* the candidates of later score tiers
    turn |-> {},            \* the candidates of this score tier still to download
    cand |-> None,          \* the one being prepared
    members |-> {},         \* its chosen versions still to prepare
    allRejected |-> TRUE,   \* every one so far was rejected
    ready |-> {},           \* prepared versions to install
    prepared |-> {},        \* all that were prepared in this score tier
    keep |-> {},            \* the packs that may not be rejected as a whole
    tried |-> {},           \* attemptedArtifacts
    failures |-> {},        \* candidateFailures: "technical", "unavailable"
    answers |-> [p \in Providers |-> "ok"],    \* ProviderErrors
    missed |-> {},          \* the providers that failed the exact search of their tier
    sawExact |-> FALSE,     \* it found something
    empty |-> {},           \* cleanEmptyProviders
    assessed |-> FALSE,     \* the installed candidate was found again
    timeout |-> FALSE,      \* LAPSE timed out in this search
    first |-> "none"]       \* how the preferred tier ended

-----------------------------------------------------------------------------
(* The decisions.                                                           *)

\* Mutant: only rejections recorded without an artifact count.
RejectedWhole(c) == <<c, 0>> \in rejected

\* candidateRejection without an artifact: a rejection of the candidate, or
\* of the one artifact it has.  Versions of a pack have scopes of their own.
CandidateRejected(c) == <<c, 0>> \in rejected \/ (~IsPack(c) /\ <<c, 1>> \in rejected)

\* The installed subtitle counts as installed unless it is being replaced.
ActiveInstallation == installed # None /\ ~replacing

SameCandidate(c) == ActiveInstallation /\ installed[1] = c

\* Mutant: anything replaces a subtitle that is not exact.
AnyUpgrade(c) == installed[1] \notin Exact

\* shouldUpgrade and ShouldUpgrade.
ShouldUpgrade(c) ==
    LET old == installed[1]
    IN  CASE ProviderOf[old] \in Fallback /\ ProviderOf[c] \in Preferred -> TRUE
          [] ProviderOf[old] \in Preferred /\ ProviderOf[c] \in Fallback -> FALSE
          [] OTHER -> /\ old \notin Exact
                      /\ c \in Exact \/ ScoreOf[c] >= ScoreOf[old] + Delta

Allowed(c) == ActiveInstallation => (~SameCandidate(c) /\ ShouldUpgrade(c))

\* Run: nothing is left to find.
Satisfied == ActiveInstallation /\ installed[1] \in Exact /\ ProviderOf[installed[1]] \in Preferred

\* The candidates worth downloading.
Eligible(cs) == {c \in cs : Allowed(c) /\ ~CandidateRejected(c)}

\* An exact candidate is tried alone; otherwise the best ones are.
Tournament(cs) ==
    IF cs \cap Exact # {}
      THEN {{c} : c \in cs \cap Exact}
      ELSE {best \in SUBSET cs :
              /\ Cardinality(best) = IF Cardinality(cs) < MaxTried THEN Cardinality(cs) ELSE MaxTried
              /\ \A c \in best, d \in cs \ best : ScoreOf[c] >= ScoreOf[d]}

Best(cs) == {c \in cs : \A d \in cs : ScoreOf[c] >= ScoreOf[d]}

\* SelectUntriedAlternatives: at most MaxVersions versions, untried ones first.
Untried(c) == Versions(c) \ rejected
Selections(c) ==
    IF Cardinality(Versions(c)) <= MaxVersions THEN {Versions(c)}
    ELSE {vs \in SUBSET Versions(c) :
            /\ Cardinality(vs) = MaxVersions
            /\ vs \subseteq Untried(c) \/ Untried(c) \subseteq vs}

\* Mutant: the untried versions that had no place are forgotten.
NothingLeft(c) == FALSE

UntriedLeft(c) == Cardinality(Untried(c)) > MaxVersions

-----------------------------------------------------------------------------
Init ==
    /\ verdict \in {f \in [AllVersions -> Verdicts] : \A v \in AllVersions : f[v] \in Kinds[v[1]]}
    /\ mount = "up"
    /\ avail = [p \in Providers |-> "up"]
    /\ rejected = {} /\ owner = {} /\ strikes = {}
    /\ installed = None /\ replacing = FALSE
    /\ cache = {} /\ resume = {}
    /\ run = NoRun
    /\ rejects = 0 /\ faults = 0

-----------------------------------------------------------------------------
(* The world.                                                               *)

Fault == faults < MaxFaults /\ faults' = faults + 1

\* A cooldown, a quota or a failed login.
ProviderPauses(p, how) ==
    /\ Fault
    /\ avail[p] = "up"
    /\ avail' = [avail EXCEPT ![p] = how]
    /\ UNCHANGED <<verdict, mount, rejects, stored, run>>

ProviderResumes(p) ==
    /\ avail[p] = "paused"
    /\ avail' = [avail EXCEPT ![p] = "up"]
    /\ UNCHANGED <<verdict, mount, rejects, stored, run, faults>>

MountDrops ==
    /\ Fault
    /\ mount = "up" /\ mount' = "down"
    /\ UNCHANGED <<verdict, avail, rejects, stored, run>>

\* A mount that comes and goes within one LAPSE run is not modelled.
MountReturns ==
    /\ mount = "down" /\ mount' = "up"
    /\ run.pc = "idle"
    /\ UNCHANGED <<verdict, avail, rejects, stored, run, faults>>

\* RejectInstallation: the owner rejects the installed version and asks for
\* another one.
OwnerRejects ==
    /\ rejects < MaxRejects
    /\ run.pc = "idle" /\ installed # None
    /\ rejects' = rejects + 1
    /\ rejected' = rejected \cup {installed}
    /\ owner' = owner \cup {installed}
    /\ replacing' = TRUE
    /\ UNCHANGED <<verdict, mount, avail, strikes, installed, cache, resume, run, faults>>

-----------------------------------------------------------------------------
(* How a search ends.                                                       *)

\* mergeResumeProviders and finishProviderResume: a throttled or failed
\* search without an installation remembers who had nothing.
Resumed(outcome) ==
    IF ActiveInstallation \/ outcome \notin {"throttled", "failed"} THEN {}
    ELSE resume \cup run.empty

Ends(outcome) ==
    /\ run' = NoRun
    /\ resume' = Resumed(outcome)

\* An error that ends the search: the mount, the store or the install failed.
Aborts ==
    /\ Ends("failed")
    /\ UNCHANGED <<rejected, owner, strikes, installed, replacing, cache>>

\* The daemon stops or dies; the lease expires and the search is queued as it was.
Crash ==
    /\ Fault
    /\ run.pc # "idle" /\ run' = NoRun
    /\ UNCHANGED <<world, stored>>

\* Mutant: a provider's failure does not keep the rejected subtitle.
NoFailures == {}

\* result.ProviderErrors of both tiers.
ProviderFailures == {p \in Providers : run.answers[p] # "ok"}

\* replaceInstalled and removeRejected: the rejected subtitle goes when the
\* search finished with nothing acceptable.
Finish(outcome) ==
    IF replacing /\ outcome \in {"no_result", "rejected"} /\ ProviderFailures = {}
      THEN /\ installed' = None /\ replacing' = FALSE
           /\ Ends("removed")
      ELSE /\ Ends(IF replacing /\ outcome \in {"no_result", "rejected"} THEN "failed" ELSE outcome)
           /\ UNCHANGED <<installed, replacing>>

\* runProviderTiers: the second tier is not asked when the first one settled
\* the matter, or a preferred or an exact subtitle is already installed.
SecondTier(outcome) ==
    /\ run.tier = "preferred" /\ Fallback # {}
    /\ outcome # "satisfied"
    /\ ActiveInstallation => ProviderOf[installed[1]] \in Fallback /\ installed[1] \notin Exact

\* A technical failure of either tier ends the search as failed; a first tier
\* that is to be retried, or found something, is not forgotten.
Merged(outcome) ==
    IF run.first = "failed" \/ outcome = "failed" THEN "failed"
    ELSE IF run.first = "throttled" THEN "throttled"
    ELSE IF run.first = "rejected" /\ outcome = "no_result" THEN "rejected"
    ELSE outcome

\* One tier ended without an install.
EndTier ==
    /\ run.pc = "done"
    /\ IF SecondTier(run.outcome)
         THEN /\ run' = [NoRun EXCEPT !.pc = "cache", !.tier = "fallback", !.first = run.outcome,
                                      !.answers = run.answers, !.missed = run.missed, !.empty = run.empty,
                                      !.tried = run.tried, !.timeout = run.timeout]
              /\ UNCHANGED <<installed, replacing, resume>>
         ELSE Finish(Merged(run.outcome))
    /\ UNCHANGED <<world, rejected, owner, strikes, cache, faults>>

-----------------------------------------------------------------------------
(* Searching.                                                               *)

\* Run: the inventory is refreshed first, which fails while the mount is down.
Begin ==
    /\ run.pc = "idle"
    /\ mount = "up"
    /\ ~Satisfied
    /\ run' = [NoRun EXCEPT !.pc = "cache"]
    /\ UNCHANGED <<world, stored, faults>>

\* To work on the candidates cs of a stage: the first score tier's turn.
\* Exact candidates take their turns one by one.
NextTurn(r, cs) ==
    {[r EXCEPT !.pc = "work", !.turn = turn, !.todo = cs \ turn, !.prepared = {}] :
        turn \in IF r.stage = "exact" THEN {{c} : c \in cs} ELSE {Best(cs)}}

\* prepareMembers begins with the chosen versions of c.
Preparing(r, c, members) ==
    [r EXCEPT !.cand = c, !.members = members, !.allRejected = TRUE,
              !.keep = IF UntriedLeft(c) THEN @ \cup {c} ELSE @]

\* findUnrejectedPack: the cached packs this tier may use that have an untried
\* version; one that has none left is exhausted.
LookInCache ==
    /\ run.pc = "cache"
    /\ LET packs == {c \in cache : ProviderOf[c] \in TierProviders(run.tier)}
           usable == {c \in packs : Untried(c) # {}}
       IN  /\ rejected' = rejected \cup {<<c, 0>> : c \in packs \ usable}
           /\ \/ usable = {} /\ run' = [run EXCEPT !.pc = "exact"]
              \/ \E c \in usable :
                   /\ ~Allowed(c)
                   /\ run' = [run EXCEPT !.pc = "exact", !.assessed = SameCandidate(c)]
              \/ \E c \in usable : \E members \in Selections(c) :
                   /\ Allowed(c)
                   /\ run' = Preparing([run EXCEPT !.pc = "work", !.stage = "cache", !.turn = {c}], c, members)
    /\ UNCHANGED <<world, owner, strikes, installed, replacing, cache, resume, faults>>

\* What the providers of the tier answer that are not skipped: "error" is a
\* technical failure.  A paused provider may still answer from the search cache.
Asked == TierProviders(run.tier) \ (IF ActiveInstallation THEN {} ELSE resume)

MayAnswer(p, a) ==
    CASE a = "ok" -> avail[p] # "disabled"
      [] a = "error" -> avail[p] = "up"
      [] OTHER -> avail[p] = a

Outcomes ==
    {a \in [Asked -> {"ok", "error", "paused", "disabled"}] :
        /\ \A p \in Asked : MayAnswer(p, a[p])
        /\ Cardinality({p \in Asked : a[p] = "error"}) <= 1}

Spends(a) == IF \E p \in DOMAIN a : a[p] = "error" THEN Fault ELSE UNCHANGED faults

Offered(a) == {c \in Candidates : ProviderOf[c] \in DOMAIN a /\ a[ProviderOf[c]] = "ok"}

\* The exact search; its candidates are tried one by one (tryExactCandidates).
\* An exact candidate that is already installed settles the search.
SearchExact(a) ==
    /\ run.pc = "exact"
    /\ Spends(a)
    /\ LET found == Offered(a) \cap Exact
           searched == [run EXCEPT !.stage = "exact", !.sawExact = found # {},
                                   !.missed = @ \cup {p \in Asked : a[p] # "ok"}]
           todo == {c \in found : ~CandidateRejected(c)}
       IN  \/ mount = "down" /\ Aborts
           \/ /\ mount = "up"
              /\ run' \in IF \E c \in found : SameCandidate(c)
                            THEN {[searched EXCEPT !.pc = "done", !.outcome = "satisfied"]}
                          ELSE IF todo = {} THEN {[searched EXCEPT !.pc = "broad"]}
                          ELSE NextTurn(searched, todo)
              /\ UNCHANGED stored
    /\ UNCHANGED world

\* Mutant: an error in the exact search does not count.
CleanInBroadSearch(a, found) == {p \in Asked : a[p] = "ok" /\ \A c \in found : ProviderOf[c] # p}

\* cleanEmpty: the providers that answered both searches with nothing.
CleanEmpty(a, found) ==
    {p \in Asked :
        /\ a[p] = "ok" /\ \A c \in found : ProviderOf[c] # p
        /\ p \notin run.missed /\ \A c \in Exact : ProviderOf[c] # p}

\* classifyCandidateFailures.
Classified(otherwise) ==
    CASE run.failures = {} -> otherwise
      [] run.failures = {"unavailable"} -> "throttled"
      [] OTHER -> "failed"

\* The verdict on a broad search that leaves nothing to try: an installation
\* found again, a tier without an answer, or one that is waited for.
NothingToTry(a, found) ==
    IF run.assessed \/ \E c \in found : SameCandidate(c) THEN "satisfied"
    ELSE IF found = {} /\ Asked # {} /\ \A p \in Asked : a[p] \in {"paused", "disabled"} THEN "throttled"
    ELSE IF found = {} /\ Asked # {} /\ \A p \in Asked : a[p] # "ok" THEN "failed"
    ELSE IF ~ActiveInstallation /\ \E p \in Asked : a[p] = "paused" THEN "throttled"
    ELSE Classified(IF found # {} \/ run.sawExact THEN "rejected" ELSE "no_result")

\* The broad search, which finds exact candidates as such or not at all.
SearchBroad(a, found) ==
    /\ run.pc = "broad"
    /\ Spends(a)
    /\ LET searched == [run EXCEPT !.stage = "broad", !.empty = @ \cup CleanEmpty(a, found),
                                   !.answers = [p \in Providers |-> IF p \in Asked THEN a[p] ELSE @[p]]]
       IN  \/ mount = "down" /\ Aborts
           \/ /\ mount = "up"
              /\ run' \in IF Eligible(found) = {}
                            THEN {[searched EXCEPT !.pc = "done", !.outcome = NothingToTry(a, found)]}
                          ELSE UNION {NextTurn(searched, cs) : cs \in Tournament(Eligible(found))}
              /\ UNCHANGED stored
    /\ UNCHANGED world

-----------------------------------------------------------------------------
(* Trying candidates.                                                       *)

Working == run.pc = "work" /\ mount = "up"

\* The mount is gone: what LAPSE would say of the subtitles now counts for nothing.
MountLost ==
    /\ run.pc = "work" /\ mount = "down"
    /\ Aborts
    /\ UNCHANGED <<world, faults>>

\* A candidate that came to nothing.
Dropped(c) == [run EXCEPT !.turn = @ \ {c}]

Idle(c) == Working /\ run.cand = None /\ c \in run.turn

\* downloadAndSelectMembers: a pack goes into the cache.
Download(c) ==
    /\ Idle(c) /\ avail[ProviderOf[c]] = "up"
    /\ \E members \in Selections(c) : run' = Preparing(run, c, members)
    /\ cache' = IF IsPack(c) THEN cache \cup {c} ELSE cache
    /\ UNCHANGED <<world, rejected, owner, strikes, installed, replacing, resume, faults>>

\* The payload is damaged, or holds nothing for the episode.
DownloadUseless(c) ==
    /\ Idle(c) /\ avail[ProviderOf[c]] = "up"
    /\ \A v \in Versions(c) : verdict[v] = "off"
    /\ rejected' = rejected \cup {<<c, 0>>}
    /\ run' = Dropped(c)
    /\ UNCHANGED <<world, owner, strikes, installed, replacing, cache, resume, faults>>

\* CheckDownloadAvailability; the error joins ProviderErrors.
DownloadUnavailable(c) ==
    /\ Idle(c) /\ avail[ProviderOf[c]] # "up"
    /\ run' = [Dropped(c) EXCEPT !.failures = @ \cup {"unavailable"}, !.answers[ProviderOf[c]] = avail[ProviderOf[c]]]
    /\ UNCHANGED <<world, stored, faults>>

DownloadFails(c) ==
    /\ Idle(c) /\ Fault
    /\ run' = [Dropped(c) EXCEPT !.failures = @ \cup {"technical"}]
    /\ UNCHANGED <<world, stored>>

\* prepareMembers takes the next version v.
Prepares(v) == Working /\ v \in run.members

\* A version that stays for a later search, so its pack does too.
NotJudged(v) == [run EXCEPT !.members = @ \ {v}, !.allRejected = FALSE, !.keep = @ \cup {v[1]}]
Failed(v) == [NotJudged(v) EXCEPT !.tried = @ \cup {v}, !.failures = @ \cup {"technical"}]

\* candidateRejection (asked here of a pack's versions only) and
\* beginCandidatePreparation: versions that are not tried.
KnownRejected(v) == IsPack(v[1]) /\ v \in rejected

SkipVersion(v) ==
    /\ Prepares(v)
    /\ \/ KnownRejected(v) /\ run' = [run EXCEPT !.members = @ \ {v}]
       \/ ~KnownRejected(v) /\ v \in run.tried /\ run' = NotJudged(v)
    /\ UNCHANGED <<world, stored, faults>>

Fresh(v) == Prepares(v) /\ ~KnownRejected(v) /\ v \notin run.tried

\* A timeout is reused for the rest of the search; LAPSE is not run on exact ones.
RunsLapse(v) == Fresh(v) /\ v[1] \notin Exact

LapseFails(v) ==
    /\ RunsLapse(v)
    /\ \/ run.timeout /\ run' = Failed(v) /\ UNCHANGED faults
       \/ ~run.timeout /\ Fault /\ \E t \in BOOLEAN : run' = [Failed(v) EXCEPT !.timeout = t]
    /\ UNCHANGED <<world, stored>>

\* Mutant: every silent exit counts as the first.
LapseExitsAfresh(v) ==
    /\ RunsLapse(v) /\ ~run.timeout /\ verdict[v] = "crash"
    /\ strikes' = strikes \cup {v} /\ run' = Failed(v)
    /\ UNCHANGED <<world, rejected, owner, installed, replacing, cache, resume, faults>>

\* RecordCandidateLapseFailure: the second silent exit rejects the version.
LapseExits(v) ==
    /\ RunsLapse(v) /\ ~run.timeout /\ verdict[v] = "crash"
    /\ IF v \in strikes
         THEN /\ strikes' = strikes \ {v} /\ rejected' = rejected \cup {v}
              /\ run' = [run EXCEPT !.members = @ \ {v}, !.tried = @ \cup {v}]
         ELSE /\ strikes' = strikes \cup {v} /\ run' = Failed(v)
              /\ UNCHANGED rejected
    /\ UNCHANGED <<world, owner, installed, replacing, cache, resume, faults>>

\* recordCandidateRejection, as the media file is readable.
LapseRejects(v) ==
    /\ RunsLapse(v) /\ ~run.timeout /\ verdict[v] = "off"
    /\ rejected' = rejected \cup {v}
    /\ run' = [run EXCEPT !.members = @ \ {v}, !.tried = @ \cup {v}]
    /\ UNCHANGED <<world, owner, strikes, installed, replacing, cache, resume, faults>>

\* Mutant: a version that is ready is not listed as prepared.
LapseSolidUnlisted(v) ==
    /\ Fresh(v) /\ (v[1] \in Exact \/ ~run.timeout) /\ verdict[v] \in {"fits", "invalid"}
    /\ run' = [run EXCEPT !.members = @ \ {v}, !.tried = @ \cup {v}, !.allRejected = FALSE, !.ready = @ \cup {v}]
    /\ UNCHANGED <<world, stored, faults>>

LapseSolid(v) ==
    /\ Fresh(v) /\ (v[1] \in Exact \/ ~run.timeout) /\ verdict[v] \in {"fits", "invalid"}
    /\ run' = [run EXCEPT !.members = @ \ {v}, !.tried = @ \cup {v}, !.allRejected = FALSE,
                          !.ready = @ \cup {v}, !.prepared = @ \cup {v}]
    /\ UNCHANGED <<world, stored, faults>>

\* prepareMembers ends: a pack all of whose versions are rejected is exhausted.
\* An excellent result spares the other candidates of the score tier.
EndCandidate ==
    /\ Working /\ run.cand # None /\ run.members = {}
    /\ LET c == run.cand
       IN  /\ rejected' = IF IsPack(c) /\ run.allRejected /\ c \notin run.keep THEN rejected \cup {<<c, 0>>} ELSE rejected
           /\ run' \in {[Dropped(c) EXCEPT !.cand = None]} \cup
                (IF run.stage = "broad" /\ run.ready \cap Versions(c) # {}
                   THEN {[run EXCEPT !.turn = {}, !.cand = None]} ELSE {})
    /\ UNCHANGED <<world, owner, strikes, installed, replacing, cache, resume, faults>>

\* install: the versions that are ready, the best first.
Installs(v) == Working /\ run.cand = None /\ run.turn = {} /\ v \in run.ready

Install(v) ==
    /\ Installs(v) /\ verdict[v] = "fits"
    /\ installed' = v /\ replacing' = FALSE
    /\ run' = NoRun /\ resume' = {}
    /\ UNCHANGED <<world, rejected, owner, strikes, cache, faults>>

InstallRefused(v) ==
    /\ Installs(v) /\ verdict[v] = "invalid"
    /\ rejected' = rejected \cup {v}
    /\ run' = [run EXCEPT !.ready = @ \ {v}]
    /\ UNCHANGED <<world, owner, strikes, installed, replacing, cache, resume, faults>>

InstallFails(v) ==
    /\ Installs(v) /\ Fault
    /\ Aborts
    /\ UNCHANGED world

\* rejectExhaustedVersions, then the next score tier or the next stage.
Exhausted(c) == IsPack(c) /\ c \notin run.keep /\ run.prepared \cap Versions(c) \subseteq rejected

EndScoreTier ==
    /\ Working /\ run.cand = None /\ run.turn = {} /\ run.ready = {}
    /\ rejected' = rejected \cup {<<c, 0>> : c \in {c \in {v[1] : v \in run.prepared} : Exhausted(c)}}
    /\ run' \in CASE run.todo # {} -> NextTurn(run, run.todo)
                  [] run.todo = {} /\ run.stage = "cache" -> {[run EXCEPT !.pc = "exact", !.prepared = {}, !.keep = {}]}
                  [] run.todo = {} /\ run.stage = "exact" -> {[run EXCEPT !.pc = "broad", !.prepared = {}, !.keep = {}]}
                  [] OTHER -> {[run EXCEPT !.pc = "done", !.outcome = Classified("rejected")]}
    /\ UNCHANGED <<world, owner, strikes, installed, replacing, cache, resume, faults>>

-----------------------------------------------------------------------------
World == \/ \E p \in Providers : ProviderResumes(p) \/ \E how \in {"paused", "disabled"} : ProviderPauses(p, how)
         \/ MountDrops \/ MountReturns \/ OwnerRejects \/ Crash

Search == \/ Begin \/ LookInCache
          \/ \E a \in Outcomes : \/ SearchExact(a)
                                 \/ \E found \in {Offered(a), Offered(a) \ Exact} : SearchBroad(a, found)
          \/ EndTier

Candidate == \E c \in run.turn : Download(c) \/ DownloadUseless(c) \/ DownloadUnavailable(c) \/ DownloadFails(c)

Version == \E v \in run.members : \/ SkipVersion(v) \/ LapseFails(v) \/ LapseExits(v)
                                  \/ LapseRejects(v) \/ LapseSolid(v)

Settle == \/ EndCandidate \/ EndScoreTier \/ MountLost
          \/ \E v \in run.ready : Install(v) \/ InstallRefused(v) \/ InstallFails(v)

Next == World \/ Search \/ Candidate \/ Version \/ Settle

\* The queue starts a search again and again, its steps end, the mount comes
\* back and a paused provider's reset passes.
Fairness ==
    /\ WF_vars(Search \/ Candidate \/ Version \/ Settle)
    /\ WF_vars(MountReturns)
    /\ \A p \in Providers : WF_vars(ProviderResumes(p))

Spec == Init /\ [][Next]_vars /\ Fairness

-----------------------------------------------------------------------------
\* The type of the state; what is ready to install was prepared in this score
\* tier, so that EndScoreTier judges it (prepareMembers).
TypeOK ==
    /\ rejected \subseteq AllVersions \cup {<<c, 0>> : c \in Candidates}
    /\ owner \subseteq rejected /\ strikes \subseteq AllVersions
    /\ installed \in AllVersions \cup {None} /\ replacing \in BOOLEAN
    /\ cache \subseteq Candidates /\ resume \subseteq Providers
    /\ run.ready \subseteq run.prepared /\ run.members \subseteq AllVersions

Acceptable(v) == verdict[v] = "fits" /\ v \notin owner

\* Nothing that fits is set aside: neither a version, whatever the mount, LAPSE
\* and the store did while it was tried, nor a pack while one of its versions
\* still fits, tried or not (prepareMembers, rejectExhaustedVersions, the pack
\* cache's exhaustion).
OnlyUnfitRejected ==
    \A r \in rejected \ owner :
        IF r[2] = 0 THEN \A v \in Versions(r[1]) : ~Acceptable(v) ELSE verdict[r] # "fits"

\* A version the owner rejected does not come back, from a provider or from
\* the pack cache, once it has been replaced (candidateRejection,
\* findUnrejectedPack).
RejectedStaysAway == installed # None /\ ~replacing => installed \notin rejected

\* A retry skips only providers that have nothing to offer (provider_resume.go).
ResumeSound == \A p \in resume, c \in Candidates : ProviderOf[c] # p

\* What later searches leave aside has nothing to offer, and what the owner
\* rejected is among it (recordCandidateRejection, provider_resume.go).
SetAsideRightly == TypeOK /\ OnlyUnfitRejected /\ RejectedStaysAway /\ ResumeSound

\* The candidates a search does not get to: an exact one whose provider failed
\* the exact search, and those that such a one was tried instead of when the
\* broad search found it; versions or candidates beyond what it tries; and
\* those spared by a clear result of another with their score, which the
\* installer then refused.
OutOfReach(c) ==
    \/ c \in Exact /\ ProviderOf[c] \in run.missed
    \/ VersionCount[c] > MaxVersions
    \/ \E t \in {Preferred, Fallback} :
         /\ ProviderOf[c] \in t
         /\ \/ \E x \in Exact : ProviderOf[x] \in t \cap run.missed /\ Versions(x) \subseteq run.tried
            \/ \E d \in Candidates \ {c} : /\ ProviderOf[d] \in t /\ ScoreOf[d] = ScoreOf[c]
                                          /\ \E v \in Versions(d) \cap run.tried : verdict[v] = "invalid"
            \/ MaxTried <= Cardinality({d \in Candidates \ (Exact \cup {c}) :
                                        ProviderOf[d] \in t /\ ScoreOf[d] >= ScoreOf[c]})

\* The rejected subtitle is removed only when nothing acceptable is in the
\* search's reach: not after a provider failed the broad search or a download,
\* or LAPSE or the store failed, in either tier, and not while an exact match
\* that the exact search found could still be tried.  A provider that failed
\* only the exact search puts its exact matches out of reach: see
\* KeptOnProviderFailure (replaceInstalled).
RemovalJustified ==
    [][installed # None /\ installed' = None
        => \A c \in Candidates : OutOfReach(c) \/ \A v \in Versions(c) : ~Acceptable(v)]_vars

\* What docs/commands.md and the comment in replaceInstalled say: a provider
\* that failed keeps the rejected subtitle for a later search.  The errors of
\* the exact search are dropped (acquire), so the code does not.
KeptOnProviderFailure ==
    [][installed # None /\ installed' = None => run.missed = {} /\ ProviderFailures = {}]_vars

\* What is preferred to what: the tier, then an exact match, then the score.
Better(c, d) ==
    \/ ProviderOf[c] \in Preferred /\ ProviderOf[d] \in Fallback
    \/ /\ \E t \in {Preferred, Fallback} : {ProviderOf[c], ProviderOf[d]} \subseteq t
       /\ \/ c \in Exact /\ d \notin Exact
          \/ d \notin Exact /\ ScoreOf[c] > ScoreOf[d]

\* A subtitle nobody rejected is replaced only by a better one, by whichever
\* of the pack cache, the exact and the broad search it came (shouldUpgrade).
NoDowngrade ==
    [][installed # None /\ ~replacing /\ installed' \notin {installed, None}
        => Better(installed'[1], installed[1])]_vars

\* When a provider that is not switched off has a subtitle that fits, one is
\* installed in the end, however many others are tried and rejected first
\* (acquire, recordCandidateRejection, RecordCandidateLapseFailure).
EventuallyInstalled ==
    (\E v \in AllVersions : Acceptable(v) /\ avail[ProviderOf[v[1]]] # "disabled")
        ~> (installed # None \/ ~\E v \in AllVersions : Acceptable(v) /\ avail[ProviderOf[v[1]]] # "disabled")
=============================================================================
