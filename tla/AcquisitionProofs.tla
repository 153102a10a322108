-------------------------- MODULE AcquisitionProofs --------------------------
(***************************************************************************)
(* Proofs about Acquisition: what later searches leave aside has nothing   *)
(* to offer, an installed subtitle is replaced only by a better one, and a *)
(* rejected one is removed only when nothing acceptable is in reach.       *)
(***************************************************************************)
EXTENDS Acquisition, FiniteSetTheorems, TLAPS

(* What the state of a search may be.                                       *)

Endings == {"satisfied", "throttled", "failed", "rejected", "no_result"}
RunType == [
    pc : {"idle", "cache", "exact", "broad", "work", "done"}, outcome : Endings \cup {"none"},
    stage : {"cache", "exact", "broad"}, tier : {"preferred", "fallback"},
    todo : SUBSET Candidates, turn : SUBSET Candidates, cand : Candidates \cup {None},
    members : SUBSET AllVersions, allRejected : BOOLEAN, ready : SUBSET AllVersions,
    prepared : SUBSET AllVersions, keep : SUBSET Candidates, tried : SUBSET AllVersions,
    failures : SUBSET {"technical", "unavailable"},
    answers : [Providers -> {"ok", "error", "paused", "disabled"}],
    missed : SUBSET Providers, sawExact : BOOLEAN, empty : SUBSET Providers,
    assessed : BOOLEAN, timeout : BOOLEAN, first : Endings \cup {"none"}]

StoredOK ==
    /\ verdict \in [AllVersions -> Verdicts] /\ \A v \in AllVersions : verdict[v] \in Kinds[v[1]]
    /\ rejected \subseteq AllVersions \cup {<<c, 0>> : c \in Candidates}
    /\ owner \subseteq rejected \cap AllVersions /\ strikes \subseteq AllVersions
    /\ installed \in AllVersions \cup {None} /\ replacing \in BOOLEAN
    /\ cache \subseteq {c \in Candidates : IsPack(c)} /\ resume \subseteq Providers
    /\ avail \in [Providers -> {"up", "paused", "disabled"}]

\* Where a search is says what it has in hand.
InHand ==
    /\ run.pc = "idle" => run = NoRun
    /\ run.pc # "work" => run.turn = {} /\ run.todo = {} /\ run.cand = None /\ run.members = {} /\ run.ready = {}
    /\ run.pc \in {"cache", "exact", "broad"} => run.prepared = {} /\ run.keep = {}
    /\ run.cand = None => run.members = {}
    /\ run.cand # None => run.cand \in run.turn /\ run.members \subseteq Versions(run.cand)
    /\ run.ready \subseteq run.prepared /\ run.prepared \subseteq run.tried
    /\ \A v \in run.prepared : verdict[v] \in {"fits", "invalid"}

InstalledFits == installed # None => verdict[installed] = "fits"

\* What is at work the owner has not rejected; the versions of a pack are
\* asked one by one.
NotOwners ==
    /\ \A c \in run.turn \cup run.todo : ~IsPack(c) => <<c, 1>> \notin owner
    /\ \A v \in run.ready : v \notin owner

\* What is not prepared of a pack was rejected, or the pack is kept.
PackJudged ==
    \A c \in Candidates : IsPack(c) /\ c \notin run.keep =>
        /\ run.cand = c => Versions(c) \ run.members \subseteq rejected \cup run.prepared
        /\ run.cand = c /\ run.allRejected => Versions(c) \ run.members \subseteq rejected
        /\ run.cand # c /\ run.prepared \cap Versions(c) # {} => Versions(c) \subseteq rejected \cup run.prepared

EmptySound == \A p \in run.empty, c \in Candidates : ProviderOf[c] # p

\* A search with an installation begins, and goes on to the second tier, only
\* when that leaves something better to find.
TierOpen ==
    ActiveInstallation /\ run.pc # "idle" =>
        IF run.tier = "preferred" THEN ~(installed[1] \in Exact /\ ProviderOf[installed[1]] \in Preferred)
        ELSE ProviderOf[installed[1]] \in Fallback /\ installed[1] \notin Exact

\* What is at work is better than what is installed.
BetterInv ==
    ActiveInstallation =>
        /\ \A c \in run.turn \cup run.todo : Better(c, installed[1])
        /\ \A v \in run.ready : Better(v[1], installed[1])

\* Nothing has failed so far; no broad search has missed anything of its tier,
\* and none of the first.
NoFailure == replacing /\ run.failures = {} /\ run.first \notin {"failed", "throttled"}
Clean == NoFailure /\ \A p \in TierProviders(run.tier) : run.answers[p] = "ok"
FirstClean ==
    /\ run.tier = "fallback" /\ replacing /\ \A p \in Preferred : run.answers[p] = "ok"
    /\ run.first \notin {"failed", "throttled"}

Unfit(c) == \A v \in Versions(c) : ~Acceptable(v)
Offers(t) == {c \in Candidates : ProviderOf[c] \in TierProviders(t)}
Settled(t) == \A c \in Offers(t) : OutOfReach(c) \/ Unfit(c)

\* What was tried was rejected, is ready, or failed.
TriedJudged ==
    \A v \in run.tried : \/ v \in rejected \/ v \in run.ready
                         \/ run.failures # {} \/ run.first \in {"failed", "throttled"}

\* The candidate at work is tried in all its versions.
CandTried ==
    run.cand # None /\ VersionCount[run.cand] <= MaxVersions =>
        /\ Versions(run.cand) \ run.members \subseteq rejected \cup run.tried
        /\ ~IsPack(run.cand) => Versions(run.cand) \ run.members \subseteq run.tried

\* Of the exact search, what was not missed is at work, ready or rejected.
ExactCovers ==
    NoFailure /\ (run.pc = "broad" \/ (run.pc = "work" /\ run.stage = "exact")) =>
        \A c \in Exact \cap Offers(run.tier) :
            \/ ProviderOf[c] \in run.missed \/ CandidateRejected(c)
            \/ c \in run.turn \cup run.todo \/ <<c, 1>> \in run.ready

\* In the broad search every candidate of the tier is at work, or settled.
BroadCovers ==
    run.pc = "work" /\ run.stage = "broad" =>
        /\ run.turn \cup run.todo \subseteq Offers(run.tier)
        /\ \A c, d \in run.turn : ScoreOf[c] = ScoreOf[d]
        /\ \A x \in Exact \cap (run.turn \cup run.todo) :
              run.turn \cup run.todo \subseteq {x} /\ (NoFailure => ProviderOf[x] \in run.missed)
        /\ Clean /\ (\A v \in run.ready : verdict[v] # "fits") =>
              \A c \in Offers(run.tier) : \/ OutOfReach(c) \/ Unfit(c) \/ c \in run.turn \cup run.todo
                                          \/ \E x \in Exact : x \in run.turn \cup run.todo

\* A tier that ended without a failure is settled.
TiersSettled ==
    /\ run.pc = "done" => run.outcome \in Endings
    /\ run.pc = "done" /\ run.failures # {} /\ run.outcome # "satisfied" => run.outcome \in {"failed", "throttled"}
    /\ run.pc = "done" /\ run.outcome \in {"no_result", "rejected"} /\ Clean => Settled(run.tier)
    /\ run.tier = "preferred" => run.first = "none"
    /\ FirstClean => Settled("preferred")
    /\ run.assessed => ActiveInstallation

\* What outlives a search, and what is true of one.
StoreInv == StoredOK /\ OnlyUnfitRejected /\ RejectedStaysAway /\ ResumeSound /\ InstalledFits

RunInv ==
    /\ run \in RunType /\ InHand /\ NotOwners /\ PackJudged /\ EmptySound
    /\ TierOpen /\ BetterInv
    /\ TriedJudged /\ CandTried /\ ExactCovers /\ BroadCovers /\ TiersSettled

AcquisitionInv == StoreInv /\ RunInv

-----------------------------------------------------------------------------
(* Versions.                                                                *)

LEMMA CandidateFacts ==
    ASSUME NEW c \in Candidates
    PROVE  /\ VersionCount[c] \in Nat /\ VersionCount[c] # 0 /\ ProviderOf[c] \in Providers /\ ScoreOf[c] \in Nat
           /\ Versions(c) \subseteq AllVersions
           /\ \A v \in Versions(c) : v[1] = c /\ v[2] # 0 /\ v # <<c, 0>>
           /\ ~IsPack(c) => Versions(c) = {<<c, 1>>}
           /\ c \in Exact => ~IsPack(c)
  <1>1. VersionCount[c] \in Nat /\ VersionCount[c] # 0 /\ ProviderOf[c] \in Providers /\ ScoreOf[c] \in Nat
    BY OfferAssumption DEF Providers
  <1>2. Versions(c) \subseteq AllVersions
    BY DEF AllVersions
  <1>3. \A v \in Versions(c) : v[1] = c /\ v[2] # 0 /\ v # <<c, 0>>
    BY <1>1 DEF Versions
  <1>4. ~IsPack(c) => Versions(c) = {<<c, 1>>}
    BY <1>1 DEF Versions, IsPack
  <1>5. c \in Exact => ~IsPack(c)
    BY OfferAssumption DEF IsPack
  <1> QED  BY <1>1, <1>2, <1>3, <1>4, <1>5

LEMMA VersionFacts ==
    ASSUME NEW v \in AllVersions
    PROVE  v[1] \in Candidates /\ v \in Versions(v[1]) /\ v[2] # 0 /\ v # None /\ \A c : v # <<c, 0>>
  <1>1. PICK c \in Candidates : v \in Versions(c)
    BY DEF AllVersions
  <1>2. PICK n \in 1 .. VersionCount[c] : v = <<c, n>>
    BY <1>1 DEF Versions
  <1>3. n # 0
    BY <1>2, CandidateFacts
  <1> QED  BY <1>1, <1>2, <1>3, OfferAssumption

LEMMA VersionsCounted ==
    ASSUME NEW c \in Candidates
    PROVE  IsFiniteSet(Versions(c)) /\ Cardinality(Versions(c)) = VersionCount[c]
  <1>1. VersionCount[c] \in Nat
    BY CandidateFacts
  <1>2. IsFiniteSet(1 .. VersionCount[c]) /\ Cardinality(1 .. VersionCount[c]) = VersionCount[c]
    BY <1>1, FS_Interval
  <1> DEFINE f == [n \in 1 .. VersionCount[c] |-> <<c, n>>]
  <1>3. f \in Bijection(1 .. VersionCount[c], Versions(c))
    <2>1. f \in [1 .. VersionCount[c] -> Versions(c)]
      BY DEF Versions
    <2>2. \A m, n \in 1 .. VersionCount[c] : f[m] = f[n] => m = n
      OBVIOUS
    <2>3. \A v \in Versions(c) : \E n \in 1 .. VersionCount[c] : f[n] = v
      BY DEF Versions
    <2> HIDE DEF f
    <2> QED  BY <2>1, <2>2, <2>3 DEF Bijection, Injection, Surjection, IsInjective
  <1> QED  BY <1>2, <1>3, FS_Bijection DEF ExistsBijection

\* What a rejection says of a version.
LEMMA RejectedUnfit ==
    ASSUME StoreInv, NEW v \in AllVersions, v \in rejected
    PROVE  ~Acceptable(v)
  BY VersionFacts DEF StoreInv, OnlyUnfitRejected, Acceptable

LEMMA CandidateRejectedUnfit ==
    ASSUME StoreInv, NEW c \in Candidates, CandidateRejected(c)
    PROVE  Unfit(c)
  <1>1. CASE <<c, 0>> \in rejected
    <2>1. <<c, 0>> \notin owner
      BY VersionFacts DEF StoreInv, StoredOK
    <2> QED  BY <1>1, <2>1 DEF StoreInv, OnlyUnfitRejected, Unfit
  <1>2. CASE ~IsPack(c) /\ <<c, 1>> \in rejected
    BY <1>2, CandidateFacts, RejectedUnfit DEF Unfit
  <1> QED  BY <1>1, <1>2 DEF CandidateRejected

-----------------------------------------------------------------------------
(* What outlives a search.                                                  *)

\* More is rejected.
LEMMA MoreRejected ==
    ASSUME StoreInv, UNCHANGED <<verdict, owner, installed, replacing, resume, avail>>,
           strikes' \subseteq AllVersions, cache' \subseteq {c \in Candidates : IsPack(c)},
           rejected \subseteq rejected',
           \A r \in rejected' \ rejected : \/ r \in AllVersions /\ verdict[r] # "fits"
                                           \/ \E c \in Candidates : r = <<c, 0>> /\ Unfit(c)
    PROVE  StoreInv'
  <1>1. StoredOK'
    BY DEF StoreInv, StoredOK
  <1>2. OnlyUnfitRejected'
    <2>1. SUFFICES ASSUME NEW r \in rejected' \ owner
                   PROVE  IF r[2] = 0 THEN \A v \in Versions(r[1]) : ~Acceptable(v) ELSE verdict[r] # "fits"
      BY DEF OnlyUnfitRejected, Acceptable
    <2>2. CASE r \in rejected
      BY <2>1, <2>2 DEF StoreInv, OnlyUnfitRejected
    <2>3. CASE r \in AllVersions /\ verdict[r] # "fits"
      BY <2>3, VersionFacts
    <2>4. ASSUME NEW c \in Candidates, r = <<c, 0>>, Unfit(c)
          PROVE  r[2] = 0 /\ \A v \in Versions(r[1]) : ~Acceptable(v)
      BY <2>4 DEF Unfit
    <2> QED  BY <2>1, <2>2, <2>3, <2>4
  <1>3. RejectedStaysAway'
    BY VersionFacts DEF StoreInv, StoredOK, RejectedStaysAway, InstalledFits
  <1>4. ResumeSound' /\ InstalledFits'
    BY DEF StoreInv, ResumeSound, InstalledFits
  <1> QED  BY <1>1, <1>2, <1>3, <1>4 DEF StoreInv

\* Nothing of it changes but what is in the cache and what a retry skips.
LEMMA SameStored ==
    ASSUME StoreInv, UNCHANGED <<verdict, owner, rejected, strikes, installed, replacing>>,
           avail' \in [Providers -> {"up", "paused", "disabled"}],
           cache' \subseteq {c \in Candidates : IsPack(c)},
           resume' \subseteq Providers, \A p \in resume', c \in Candidates : ProviderOf[c] # p
    PROVE  StoreInv'
  <1>1. StoredOK'
    BY DEF StoreInv, StoredOK
  <1>2. OnlyUnfitRejected' /\ RejectedStaysAway'
    BY DEF StoreInv, OnlyUnfitRejected, Acceptable, RejectedStaysAway
  <1>3. ResumeSound' /\ InstalledFits'
    BY DEF StoreInv, ResumeSound, InstalledFits
  <1> QED  BY <1>1, <1>2, <1>3 DEF StoreInv

LEMMA StoredUnchanged ==
    ASSUME StoreInv, UNCHANGED <<verdict, avail, stored>>
    PROVE  StoreInv'
  BY SameStored DEF stored, StoreInv, StoredOK, ResumeSound

-----------------------------------------------------------------------------
(* The searches.                                                            *)

LEMMA NoRunFacts ==
    /\ NoRun \in RunType
    /\ NoRun.pc = "idle" /\ NoRun.turn = {} /\ NoRun.todo = {} /\ NoRun.cand = None /\ NoRun.members = {}
    /\ NoRun.ready = {} /\ NoRun.prepared = {} /\ NoRun.keep = {} /\ NoRun.tried = {} /\ NoRun.empty = {}
    /\ NoRun.tier = "preferred" /\ NoRun.assessed = FALSE /\ NoRun.failures = {} /\ NoRun.stage = "cache"
    /\ NoRun.first = "none" /\ NoRun.outcome = "none" /\ NoRun.allRejected = TRUE
  BY DEF NoRun, RunType, Endings

\* No search is running.
LEMMA NoRunInv ==
    ASSUME run' = NoRun
    PROVE  RunInv'
  <1> USE NoRunFacts
  <1>1. run' \in RunType /\ InHand' /\ NotOwners' /\ EmptySound' /\ TierOpen'
    BY DEF InHand, NotOwners, EmptySound, TierOpen
  <1>2. PackJudged'
    BY OfferAssumption DEF PackJudged
  <1>3. BetterInv' /\ TriedJudged' /\ CandTried' /\ ExactCovers' /\ BroadCovers'
    BY DEF BetterInv, TriedJudged, CandTried, ExactCovers, BroadCovers
  <1>4. TiersSettled'
    BY DEF TiersSettled, FirstClean
  <1> QED  BY <1>1, <1>2, <1>3, <1>4 DEF RunInv

LEMMA AcquisitionInit == Init => AcquisitionInv
  <1> SUFFICES ASSUME Init PROVE AcquisitionInv
    OBVIOUS
  <1> USE NoRunFacts
  <1>1. StoredOK
    BY DEF Init, StoredOK
  <1>2. OnlyUnfitRejected /\ RejectedStaysAway /\ ResumeSound /\ InstalledFits
    BY DEF Init, OnlyUnfitRejected, RejectedStaysAway, ResumeSound, InstalledFits
  <1>3. run = NoRun
    BY DEF Init
  <1>4. run \in RunType /\ InHand /\ NotOwners /\ EmptySound /\ TierOpen
    BY <1>3 DEF InHand, NotOwners, EmptySound, TierOpen
  <1>5. PackJudged
    BY <1>3, OfferAssumption DEF PackJudged
  <1>6. BetterInv /\ TriedJudged /\ CandTried /\ ExactCovers /\ BroadCovers
    BY <1>3 DEF BetterInv, TriedJudged, CandTried, ExactCovers, BroadCovers
  <1>7. TiersSettled
    BY <1>3 DEF TiersSettled, FirstClean
  <1> QED  BY <1>1, <1>2, <1>4, <1>5, <1>6, <1>7 DEF AcquisitionInv, StoreInv, RunInv

\* What is settled stays so while a search goes on.
LEMMA ReachGrows ==
    ASSUME verdict' = verdict, owner \subseteq owner', run.tried \subseteq run'.tried,
           run.missed \subseteq run'.missed
    PROVE  /\ \A c : OutOfReach(c) => OutOfReach(c)'
           /\ \A c : Unfit(c) => Unfit(c)'
           /\ \A t : Settled(t) => Settled(t)'
  <1>1. \A c : OutOfReach(c) => OutOfReach(c)'
    BY DEF OutOfReach
  <1>2. \A c : Unfit(c) => Unfit(c)'
    BY DEF Unfit, Acceptable
  <1> QED  BY <1>1, <1>2 DEF Settled

\* The search and what it looks at stay as they are.
LEMMA RunUnchanged ==
    ASSUME RunInv, UNCHANGED <<verdict, rejected, owner, installed, replacing, run>>
    PROVE  RunInv'
  <1>1. run' \in RunType /\ InHand' /\ NotOwners' /\ EmptySound' /\ TierOpen' /\ BetterInv'
    BY DEF RunInv, InHand, NotOwners, EmptySound, TierOpen, BetterInv, ActiveInstallation
  <1>2. PackJudged' /\ TriedJudged' /\ CandTried'
    BY DEF RunInv, PackJudged, TriedJudged, CandTried
  <1>3. /\ (Clean' <=> Clean) /\ (NoFailure' <=> NoFailure) /\ (FirstClean' <=> FirstClean)
        /\ ActiveInstallation' <=> ActiveInstallation
    BY DEF Clean, NoFailure, FirstClean, ActiveInstallation
  <1>4. ExactCovers' /\ BroadCovers' /\ TiersSettled'
    BY <1>3, ReachGrows DEF RunInv, ExactCovers, CandidateRejected, BroadCovers, TiersSettled
  <1> QED  BY <1>1, <1>2, <1>4 DEF RunInv

LEMMA ResumedSound ==
    ASSUME AcquisitionInv, NEW outcome
    PROVE  Resumed(outcome) \subseteq Providers /\ \A p \in Resumed(outcome), c \in Candidates : ProviderOf[c] # p
  BY DEF AcquisitionInv, StoreInv, StoredOK, ResumeSound, RunInv, RunType, EmptySound, Resumed

LEMMA AbortsInv ==
    ASSUME AcquisitionInv, Aborts, UNCHANGED <<verdict, avail>>
    PROVE  AcquisitionInv'
  <1>1. run' = NoRun /\ resume' = Resumed("failed") /\ UNCHANGED <<rejected, owner, strikes, installed, replacing, cache>>
    BY DEF Aborts, Ends
  <1>2. StoreInv'
    BY <1>1, ResumedSound, SameStored DEF AcquisitionInv, StoreInv, StoredOK
  <1> QED  BY <1>1, <1>2, NoRunInv DEF AcquisitionInv

LEMMA WorldInv ==
    ASSUME AcquisitionInv, World
    PROVE  AcquisitionInv'
  <1>1. ASSUME NEW p \in Providers, ProviderResumes(p)
        PROVE  AcquisitionInv'
    <2>1. avail' \in [Providers -> {"up", "paused", "disabled"}]
      BY <1>1 DEF ProviderResumes, AcquisitionInv, StoreInv, StoredOK
    <2> QED  BY <1>1, <2>1, SameStored, RunUnchanged DEF ProviderResumes, stored, AcquisitionInv, StoreInv, StoredOK, ResumeSound
  <1>2. ASSUME NEW p \in Providers, NEW how \in {"paused", "disabled"}, ProviderPauses(p, how)
        PROVE  AcquisitionInv'
    <2>1. avail' \in [Providers -> {"up", "paused", "disabled"}]
      BY <1>2 DEF ProviderPauses, AcquisitionInv, StoreInv, StoredOK
    <2> QED  BY <1>2, <2>1, SameStored, RunUnchanged DEF ProviderPauses, stored, AcquisitionInv, StoreInv, StoredOK, ResumeSound
  <1>3. CASE MountDrops \/ MountReturns
    BY <1>3, StoredUnchanged, RunUnchanged DEF MountDrops, MountReturns, stored, AcquisitionInv
  <1>4. CASE Crash
    BY <1>4, StoredUnchanged, NoRunInv DEF Crash, world, AcquisitionInv
  <1>5. CASE OwnerRejects
    <2>1. /\ run' = NoRun /\ installed \in AllVersions /\ rejected' = rejected \cup {installed}
          /\ owner' = owner \cup {installed} /\ replacing' = TRUE
          /\ UNCHANGED <<verdict, avail, strikes, installed, cache, resume>>
      BY <1>5 DEF OwnerRejects, AcquisitionInv, StoreInv, StoredOK, RunInv, InHand
    <2>2. RunInv'
      BY <2>1, NoRunInv
    <2>3. StoredOK'
      BY <2>1 DEF AcquisitionInv, StoreInv, StoredOK
    <2>4. OnlyUnfitRejected'
      BY <2>1 DEF AcquisitionInv, StoreInv, OnlyUnfitRejected, Acceptable
    <2>5. RejectedStaysAway' /\ ResumeSound' /\ InstalledFits'
      BY <2>1 DEF AcquisitionInv, StoreInv, RejectedStaysAway, ResumeSound, InstalledFits
    <2> QED  BY <2>2, <2>3, <2>4, <2>5 DEF AcquisitionInv, StoreInv
  <1> QED  BY <1>1, <1>2, <1>3, <1>4, <1>5 DEF World

-----------------------------------------------------------------------------
(* Trying versions.                                                         *)

\* The fields that only the candidates and the searches change.
SameTurn(r) ==
    /\ r.pc = run.pc /\ r.stage = run.stage /\ r.tier = run.tier /\ r.outcome = run.outcome
    /\ r.todo = run.todo /\ r.turn = run.turn /\ r.cand = run.cand /\ r.answers = run.answers
    /\ r.first = run.first /\ r.empty = run.empty /\ r.assessed = run.assessed /\ r.missed = run.missed

\* One version of the candidate at work is judged, or left for a later search.
LEMMA VersionStep ==
    ASSUME AcquisitionInv, StoreInv', NEW v, run.pc = "work", v \in run.members,
           UNCHANGED <<verdict, owner, installed, replacing>>, run' \in RunType,
           SameTurn(run'),
           run'.members = run.members \ {v},
           \/ run'.ready = run.ready /\ run'.prepared = run.prepared
           \/ /\ run'.ready = run.ready \cup {v} /\ run'.prepared = run.prepared \cup {v}
              /\ v \in run'.tried /\ verdict[v] \in {"fits", "invalid"} /\ ~KnownRejected(v),
           run.keep \subseteq run'.keep, run.failures \subseteq run'.failures, rejected \subseteq rejected',
           run.tried \subseteq run'.tried, run'.tried \subseteq run.tried \cup {v},
           v \in rejected' \cup run'.prepared \/ v[1] \in run'.keep,
           run'.allRejected => run.allRejected /\ (v \in rejected' \/ v[1] \in run'.keep),
           v \in run'.tried => v \in run.tried \/ v \in rejected' \/ v \in run'.ready \/ run'.failures # {},
           v \in rejected' \cup run'.tried, IsPack(v[1]) \/ v \in run'.tried
    PROVE  AcquisitionInv'
  <1> USE DEF SameTurn
  <1>1. /\ run.cand \in Candidates /\ run.cand \in run.turn /\ run.members \subseteq Versions(run.cand)
        /\ v \in Versions(run.cand) /\ v[1] = run.cand /\ v \in AllVersions
    BY CandidateFacts DEF AcquisitionInv, RunInv, RunType, InHand
  <1>2. InHand'
    BY <1>1 DEF AcquisitionInv, RunInv, InHand
  <1>3. NotOwners'
    <2>1. v \in run'.ready \ run.ready => v \notin owner
      <3>1. CASE IsPack(v[1])
        BY <3>1 DEF KnownRejected, AcquisitionInv, StoreInv, StoredOK
      <3>2. CASE ~IsPack(v[1])
        BY <1>1, <3>2, CandidateFacts DEF AcquisitionInv, RunInv, NotOwners
      <3> QED  BY <3>1, <3>2
    <2> QED  BY <2>1 DEF AcquisitionInv, RunInv, NotOwners
  <1>4. PackJudged'
    <2>1. SUFFICES ASSUME NEW c \in Candidates, IsPack(c), c \notin run'.keep
                   PROVE  /\ run.cand = c => Versions(c) \ run'.members \subseteq rejected' \cup run'.prepared
                          /\ run.cand = c /\ run'.allRejected => Versions(c) \ run'.members \subseteq rejected'
                          /\ run.cand # c /\ run'.prepared \cap Versions(c) # {}
                               => Versions(c) \subseteq rejected' \cup run'.prepared
      BY DEF PackJudged
    <2>2. /\ run.cand = c => Versions(c) \ run.members \subseteq rejected \cup run.prepared
          /\ run.cand = c /\ run.allRejected => Versions(c) \ run.members \subseteq rejected
          /\ run.cand # c /\ run.prepared \cap Versions(c) # {} => Versions(c) \subseteq rejected \cup run.prepared
      BY <2>1 DEF AcquisitionInv, RunInv, PackJudged
    <2>3. CASE run.cand = c
      BY <1>1, <2>1, <2>2, <2>3
    <2>4. CASE run.cand # c
      <3>1. v \notin Versions(c)
        BY <1>1, <2>4, CandidateFacts
      <3> QED  BY <2>2, <2>4, <3>1
    <2> QED  BY <2>3, <2>4
  <1>5. EmptySound'
    BY DEF AcquisitionInv, RunInv, EmptySound
  <1>6. TierOpen' /\ BetterInv'
    BY <1>1 DEF AcquisitionInv, RunInv, TierOpen, BetterInv, ActiveInstallation
  <1>7. TriedJudged'
    BY DEF AcquisitionInv, RunInv, TriedJudged
  <1>8. CandTried'
    BY <1>1 DEF AcquisitionInv, RunInv, CandTried
  <1>9. /\ (Clean' => Clean) /\ (NoFailure' => NoFailure) /\ (FirstClean' => FirstClean)
        /\ ActiveInstallation' <=> ActiveInstallation
    BY DEF Clean, NoFailure, FirstClean, ActiveInstallation
  <1>10. ExactCovers' /\ BroadCovers'
    <2>1. ExactCovers'
      BY <1>9 DEF AcquisitionInv, RunInv, ExactCovers, CandidateRejected
    <2> QED  BY <1>9, <2>1, ReachGrows DEF AcquisitionInv, RunInv, BroadCovers
  <1>11. TiersSettled'
    BY <1>9, ReachGrows DEF AcquisitionInv, RunInv, TiersSettled
  <1> QED  BY <1>2, <1>3, <1>4, <1>5, <1>6, <1>7, <1>8, <1>10, <1>11 DEF AcquisitionInv, RunInv

LEMMA FreshFacts ==
    ASSUME AcquisitionInv, NEW v, Prepares(v)
    PROVE  run.pc = "work" /\ v \in run.members /\ v \in AllVersions /\ v[1] \in Candidates /\ v \in Versions(v[1])
  BY VersionFacts DEF AcquisitionInv, RunInv, RunType, Prepares, Working

\* The fields of a version that was not judged.
LEMMA NotJudgedFacts ==
    ASSUME AcquisitionInv, NEW v \in AllVersions
    PROVE  LET r == NotJudged(v)
           IN  /\ r \in RunType /\ SameTurn(r)
               /\ r.members = run.members \ {v} /\ r.ready = run.ready /\ r.prepared = run.prepared
               /\ r.keep = run.keep \cup {v[1]} /\ r.failures = run.failures /\ r.tried = run.tried
               /\ r.allRejected = FALSE /\ r.timeout = run.timeout
  <1>1. run \in RunType /\ v[1] \in Candidates
    BY VersionFacts DEF AcquisitionInv, RunInv
  <1> DEFINE r == NotJudged(v)
  <1>2. r = [run EXCEPT !.members = @ \ {v}, !.allRejected = FALSE, !.keep = @ \cup {v[1]}]
    BY DEF NotJudged
  <1> HIDE DEF r
  <1>3. r \in RunType
    BY <1>1, <1>2 DEF RunType
  <1>4. /\ SameTurn(r)
        /\ r.members = run.members \ {v} /\ r.ready = run.ready /\ r.prepared = run.prepared
        /\ r.keep = run.keep \cup {v[1]} /\ r.failures = run.failures /\ r.tried = run.tried
        /\ r.timeout = run.timeout
    BY <1>1, <1>2 DEF RunType, SameTurn
  <1>5. r.allRejected = FALSE
    BY <1>1, <1>2 DEF RunType
  <1> QED  BY <1>3, <1>4, <1>5 DEF r

LEMMA FailedFacts ==
    ASSUME AcquisitionInv, NEW v \in AllVersions, NEW t \in BOOLEAN
    PROVE  LET r == [Failed(v) EXCEPT !.timeout = t]
           IN  /\ r \in RunType /\ SameTurn(r)
               /\ r.members = run.members \ {v} /\ r.ready = run.ready /\ r.prepared = run.prepared
               /\ r.keep = run.keep \cup {v[1]} /\ r.failures = run.failures \cup {"technical"}
               /\ r.tried = run.tried \cup {v} /\ r.allRejected = FALSE
  <1> DEFINE n == NotJudged(v)
  <1>1. /\ n \in RunType /\ SameTurn(n)
        /\ n.members = run.members \ {v} /\ n.ready = run.ready /\ n.prepared = run.prepared
        /\ n.keep = run.keep \cup {v[1]} /\ n.failures = run.failures /\ n.tried = run.tried
        /\ n.allRejected = FALSE
    BY NotJudgedFacts
  <1>2. Failed(v) = [n EXCEPT !.tried = @ \cup {v}, !.failures = @ \cup {"technical"}]
    BY DEF Failed
  <1> HIDE DEF n
  <1> DEFINE r == [Failed(v) EXCEPT !.timeout = t]
  <1>3. r = [n EXCEPT !.tried = @ \cup {v}, !.failures = @ \cup {"technical"}, !.timeout = t]
    BY <1>1, <1>2 DEF RunType
  <1> HIDE DEF r
  <1>4. r \in RunType
    BY <1>1, <1>3 DEF RunType
  <1>5. /\ SameTurn(r)
        /\ r.members = run.members \ {v} /\ r.ready = run.ready /\ r.prepared = run.prepared
        /\ r.keep = run.keep \cup {v[1]} /\ r.failures = run.failures \cup {"technical"}
        /\ r.tried = run.tried \cup {v}
    BY <1>1, <1>3 DEF RunType, SameTurn
  <1>6. r.allRejected = FALSE
    BY <1>1, <1>3 DEF RunType
  <1> QED  BY <1>4, <1>5, <1>6 DEF r

LEMMA FailedAsIs ==
    ASSUME AcquisitionInv, NEW v \in AllVersions
    PROVE  Failed(v) = [Failed(v) EXCEPT !.timeout = run.timeout]
  <1>1. run \in RunType /\ v[1] \in Candidates
    BY VersionFacts DEF AcquisitionInv, RunInv
  <1> QED  BY <1>1 DEF Failed, NotJudged, RunType

LEMMA SkipVersionInv ==
    ASSUME AcquisitionInv, NEW v, SkipVersion(v)
    PROVE  AcquisitionInv'
  <1>1. /\ Prepares(v) /\ UNCHANGED <<world, stored>>
        /\ \/ KnownRejected(v) /\ run' = [run EXCEPT !.members = @ \ {v}]
           \/ v \in run.tried /\ run' = NotJudged(v)
    BY DEF SkipVersion
  <1>2. run.pc = "work" /\ v \in run.members /\ v \in AllVersions
    BY <1>1, FreshFacts
  <1>3. StoreInv' /\ UNCHANGED <<verdict, rejected, owner, installed, replacing>>
    BY <1>1, StoredUnchanged DEF AcquisitionInv, world, stored
  <1>4. CASE KnownRejected(v) /\ run' = [run EXCEPT !.members = @ \ {v}]
    <2>1. /\ run' \in RunType /\ SameTurn(run') /\ run'.members = run.members \ {v} /\ run'.tried = run.tried
          /\ run'.ready = run.ready /\ run'.prepared = run.prepared
          /\ run'.keep = run.keep /\ run'.failures = run.failures /\ run'.allRejected = run.allRejected
      BY <1>2, <1>4 DEF AcquisitionInv, RunInv, RunType, SameTurn
    <2> QED  BY <1>2, <1>3, <1>4, <2>1, VersionStep DEF KnownRejected
  <1>5. CASE v \in run.tried /\ run' = NotJudged(v)
    <2>1. /\ run' \in RunType /\ SameTurn(run') /\ run'.members = run.members \ {v} /\ run'.tried = run.tried
          /\ run'.ready = run.ready /\ run'.prepared = run.prepared
          /\ run'.keep = run.keep \cup {v[1]} /\ run'.failures = run.failures /\ run'.allRejected = FALSE
      BY <1>2, <1>5, NotJudgedFacts
    <2> QED  BY <1>2, <1>3, <1>5, <2>1, VersionStep
  <1> QED  BY <1>1, <1>4, <1>5

\* A version that failed for another reason than its content.
LEMMA FailedInv ==
    ASSUME AcquisitionInv, StoreInv', NEW v, Prepares(v), NEW t \in BOOLEAN,
           run' = [Failed(v) EXCEPT !.timeout = t],
           UNCHANGED <<verdict, rejected, owner, installed, replacing>>
    PROVE  AcquisitionInv'
  <1>1. run.pc = "work" /\ v \in run.members /\ v \in AllVersions
    BY FreshFacts
  <1>2. /\ run' \in RunType /\ SameTurn(run') /\ run'.members = run.members \ {v} /\ run'.tried = run.tried \cup {v}
        /\ run'.ready = run.ready /\ run'.prepared = run.prepared /\ run'.keep = run.keep \cup {v[1]}
        /\ run'.failures = run.failures \cup {"technical"} /\ run'.allRejected = FALSE
    BY <1>1, FailedFacts
  <1> QED  BY <1>1, <1>2, VersionStep

LEMMA LapseFailsInv ==
    ASSUME AcquisitionInv, NEW v, LapseFails(v)
    PROVE  AcquisitionInv'
  <1>1. /\ Prepares(v) /\ UNCHANGED <<world, stored>>
        /\ run' = Failed(v) \/ \E t \in BOOLEAN : run' = [Failed(v) EXCEPT !.timeout = t]
    BY DEF LapseFails, RunsLapse, Fresh
  <1>2. StoreInv' /\ UNCHANGED <<verdict, rejected, owner, installed, replacing>>
    BY <1>1, StoredUnchanged DEF AcquisitionInv, world, stored
  <1>3. run.timeout \in BOOLEAN /\ v \in AllVersions
    BY <1>1, FreshFacts DEF AcquisitionInv, RunInv, RunType
  <1>4. PICK t \in BOOLEAN : run' = [Failed(v) EXCEPT !.timeout = t]
    BY <1>1, <1>3, FailedAsIs
  <1> QED  BY <1>1, <1>2, <1>4, FailedInv

\* A version is rejected for its content.
LEMMA RejectedInv ==
    ASSUME AcquisitionInv, NEW v, Prepares(v), verdict[v] # "fits", rejected' = rejected \cup {v},
           strikes' \subseteq AllVersions, run' = [run EXCEPT !.members = @ \ {v}, !.tried = @ \cup {v}],
           UNCHANGED <<world, owner, installed, replacing, cache, resume>>
    PROVE  AcquisitionInv'
  <1>1. run.pc = "work" /\ v \in run.members /\ v \in AllVersions
    BY FreshFacts
  <1>2. StoreInv' /\ UNCHANGED <<verdict, owner, installed, replacing>>
    BY <1>1, MoreRejected DEF AcquisitionInv, StoreInv, StoredOK, world
  <1>3. /\ run' \in RunType /\ SameTurn(run') /\ run'.members = run.members \ {v} /\ run'.tried = run.tried \cup {v}
        /\ run'.ready = run.ready /\ run'.prepared = run.prepared
        /\ run'.keep = run.keep /\ run'.failures = run.failures /\ run'.allRejected = run.allRejected
    BY <1>1 DEF AcquisitionInv, RunInv, RunType, SameTurn
  <1> QED  BY <1>1, <1>2, <1>3, VersionStep

LEMMA LapseExitsInv ==
    ASSUME AcquisitionInv, NEW v, LapseExits(v)
    PROVE  AcquisitionInv'
  <1>1. /\ Prepares(v) /\ verdict[v] = "crash"
        /\ UNCHANGED <<world, owner, installed, replacing, cache, resume>>
    BY DEF LapseExits, RunsLapse, Fresh
  <1>2. v \in AllVersions /\ strikes \subseteq AllVersions /\ run.timeout \in BOOLEAN
    BY <1>1, FreshFacts DEF AcquisitionInv, StoreInv, StoredOK, RunInv, RunType
  <1>3. CASE v \in strikes
    <2>1. /\ strikes' = strikes \ {v} /\ rejected' = rejected \cup {v}
          /\ run' = [run EXCEPT !.members = @ \ {v}, !.tried = @ \cup {v}]
      BY <1>3 DEF LapseExits
    <2> QED  BY <1>1, <1>2, <2>1, RejectedInv
  <1>4. CASE v \notin strikes
    <2>1. strikes' = strikes \cup {v} /\ run' = Failed(v) /\ rejected' = rejected
      BY <1>4 DEF LapseExits
    <2>2. StoreInv' /\ UNCHANGED <<verdict, rejected, owner, installed, replacing>>
      BY <1>1, <1>2, <2>1, MoreRejected DEF AcquisitionInv, StoreInv, StoredOK, world
    <2>3. run' = [Failed(v) EXCEPT !.timeout = run.timeout]
      BY <1>2, <2>1, FailedAsIs
    <2> QED  BY <1>1, <1>2, <2>2, <2>3, FailedInv
  <1> QED  BY <1>3, <1>4

LEMMA LapseRejectsInv ==
    ASSUME AcquisitionInv, NEW v, LapseRejects(v)
    PROVE  AcquisitionInv'
  <1>1. /\ Prepares(v) /\ verdict[v] = "off" /\ rejected' = rejected \cup {v} /\ strikes' = strikes
        /\ run' = [run EXCEPT !.members = @ \ {v}, !.tried = @ \cup {v}]
        /\ UNCHANGED <<world, owner, installed, replacing, cache, resume>>
    BY DEF LapseRejects, RunsLapse, Fresh
  <1>2. strikes \subseteq AllVersions
    BY DEF AcquisitionInv, StoreInv, StoredOK
  <1> QED  BY <1>1, <1>2, RejectedInv

LEMMA LapseSolidInv ==
    ASSUME AcquisitionInv, NEW v, LapseSolid(v)
    PROVE  AcquisitionInv'
  <1>1. /\ Prepares(v) /\ ~KnownRejected(v) /\ verdict[v] \in {"fits", "invalid"} /\ UNCHANGED <<world, stored>>
        /\ run' = [run EXCEPT !.members = @ \ {v}, !.tried = @ \cup {v}, !.allRejected = FALSE,
                              !.ready = @ \cup {v}, !.prepared = @ \cup {v}]
    BY DEF LapseSolid, Fresh
  <1>2. StoreInv' /\ UNCHANGED <<verdict, rejected, owner, installed, replacing>>
    BY <1>1, StoredUnchanged DEF AcquisitionInv, world, stored
  <1>3. run.pc = "work" /\ v \in run.members /\ v \in AllVersions /\ run.tried \subseteq AllVersions
    BY <1>1, FreshFacts DEF AcquisitionInv, RunInv, RunType
  <1>4. run' \in RunType
    BY <1>1, <1>3 DEF AcquisitionInv, RunInv, RunType
  <1>5. /\ SameTurn(run') /\ run'.members = run.members \ {v} /\ run'.tried = run.tried \cup {v}
        /\ run'.ready = run.ready \cup {v} /\ run'.prepared = run.prepared \cup {v}
        /\ run'.keep = run.keep /\ run'.failures = run.failures
    BY <1>1 DEF AcquisitionInv, RunInv, RunType, SameTurn
  <1>6. run'.allRejected = FALSE
    BY <1>1 DEF AcquisitionInv, RunInv, RunType
  <1> QED  BY <1>1, <1>2, <1>3, <1>4, <1>5, <1>6, VersionStep

-----------------------------------------------------------------------------
(* Trying candidates.                                                       *)

\* The versions that SelectUntriedAlternatives leaves out are rejected, or
\* there were too many.
LEMMA SelectionFacts ==
    ASSUME NEW c \in Candidates, NEW members \in Selections(c)
    PROVE  /\ members \subseteq Versions(c)
           /\ ~UntriedLeft(c) => Versions(c) \ members \subseteq rejected
           /\ VersionCount[c] <= MaxVersions => members = Versions(c)
  <1>1. IsFiniteSet(Versions(c)) /\ Cardinality(Versions(c)) = VersionCount[c]
    BY VersionsCounted
  <1>2. CASE Cardinality(Versions(c)) <= MaxVersions
    BY <1>2 DEF Selections
  <1>3. CASE ~(Cardinality(Versions(c)) <= MaxVersions)
    <2>1. /\ members \subseteq Versions(c) /\ Cardinality(members) = MaxVersions
          /\ members \subseteq Untried(c) \/ Untried(c) \subseteq members
      BY <1>3 DEF Selections
    <2>2. ASSUME ~UntriedLeft(c)
          PROVE  Untried(c) \subseteq members
      <3>1. CASE members \subseteq Untried(c)
        <4>1. IsFiniteSet(Untried(c)) /\ Cardinality(Untried(c)) \in Nat
          BY <1>1, FS_Subset, FS_CardinalityType DEF Untried
        <4>2. Cardinality(members) <= Cardinality(Untried(c))
          BY <3>1, <4>1, FS_Subset
        <4>3. Cardinality(members) = Cardinality(Untried(c))
          BY <2>1, <2>2, <4>1, <4>2, BoundAssumption DEF UntriedLeft
        <4> QED  BY <3>1, <4>1, <4>3, FS_Subset
      <3> QED  BY <2>1, <3>1
    <2>3. ~(VersionCount[c] <= MaxVersions)
      BY <1>1, <1>3
    <2> QED  BY <2>1, <2>2, <2>3 DEF Untried
  <1> QED  BY <1>2, <1>3

LEMMA PreparingFacts ==
    ASSUME NEW r \in RunType, NEW c \in Candidates, NEW members \in Selections(c)
    PROVE  LET q == Preparing(r, c, members)
           IN  /\ q \in RunType /\ q.cand = c /\ q.members = members
               /\ q.keep = IF UntriedLeft(c) THEN r.keep \cup {c} ELSE r.keep
               /\ q.pc = r.pc /\ q.stage = r.stage /\ q.tier = r.tier /\ q.outcome = r.outcome
               /\ q.todo = r.todo /\ q.turn = r.turn /\ q.answers = r.answers /\ q.first = r.first
               /\ q.empty = r.empty /\ q.assessed = r.assessed /\ q.missed = r.missed /\ q.ready = r.ready
               /\ q.prepared = r.prepared /\ q.tried = r.tried /\ q.failures = r.failures
  <1>1. members \subseteq AllVersions
    BY SelectionFacts, CandidateFacts
  <1> DEFINE keep == IF UntriedLeft(c) THEN r.keep \cup {c} ELSE r.keep
  <1>2. keep \in SUBSET Candidates
    BY DEF RunType
  <1> DEFINE q == Preparing(r, c, members)
  <1>3. q = [r EXCEPT !.cand = c, !.members = members, !.allRejected = TRUE, !.keep = keep]
    BY DEF Preparing
  <1> HIDE DEF keep, q
  <1>4. q \in RunType
    BY <1>1, <1>2, <1>3 DEF RunType
  <1>5. /\ q.cand = c /\ q.members = members /\ q.keep = keep
        /\ q.pc = r.pc /\ q.stage = r.stage /\ q.tier = r.tier /\ q.outcome = r.outcome
        /\ q.todo = r.todo /\ q.turn = r.turn /\ q.answers = r.answers /\ q.first = r.first
        /\ q.empty = r.empty /\ q.assessed = r.assessed /\ q.missed = r.missed /\ q.ready = r.ready
        /\ q.prepared = r.prepared /\ q.tried = r.tried /\ q.failures = r.failures
    BY <1>3 DEF RunType
  <1> QED  BY <1>4, <1>5 DEF keep, q

LEMMA DownloadInv ==
    ASSUME AcquisitionInv, NEW c, Download(c)
    PROVE  AcquisitionInv'
  <1>1. /\ run.pc = "work" /\ run.cand = None /\ c \in run.turn
        /\ UNCHANGED <<world, rejected, owner, strikes, installed, replacing, resume>>
        /\ cache' = IF IsPack(c) THEN cache \cup {c} ELSE cache
    BY DEF Download, Idle, Working
  <1>2. run \in RunType /\ c \in Candidates /\ c # None
    BY <1>1, OfferAssumption DEF AcquisitionInv, RunInv, RunType
  <1>3. PICK members \in Selections(c) : run' = Preparing(run, c, members)
    BY DEF Download
  <1>4. /\ run' \in RunType /\ run'.cand = c /\ run'.members = members
        /\ run'.keep = IF UntriedLeft(c) THEN run.keep \cup {c} ELSE run.keep
        /\ run'.pc = run.pc /\ run'.stage = run.stage /\ run'.tier = run.tier /\ run'.outcome = run.outcome
        /\ run'.todo = run.todo /\ run'.turn = run.turn /\ run'.answers = run.answers /\ run'.first = run.first
        /\ run'.empty = run.empty /\ run'.assessed = run.assessed /\ run'.missed = run.missed /\ run'.ready = run.ready
        /\ run'.prepared = run.prepared /\ run'.tried = run.tried /\ run'.failures = run.failures
    BY <1>2, <1>3, PreparingFacts
  <1>5. StoreInv'
    BY <1>1, <1>2, SameStored DEF AcquisitionInv, StoreInv, StoredOK, ResumeSound, world
  <1>6. /\ members \subseteq Versions(c)
        /\ c \notin run'.keep => Versions(c) \ members \subseteq rejected
        /\ VersionCount[c] <= MaxVersions => members = Versions(c)
    BY <1>2, <1>4, SelectionFacts
  <1>7. verdict' = verdict /\ owner' = owner /\ rejected' = rejected
    BY <1>1 DEF world
  <1>8. InHand'
    BY <1>1, <1>2, <1>4, <1>6, <1>7 DEF AcquisitionInv, RunInv, InHand
  <1>9. NotOwners' /\ EmptySound' /\ TierOpen' /\ BetterInv' /\ TriedJudged'
    BY <1>1, <1>4, <1>7 DEF AcquisitionInv, RunInv, NotOwners, EmptySound, TierOpen, BetterInv, ActiveInstallation, TriedJudged
  <1>10. PackJudged'
    <2>1. \A d \in Candidates : run.cand # d
      BY <1>1, OfferAssumption
    <2> QED  BY <1>4, <1>6, <1>7, <2>1 DEF AcquisitionInv, RunInv, PackJudged
  <1>11. CandTried'
    BY <1>4, <1>6 DEF CandTried
  <1>12. /\ (Clean' <=> Clean) /\ (NoFailure' <=> NoFailure) /\ (FirstClean' <=> FirstClean)
         /\ ActiveInstallation' <=> ActiveInstallation
    BY <1>1, <1>4 DEF Clean, NoFailure, FirstClean, ActiveInstallation
  <1>13. ExactCovers' /\ BroadCovers' /\ TiersSettled'
    <2>1. ExactCovers'
      BY <1>4, <1>7, <1>12 DEF AcquisitionInv, RunInv, ExactCovers, CandidateRejected
    <2> QED  BY <1>4, <1>7, <1>12, <2>1, ReachGrows DEF AcquisitionInv, RunInv, BroadCovers, TiersSettled
  <1> QED  BY <1>4, <1>5, <1>8, <1>9, <1>10, <1>11, <1>13 DEF AcquisitionInv, RunInv

\* A candidate of the turn comes to nothing.
LEMMA CandidateGone ==
    ASSUME AcquisitionInv, StoreInv', NEW c, run.pc = "work", run.cand = None, c \in run.turn, run' \in RunType,
           UNCHANGED <<verdict, owner, installed, replacing>>, rejected \subseteq rejected',
           run'.pc = run.pc, run'.stage = run.stage, run'.tier = run.tier, run'.outcome = run.outcome,
           run'.todo = run.todo, run'.turn = run.turn \ {c}, run'.cand = None, run'.members = {},
           run'.first = run.first, run'.empty = run.empty, run'.assessed = run.assessed, run'.missed = run.missed,
           run'.ready = run.ready, run'.prepared = run.prepared, run'.keep = run.keep, run'.tried = run.tried,
           run.failures \subseteq run'.failures, run'.failures # {} \/ (Unfit(c) /\ c \notin Exact), Clean' => Clean, FirstClean' => FirstClean
    PROVE  AcquisitionInv'
  <1>1. InHand'
    BY DEF AcquisitionInv, RunInv, InHand
  <1>2. NotOwners' /\ EmptySound'
    BY DEF AcquisitionInv, RunInv, NotOwners, EmptySound
  <1>3. TierOpen' /\ BetterInv'
    BY DEF AcquisitionInv, RunInv, TierOpen, BetterInv, ActiveInstallation
  <1>4. PackJudged'
    <2>1. \A d \in Candidates : run.cand # d
      BY OfferAssumption
    <2> QED  BY <2>1 DEF AcquisitionInv, RunInv, PackJudged
  <1>5. TriedJudged' /\ CandTried'
    BY DEF AcquisitionInv, RunInv, TriedJudged, CandTried
  <1>6. ActiveInstallation' <=> ActiveInstallation
    BY DEF ActiveInstallation
  <1>7. (Clean' => NoFailure') /\ (NoFailure' => NoFailure /\ Unfit(c) /\ c \notin Exact)
    BY DEF Clean, NoFailure
  <1>8. ExactCovers' /\ BroadCovers'
    <2>1. ExactCovers'
      BY <1>7 DEF AcquisitionInv, RunInv, ExactCovers, CandidateRejected
    <2> QED  BY <1>7, <2>1, ReachGrows DEF AcquisitionInv, RunInv, BroadCovers
  <1>9. TiersSettled'
    BY <1>6, ReachGrows DEF AcquisitionInv, RunInv, TiersSettled
  <1> QED  BY <1>1, <1>2, <1>3, <1>4, <1>5, <1>8, <1>9 DEF AcquisitionInv, RunInv

LEMMA IdleFacts ==
    ASSUME AcquisitionInv, NEW c, Idle(c)
    PROVE  /\ run \in RunType /\ run.pc = "work" /\ run.cand = None /\ c \in run.turn /\ c \in Candidates
           /\ run.members = {} /\ ProviderOf[c] \in Providers
  BY CandidateFacts DEF AcquisitionInv, RunInv, RunType, InHand, Idle, Working

LEMMA DownloadUselessInv ==
    ASSUME AcquisitionInv, NEW c, DownloadUseless(c)
    PROVE  AcquisitionInv'
  <1>1. /\ Idle(c) /\ \A v \in Versions(c) : verdict[v] = "off"
        /\ rejected' = rejected \cup {<<c, 0>>} /\ run' = [run EXCEPT !.turn = @ \ {c}]
        /\ UNCHANGED <<world, owner, strikes, installed, replacing, cache, resume>>
    BY DEF DownloadUseless, Dropped
  <1>2. /\ run \in RunType /\ run.pc = "work" /\ run.cand = None /\ c \in run.turn /\ c \in Candidates
        /\ run.members = {}
    BY <1>1, IdleFacts
  <1>3. Unfit(c)
    BY <1>1 DEF Unfit, Acceptable
  <1>4. c \notin Exact
    <2>1. <<c, 1>> \in Versions(c) /\ <<c, 1>> \in AllVersions
      BY <1>2, CandidateFacts DEF Versions
    <2>2. verdict[<<c, 1>>] \in Kinds[c] /\ verdict[<<c, 1>>] = "off"
      BY <1>1, <2>1 DEF AcquisitionInv, StoreInv, StoredOK
    <2> QED  BY <2>2, OfferAssumption
  <1>5. StoreInv' /\ UNCHANGED <<verdict, owner, installed, replacing>>
    BY <1>1, <1>2, <1>3, MoreRejected DEF AcquisitionInv, StoreInv, StoredOK, world
  <1>6. /\ run' \in RunType /\ run'.turn = run.turn \ {c}
        /\ run'.pc = run.pc /\ run'.stage = run.stage /\ run'.tier = run.tier /\ run'.outcome = run.outcome
        /\ run'.todo = run.todo /\ run'.cand = None /\ run'.members = {} /\ run'.answers = run.answers
        /\ run'.first = run.first /\ run'.empty = run.empty /\ run'.assessed = run.assessed
        /\ run'.missed = run.missed /\ run'.ready = run.ready /\ run'.prepared = run.prepared /\ run'.keep = run.keep
        /\ run'.tried = run.tried /\ run'.failures = run.failures
    BY <1>1, <1>2 DEF RunType
  <1>7. (Clean' => Clean) /\ (FirstClean' => FirstClean)
    BY <1>5, <1>6 DEF Clean, NoFailure, FirstClean
  <1> QED  BY <1>1, <1>2, <1>3, <1>4, <1>5, <1>6, <1>7, CandidateGone

LEMMA DownloadUnavailableInv ==
    ASSUME AcquisitionInv, NEW c, DownloadUnavailable(c)
    PROVE  AcquisitionInv'
  <1> DEFINE p == ProviderOf[c]
  <1>1. /\ Idle(c) /\ avail[p] # "up" /\ UNCHANGED <<world, stored>>
        /\ run' = [Dropped(c) EXCEPT !.failures = @ \cup {"unavailable"}, !.answers[p] = avail[p]]
    BY DEF DownloadUnavailable
  <1>2. /\ run \in RunType /\ run.pc = "work" /\ run.cand = None /\ c \in run.turn /\ c \in Candidates
        /\ run.members = {} /\ p \in Providers
    BY <1>1, IdleFacts
  <1>3. StoreInv' /\ UNCHANGED <<verdict, rejected, owner, installed, replacing>>
    BY <1>1, StoredUnchanged DEF AcquisitionInv, world, stored
  <1>4. avail[p] \in {"paused", "disabled"}
    BY <1>1, <1>2 DEF AcquisitionInv, StoreInv, StoredOK
  <1> DEFINE answers == [run.answers EXCEPT ![p] = avail[p]]
  <1>5. answers \in [Providers -> {"ok", "error", "paused", "disabled"}]
    BY <1>2, <1>4 DEF RunType
  <1>6. \A q \in Providers : answers[q] = "ok" => run.answers[q] = "ok"
    BY <1>2, <1>4 DEF RunType
  <1>7. run' = [run EXCEPT !.turn = run.turn \ {c}, !.failures = run.failures \cup {"unavailable"}, !.answers = answers]
    BY <1>1, <1>2 DEF Dropped, RunType
  <1> HIDE DEF p, answers
  <1>8. run' \in RunType
    BY <1>2, <1>5, <1>7 DEF RunType
  <1>9. /\ run'.turn = run.turn \ {c}
        /\ run'.pc = run.pc /\ run'.stage = run.stage /\ run'.tier = run.tier /\ run'.outcome = run.outcome
        /\ run'.todo = run.todo /\ run'.cand = None /\ run'.members = {} /\ run'.answers = answers
        /\ run'.first = run.first /\ run'.empty = run.empty /\ run'.assessed = run.assessed
        /\ run'.missed = run.missed /\ run'.ready = run.ready /\ run'.prepared = run.prepared /\ run'.keep = run.keep
        /\ run'.tried = run.tried /\ run'.failures = run.failures \cup {"unavailable"}
    BY <1>2, <1>7 DEF RunType
  <1>10. ~Clean'
    BY <1>9 DEF Clean, NoFailure
  <1>11. FirstClean' => FirstClean
    BY <1>3, <1>6, <1>9 DEF FirstClean, Providers
  <1> QED  BY <1>2, <1>3, <1>8, <1>9, <1>10, <1>11, CandidateGone

LEMMA DownloadFailsInv ==
    ASSUME AcquisitionInv, NEW c, DownloadFails(c)
    PROVE  AcquisitionInv'
  <1>1. /\ Idle(c) /\ UNCHANGED <<world, stored>>
        /\ run' = [Dropped(c) EXCEPT !.failures = @ \cup {"technical"}]
    BY DEF DownloadFails
  <1>2. /\ run \in RunType /\ run.pc = "work" /\ run.cand = None /\ c \in run.turn /\ c \in Candidates
        /\ run.members = {}
    BY <1>1, IdleFacts
  <1>3. StoreInv' /\ UNCHANGED <<verdict, rejected, owner, installed, replacing>>
    BY <1>1, StoredUnchanged DEF AcquisitionInv, world, stored
  <1>4. run' = [run EXCEPT !.turn = run.turn \ {c}, !.failures = run.failures \cup {"technical"}]
    BY <1>1, <1>2 DEF Dropped, RunType
  <1>5. /\ run' \in RunType /\ run'.turn = run.turn \ {c}
        /\ run'.pc = run.pc /\ run'.stage = run.stage /\ run'.tier = run.tier /\ run'.outcome = run.outcome
        /\ run'.todo = run.todo /\ run'.cand = None /\ run'.members = {} /\ run'.answers = run.answers
        /\ run'.first = run.first /\ run'.empty = run.empty /\ run'.assessed = run.assessed
        /\ run'.missed = run.missed /\ run'.ready = run.ready /\ run'.prepared = run.prepared /\ run'.keep = run.keep
        /\ run'.tried = run.tried /\ run'.failures = run.failures \cup {"technical"}
    BY <1>2, <1>4 DEF RunType
  <1>6. ~Clean' /\ (FirstClean' => FirstClean)
    BY <1>3, <1>5 DEF Clean, NoFailure, FirstClean
  <1> QED  BY <1>2, <1>3, <1>5, <1>6, CandidateGone

LEMMA CandidateInv ==
    ASSUME AcquisitionInv, Candidate
    PROVE  AcquisitionInv'
  BY DownloadInv, DownloadUselessInv, DownloadUnavailableInv, DownloadFailsInv DEF Candidate

LEMMA VersionInv ==
    ASSUME AcquisitionInv, Version
    PROVE  AcquisitionInv'
  BY SkipVersionInv, LapseFailsInv, LapseExitsInv, LapseRejectsInv, LapseSolidInv DEF Version

-----------------------------------------------------------------------------
(* Installing.                                                              *)

LEMMA InstallInv ==
    ASSUME AcquisitionInv, NEW v, Install(v)
    PROVE  AcquisitionInv'
  <1>1. /\ v \in run.ready /\ verdict[v] = "fits" /\ installed' = v /\ replacing' = FALSE
        /\ run' = NoRun /\ resume' = {} /\ UNCHANGED <<world, rejected, owner, strikes, cache>>
    BY DEF Install, Installs
  <1>2. v \in AllVersions /\ v \notin owner
    BY <1>1 DEF AcquisitionInv, RunInv, RunType, NotOwners
  <1>3. v \notin rejected
    BY <1>1, <1>2, RejectedUnfit DEF AcquisitionInv, Acceptable
  <1>4. StoredOK'
    BY <1>1, <1>2 DEF AcquisitionInv, StoreInv, StoredOK, world
  <1>5. OnlyUnfitRejected' /\ RejectedStaysAway' /\ ResumeSound' /\ InstalledFits'
    BY <1>1, <1>3 DEF AcquisitionInv, StoreInv, OnlyUnfitRejected, Acceptable, RejectedStaysAway, ResumeSound,
      InstalledFits, world
  <1> QED  BY <1>1, <1>4, <1>5, NoRunInv DEF AcquisitionInv, StoreInv

LEMMA InstallRefusedInv ==
    ASSUME AcquisitionInv, NEW v, InstallRefused(v)
    PROVE  AcquisitionInv'
  <1>1. /\ run.pc = "work" /\ v \in run.ready /\ verdict[v] = "invalid" /\ rejected' = rejected \cup {v}
        /\ run' = [run EXCEPT !.ready = @ \ {v}]
        /\ UNCHANGED <<world, owner, strikes, installed, replacing, cache, resume>>
    BY DEF InstallRefused, Installs, Working
  <1>2. run \in RunType /\ v \in AllVersions
    BY <1>1 DEF AcquisitionInv, RunInv, RunType
  <1>3. StoreInv' /\ UNCHANGED <<verdict, owner, installed, replacing>>
    BY <1>1, <1>2, MoreRejected DEF AcquisitionInv, StoreInv, StoredOK, world
  <1>4. /\ run' \in RunType /\ SameTurn(run') /\ run'.members = run.members /\ run'.ready = run.ready \ {v}
        /\ run'.prepared = run.prepared /\ run'.keep = run.keep /\ run'.tried = run.tried
        /\ run'.failures = run.failures /\ run'.allRejected = run.allRejected
    BY <1>1, <1>2 DEF RunType, SameTurn
  <1>5. InHand' /\ NotOwners' /\ EmptySound'
    BY <1>1, <1>3, <1>4 DEF AcquisitionInv, RunInv, InHand, NotOwners, EmptySound, SameTurn
  <1>6. TierOpen' /\ BetterInv'
    BY <1>3, <1>4 DEF AcquisitionInv, RunInv, TierOpen, BetterInv, ActiveInstallation, SameTurn
  <1>7. PackJudged'
    BY <1>1, <1>4 DEF AcquisitionInv, RunInv, PackJudged, SameTurn
  <1>8. TriedJudged' /\ CandTried'
    BY <1>1, <1>3, <1>4 DEF AcquisitionInv, RunInv, TriedJudged, CandTried, SameTurn
  <1>9. /\ (Clean' => Clean) /\ (NoFailure' => NoFailure) /\ (FirstClean' => FirstClean)
        /\ ActiveInstallation' <=> ActiveInstallation
    BY <1>3, <1>4 DEF Clean, NoFailure, FirstClean, ActiveInstallation, SameTurn
  <1>10. (\A w \in run'.ready : verdict[w] # "fits") => \A w \in run.ready : verdict[w] # "fits"
    BY <1>1, <1>4
  <1>11. ExactCovers' /\ BroadCovers'
    <2>1. \A c \in Exact : v = <<c, 1>> => CandidateRejected(c)'
      BY <1>1, OfferAssumption DEF CandidateRejected, IsPack
    <2>2. \A c \in Exact : CandidateRejected(c) => CandidateRejected(c)'
      BY <1>1 DEF CandidateRejected
    <2>3. ExactCovers'
      BY <1>4, <1>9, <2>1, <2>2 DEF AcquisitionInv, RunInv, ExactCovers, SameTurn
    <2> QED  BY <1>3, <1>4, <1>9, <1>10, <2>3, ReachGrows DEF AcquisitionInv, RunInv, BroadCovers, SameTurn
  <1>12. TiersSettled'
    BY <1>3, <1>4, <1>9, ReachGrows DEF AcquisitionInv, RunInv, TiersSettled, SameTurn
  <1> QED  BY <1>3, <1>4, <1>5, <1>6, <1>7, <1>8, <1>11, <1>12 DEF AcquisitionInv, RunInv

LEMMA EndsInv ==
    ASSUME AcquisitionInv, NEW v, InstallFails(v) \/ MountLost
    PROVE  AcquisitionInv'
  BY AbortsInv DEF InstallFails, MountLost, world

-----------------------------------------------------------------------------
(* The end of a candidate.                                                  *)

\* A candidate whose versions are all judged is out of reach or has none that
\* fits.
LEMMA CandidateJudged ==
    ASSUME AcquisitionInv, NoFailure, run.cand # None, run.members = {}, \A v \in run.ready : verdict[v] # "fits"
    PROVE  OutOfReach(run.cand) \/ Unfit(run.cand)
  <1> DEFINE c == run.cand
  <1>1. c \in Candidates
    BY DEF AcquisitionInv, RunInv, RunType
  <1>2. CASE VersionCount[c] <= MaxVersions
    <2>1. SUFFICES ASSUME NEW v \in Versions(c)
                   PROVE  ~Acceptable(v)
      BY DEF Unfit
    <2>2. v \in rejected \cup run.tried /\ v \in AllVersions
      BY <1>1, <1>2, CandidateFacts DEF AcquisitionInv, RunInv, CandTried
    <2>3. CASE v \in rejected
      BY <2>2, <2>3, RejectedUnfit DEF AcquisitionInv
    <2>4. CASE v \in run.tried /\ v \notin rejected
      BY <2>4 DEF AcquisitionInv, RunInv, TriedJudged, NoFailure, Acceptable
    <2> QED  BY <2>2, <2>3, <2>4
  <1>3. CASE ~(VersionCount[c] <= MaxVersions)
    BY <1>1, <1>3, CandidateFacts, BoundAssumption DEF OutOfReach
  <1> QED  BY <1>2, <1>3

\* An exact one that the exact search missed and the broad search tried puts the
\* others of its tier out of reach.
LEMMA ExactTried ==
    ASSUME NEW t \in {"preferred", "fallback"}, NEW x \in Exact, x \in Offers(t), ProviderOf[x] \in run.missed,
           Versions(x) \subseteq run.tried, NEW c \in Offers(t)
    PROVE  OutOfReach(c)
  BY DEF OutOfReach, Offers, TierProviders

\* A clear result that the installer will refuse does so for those it spares.
LEMMA SparedOut ==
    ASSUME NEW t \in {"preferred", "fallback"}, NEW c \in Offers(t), NEW d \in Offers(t), c # d, ScoreOf[c] = ScoreOf[d],
           NEW v \in Versions(d), v \in run.tried, verdict[v] = "invalid"
    PROVE  OutOfReach(c)
  BY DEF OutOfReach, Offers, TierProviders

LEMMA EndCandidateInv ==
    ASSUME AcquisitionInv, EndCandidate
    PROVE  AcquisitionInv'
  <1> DEFINE c == run.cand
  <1>1. /\ run.pc = "work" /\ c # None /\ run.members = {} /\ run \in RunType
        /\ c \in Candidates /\ c \in run.turn
        /\ UNCHANGED <<world, owner, strikes, installed, replacing, cache, resume>>
    BY DEF EndCandidate, Working, AcquisitionInv, RunInv, RunType, InHand
  <1>2. rejected' = IF IsPack(c) /\ run.allRejected /\ c \notin run.keep THEN rejected \cup {<<c, 0>>} ELSE rejected
    BY DEF EndCandidate
  <1>3. PICK turn : /\ run' = [run EXCEPT !.turn = turn, !.cand = None] /\ turn \subseteq run.turn
                    /\ \/ turn = run.turn \ {c}
                       \/ turn = {} /\ run.stage = "broad" /\ run.ready \cap Versions(c) # {}
    <2>1. CASE run' = [Dropped(c) EXCEPT !.cand = None]
      <3>1. run' = [run EXCEPT !.turn = run.turn \ {c}, !.cand = None]
        BY <1>1, <2>1 DEF Dropped, RunType
      <3> QED  BY <3>1
    <2>2. CASE /\ run.stage = "broad" /\ run.ready \cap Versions(c) # {}
               /\ run' = [run EXCEPT !.turn = {}, !.cand = None]
      BY <2>2
    <2> QED  BY <2>1, <2>2 DEF EndCandidate
  <1>4. turn \subseteq run.turn /\ c \notin turn /\ turn \subseteq Candidates
    BY <1>1, <1>3 DEF RunType
  <1>5. /\ run' \in RunType /\ run'.turn = turn /\ run'.cand = None
        /\ run'.pc = run.pc /\ run'.stage = run.stage /\ run'.tier = run.tier /\ run'.outcome = run.outcome
        /\ run'.todo = run.todo /\ run'.answers = run.answers /\ run'.first = run.first /\ run'.empty = run.empty
        /\ run'.assessed = run.assessed /\ run'.members = {} /\ run'.ready = run.ready
        /\ run'.prepared = run.prepared /\ run'.keep = run.keep /\ run'.tried = run.tried /\ run'.failures = run.failures
        /\ run'.missed = run.missed
    BY <1>1, <1>3, <1>4 DEF RunType
  <1>6. StoreInv' /\ rejected \subseteq rejected' /\ UNCHANGED <<verdict, owner, installed, replacing>>
    <2>1. ASSUME IsPack(c) /\ run.allRejected /\ c \notin run.keep
          PROVE  Unfit(c)
      <3>1. Versions(c) \subseteq rejected
        BY <1>1, <2>1 DEF AcquisitionInv, RunInv, PackJudged
      <3> QED  BY <1>1, <3>1, CandidateFacts, RejectedUnfit DEF AcquisitionInv, Unfit
    <2> QED  BY <1>1, <1>2, <2>1, MoreRejected DEF AcquisitionInv, StoreInv, StoredOK, world
  <1>7. InHand' /\ NotOwners' /\ EmptySound'
    BY <1>1, <1>4, <1>5, <1>6 DEF AcquisitionInv, RunInv, InHand, NotOwners, EmptySound
  <1>8. TierOpen' /\ BetterInv'
    BY <1>4, <1>5, <1>6 DEF AcquisitionInv, RunInv, TierOpen, BetterInv, ActiveInstallation
  <1>9. PackJudged'
    <2>1. SUFFICES ASSUME NEW d \in Candidates, IsPack(d), d \notin run.keep, run.prepared \cap Versions(d) # {}
                   PROVE  Versions(d) \subseteq rejected' \cup run.prepared
      BY <1>5, OfferAssumption DEF PackJudged
    <2> QED  BY <1>1, <1>6, <2>1 DEF AcquisitionInv, RunInv, PackJudged
  <1>10. TriedJudged' /\ CandTried'
    BY <1>5, <1>6 DEF AcquisitionInv, RunInv, TriedJudged, CandTried
  <1>11. /\ (Clean' <=> Clean) /\ (NoFailure' <=> NoFailure) /\ (FirstClean' <=> FirstClean)
         /\ (ActiveInstallation' <=> ActiveInstallation)
    BY <1>5, <1>6 DEF Clean, NoFailure, FirstClean, ActiveInstallation
  <1>12. TiersSettled'
    BY <1>5, <1>6, <1>11, ReachGrows DEF AcquisitionInv, RunInv, TiersSettled
  <1>13. BroadCovers'
    <2>1. SUFFICES ASSUME run.stage = "broad"
                   PROVE  BroadCovers'
      BY <1>5 DEF BroadCovers
    <2> DEFINE mine == run.turn \cup run.todo
    <2>2. /\ mine \subseteq Offers(run.tier)
          /\ \A d, e \in run.turn : ScoreOf[d] = ScoreOf[e]
          /\ \A x \in Exact \cap mine : mine \subseteq {x} /\ (NoFailure => ProviderOf[x] \in run.missed)
          /\ Clean /\ (\A v \in run.ready : verdict[v] # "fits") =>
               \A d \in Offers(run.tier) : \/ OutOfReach(d) \/ Unfit(d) \/ d \in mine \/ \E x \in Exact : x \in mine
      BY <1>1, <2>1 DEF AcquisitionInv, RunInv, BroadCovers
    <2>3. ASSUME Clean, NoFailure, \A v \in run.ready : verdict[v] # "fits", NEW d \in Offers(run.tier)
          PROVE  OutOfReach(d) \/ Unfit(d) \/ d \in turn \cup run.todo
      <3>1. run.tier \in {"preferred", "fallback"} /\ c \in Offers(run.tier)
        BY <1>1, <2>2 DEF RunType
      <3>2. CASE \E x \in Exact : x \in mine
        <4>1. PICK x \in Exact : x \in mine
          BY <3>2
        <4>2. x = c /\ ProviderOf[c] \in run.missed
          BY <1>1, <2>2, <2>3, <4>1
        <4>3. ~IsPack(c) /\ VersionCount[c] <= MaxVersions
          BY <1>1, <4>2, OfferAssumption, BoundAssumption DEF IsPack
        <4>4. Versions(c) \subseteq run.tried
          BY <1>1, <4>3 DEF AcquisitionInv, RunInv, CandTried
        <4> QED  BY <3>1, <4>2, <4>4, ExactTried
      <3>3. CASE d = c
        BY <1>1, <2>3, <3>3, CandidateJudged
      <3>4. CASE d \in run.turn /\ d # c /\ turn # run.turn \ {c}
        <4>1. PICK v \in run.ready : v \in Versions(c)
          BY <1>3, <3>4
        <4>2. v \in run.tried /\ verdict[v] = "invalid"
          BY <2>3, <4>1 DEF AcquisitionInv, RunInv, InHand
        <4> QED  BY <1>1, <2>2, <2>3, <3>1, <3>4, <4>1, <4>2, SparedOut
      <3>5. CASE d \in run.turn \ {c} /\ turn = run.turn \ {c}
        BY <3>5
      <3> QED  BY <2>2, <2>3, <3>2, <3>3, <3>4, <3>5
    <2>4. ASSUME Clean', \A v \in run'.ready : verdict'[v] # "fits", NEW d \in Offers(run.tier)
          PROVE  OutOfReach(d)' \/ Unfit(d)' \/ d \in turn \cup run.todo
      BY <1>5, <1>6, <1>11, <2>3, <2>4, ReachGrows DEF Clean
    <2> QED  BY <1>4, <1>5, <1>11, <2>2, <2>4 DEF BroadCovers
  <1>14. ExactCovers'
    <2>1. SUFFICES ASSUME NoFailure, run.stage = "exact", NEW d \in Exact \cap Offers(run.tier)
                   PROVE  \/ ProviderOf[d] \in run.missed \/ CandidateRejected(d)'
                          \/ d \in turn \cup run.todo \/ <<d, 1>> \in run.ready
      BY <1>1, <1>5, <1>11 DEF ExactCovers, Offers
    <2>2. \/ ProviderOf[d] \in run.missed \/ CandidateRejected(d)
          \/ d \in run.turn \cup run.todo \/ <<d, 1>> \in run.ready
      BY <1>1, <2>1 DEF AcquisitionInv, RunInv, ExactCovers
    <2>3. CandidateRejected(d) => CandidateRejected(d)'
      BY <1>6 DEF CandidateRejected
    <2>4. CASE d = c
      <3>1. ~IsPack(c) /\ VersionCount[c] <= MaxVersions /\ <<c, 1>> \in Versions(c)
        BY <1>1, <2>1, <2>4, CandidateFacts, OfferAssumption, BoundAssumption DEF IsPack
      <3>2. <<c, 1>> \in run.tried
        BY <1>1, <3>1 DEF AcquisitionInv, RunInv, CandTried
      <3>3. <<c, 1>> \in rejected \/ <<c, 1>> \in run.ready
        BY <2>1, <3>2 DEF AcquisitionInv, RunInv, TriedJudged, NoFailure
      <3> QED  BY <2>3, <2>4, <3>1, <3>3 DEF CandidateRejected
    <2> QED  BY <1>3, <2>1, <2>2, <2>3, <2>4
  <1> QED  BY <1>5, <1>6, <1>7, <1>8, <1>9, <1>10, <1>12, <1>13, <1>14 DEF AcquisitionInv, RunInv

-----------------------------------------------------------------------------
(* The candidates of a stage take their turns.                              *)

LEMMA NextTurnFacts ==
    ASSUME NEW r \in RunType, NEW cs, cs \subseteq Candidates, NEW q \in NextTurn(r, cs)
    PROVE  /\ q \in RunType /\ q.pc = "work" /\ q.turn \cup q.todo = cs /\ q.prepared = {}
           /\ q.stage = r.stage /\ q.tier = r.tier /\ q.outcome = r.outcome /\ q.cand = r.cand
           /\ q.members = r.members /\ q.ready = r.ready /\ q.tried = r.tried /\ q.failures = r.failures
           /\ q.answers = r.answers /\ q.first = r.first /\ q.empty = r.empty /\ q.assessed = r.assessed /\ q.missed = r.missed
           /\ r.stage # "exact" => \A c, d \in q.turn : ScoreOf[c] = ScoreOf[d]
  <1>1. PICK turn : /\ q = [r EXCEPT !.pc = "work", !.turn = turn, !.todo = cs \ turn, !.prepared = {}]
                    /\ turn \in IF r.stage = "exact" THEN {{c} : c \in cs} ELSE {Best(cs)}
    BY DEF NextTurn
  <1>2. turn \subseteq cs
    BY <1>1 DEF Best
  <1>3. ASSUME r.stage # "exact", NEW c \in turn, NEW d \in turn
        PROVE  ScoreOf[c] = ScoreOf[d]
    BY <1>1, <1>2, <1>3, CandidateFacts DEF Best
  <1>4. /\ q \in RunType /\ q.pc = "work" /\ q.turn = turn /\ q.todo = cs \ turn /\ q.prepared = {}
        /\ q.stage = r.stage /\ q.tier = r.tier /\ q.outcome = r.outcome /\ q.cand = r.cand
        /\ q.members = r.members /\ q.ready = r.ready /\ q.tried = r.tried /\ q.failures = r.failures
        /\ q.answers = r.answers /\ q.first = r.first /\ q.empty = r.empty /\ q.assessed = r.assessed /\ q.missed = r.missed
    BY <1>1, <1>2 DEF RunType
  <1> QED  BY <1>2, <1>3, <1>4

\* The candidates cs are what is left to try.
LEMMA TurnInv ==
    ASSUME AcquisitionInv, StoreInv', UNCHANGED <<verdict, owner, installed, replacing>>, rejected \subseteq rejected',
           run.pc # "idle", run.ready = {},
           NEW r \in RunType, NEW cs, cs \subseteq Candidates, run' \in NextTurn(r, cs),
           r.cand = None, r.members = {}, r.ready = {}, r.tier = run.tier, r.first = run.first, r.tried = run.tried,
           r.failures = run.failures, r.assessed = run.assessed, \A p \in r.empty, c \in Candidates : ProviderOf[c] # p,
           FirstClean' => FirstClean, run.missed \subseteq r.missed,
           \A c \in cs : ~IsPack(c) => <<c, 1>> \notin owner,
           ActiveInstallation => \A c \in cs : Better(c, installed[1]),
           r.stage = "broad" =>
              /\ cs \subseteq Offers(run.tier)
              /\ \A x \in Exact \cap cs : cs \subseteq {x} /\ (NoFailure' => ProviderOf[x] \in r.missed)
              /\ Clean' => \A c \in Offers(run.tier) : OutOfReach(c) \/ Unfit(c) \/ c \in cs \/ \E x \in Exact : x \in cs,
           r.stage = "exact" /\ NoFailure' =>
              \A c \in Exact \cap Offers(run.tier) : ProviderOf[c] \in r.missed \/ CandidateRejected(c) \/ c \in cs
    PROVE  AcquisitionInv'
  <1>1. /\ run' \in RunType /\ run'.pc = "work" /\ run'.turn \cup run'.todo = cs /\ run'.prepared = {}
        /\ run'.stage = r.stage /\ run'.tier = run.tier /\ run'.cand = None
        /\ run'.members = {} /\ run'.ready = {} /\ run'.tried = run.tried /\ run'.failures = run.failures
        /\ run'.first = run.first /\ run'.empty = r.empty /\ run'.assessed = run.assessed
        /\ run'.missed = r.missed
        /\ r.stage # "exact" => \A c, d \in run'.turn : ScoreOf[c] = ScoreOf[d]
    BY NextTurnFacts
  <1>2. InHand' /\ NotOwners' /\ EmptySound'
    BY <1>1 DEF InHand, NotOwners, EmptySound
  <1>3. TierOpen' /\ BetterInv'
    BY <1>1 DEF AcquisitionInv, RunInv, TierOpen, BetterInv, ActiveInstallation
  <1>4. PackJudged' /\ CandTried'
    BY <1>1, OfferAssumption DEF PackJudged, CandTried
  <1>5. TriedJudged'
    BY <1>1 DEF AcquisitionInv, RunInv, TriedJudged
  <1>6. ExactCovers' /\ BroadCovers'
    <2>1. \A c : CandidateRejected(c) => CandidateRejected(c)'
      BY DEF CandidateRejected
    <2>2. ExactCovers'
      BY <1>1, <2>1 DEF ExactCovers, Offers
    <2> QED  BY <1>1, <2>2, ReachGrows DEF BroadCovers, Offers
  <1>7. ActiveInstallation' <=> ActiveInstallation
    BY DEF ActiveInstallation
  <1>8. TiersSettled'
    BY <1>1, <1>7, ReachGrows DEF AcquisitionInv, RunInv, TiersSettled
  <1> QED  BY <1>1, <1>2, <1>3, <1>4, <1>5, <1>6, <1>8 DEF AcquisitionInv, RunInv

\* The search turns to its next stage, or the tier ends.
LEMMA StageInv ==
    ASSUME AcquisitionInv, StoreInv', UNCHANGED <<verdict, owner, installed, replacing>>, rejected \subseteq rejected',
           run.pc # "idle", run.ready = {}, run' \in RunType, run'.pc \in {"exact", "broad", "done"},
           run'.turn = {}, run'.todo = {}, run'.cand = None, run'.members = {}, run'.ready = {},
           run'.pc # "done" => run'.prepared = {} /\ run'.keep = {},
           run.cand = None, run'.pc = "done" => run'.prepared = run.prepared /\ run'.keep = run.keep,
           run'.tier = run.tier, run'.first = run.first, run'.tried = run.tried, run'.failures = run.failures,
           run'.assessed => ActiveInstallation, \A p \in run'.empty, c \in Candidates : ProviderOf[c] # p,
           FirstClean' => FirstClean, run.missed \subseteq run'.missed,
           run'.pc = "broad" /\ NoFailure' =>
              \A c \in Exact \cap Offers(run.tier) : ProviderOf[c] \in run'.missed \/ CandidateRejected(c),
           run'.pc = "done" => /\ run'.outcome \in Endings
                               /\ run.failures # {} /\ run'.outcome # "satisfied" => run'.outcome \in {"failed", "throttled"}
                               /\ run'.outcome \in {"no_result", "rejected"} /\ Clean' => Settled(run.tier)
    PROVE  AcquisitionInv'
  <1>1. InHand'
    BY DEF AcquisitionInv, RunInv, InHand
  <1>2. NotOwners' /\ EmptySound'
    BY DEF NotOwners, EmptySound
  <1>3. TierOpen' /\ BetterInv'
    BY DEF AcquisitionInv, RunInv, TierOpen, BetterInv, ActiveInstallation
  <1>4. CandTried' /\ ExactCovers' /\ BroadCovers'
    BY DEF CandTried, ExactCovers, CandidateRejected, BroadCovers, Offers
  <1>5. TriedJudged'
    BY DEF AcquisitionInv, RunInv, TriedJudged
  <1>6. ActiveInstallation' <=> ActiveInstallation
    BY DEF ActiveInstallation
  <1>7. TiersSettled'
    BY <1>6, ReachGrows DEF AcquisitionInv, RunInv, TiersSettled
  <1>8. PackJudged'
    <2>1. \A d \in Candidates : run.cand # d
      BY OfferAssumption
    <2> QED  BY <2>1 DEF AcquisitionInv, RunInv, PackJudged
  <1> QED  BY <1>1, <1>2, <1>3, <1>4, <1>5, <1>7, <1>8 DEF AcquisitionInv, RunInv

\* A score tier ends.  A pack that is rejected then had a version prepared, so
\* that each of its versions was judged.
LEMMA ExhaustedUnfit ==
    ASSUME AcquisitionInv, run.cand = None, NEW c, c \in {v[1] : v \in run.prepared}, Exhausted(c)
    PROVE  c \in Candidates /\ Unfit(c)
  <1>1. PICK v \in run.prepared : c = v[1]
    OBVIOUS
  <1>2. v \in AllVersions /\ c \in Candidates /\ v \in Versions(c)
    BY <1>1, VersionFacts DEF AcquisitionInv, RunInv, RunType
  <1>3. IsPack(c) /\ c \notin run.keep /\ run.prepared \cap Versions(c) \subseteq rejected
    BY DEF Exhausted
  <1>4. Versions(c) \subseteq rejected \cup run.prepared
    BY <1>1, <1>2, <1>3, OfferAssumption DEF AcquisitionInv, RunInv, PackJudged
  <1>5. Versions(c) \subseteq rejected
    BY <1>3, <1>4
  <1> QED  BY <1>2, <1>5, CandidateFacts, RejectedUnfit DEF AcquisitionInv, Unfit

LEMMA ClassifiedFacts ==
    ASSUME run \in RunType, NEW otherwise \in Endings
    PROVE  /\ Classified(otherwise) \in Endings
           /\ run.failures # {} => Classified(otherwise) \in {"failed", "throttled"}
           /\ run.failures = {} => Classified(otherwise) = otherwise
  <1>1. CASE run.failures = {}
    BY <1>1 DEF Classified
  <1>2. CASE run.failures # {}
    BY <1>2 DEF Classified, Endings
  <1> QED  BY <1>1, <1>2

LEMMA EndScoreTierInv ==
    ASSUME AcquisitionInv, EndScoreTier
    PROVE  AcquisitionInv'
  <1> DEFINE gone == {c \in {v[1] : v \in run.prepared} : Exhausted(c)}
  <1>1. /\ run.pc = "work" /\ run.cand = None /\ run.turn = {} /\ run.ready = {}
        /\ rejected' = rejected \cup {<<c, 0>> : c \in gone}
        /\ UNCHANGED <<world, owner, strikes, installed, replacing, cache, resume>>
    BY DEF EndScoreTier, Working
  <1>2. run \in RunType /\ run.members = {} /\ run.todo \subseteq Candidates
    BY <1>1 DEF AcquisitionInv, RunInv, InHand, RunType
  <1>3. \A c \in gone : c \in Candidates /\ Unfit(c)
    BY <1>1, ExhaustedUnfit
  <1> HIDE DEF gone
  <1>4. StoreInv' /\ rejected \subseteq rejected' /\ UNCHANGED <<verdict, owner, installed, replacing>>
    BY <1>1, <1>3, MoreRejected DEF AcquisitionInv, StoreInv, StoredOK, world
  <1>5. \A p \in run.empty, c \in Candidates : ProviderOf[c] # p
    BY DEF AcquisitionInv, RunInv, EmptySound
  <1>6. CASE run.todo # {}
    <2>1. run' \in NextTurn(run, run.todo)
      BY <1>6 DEF EndScoreTier
    <2>2. /\ run'.tier = run.tier /\ run'.first = run.first /\ run'.answers = run.answers
          /\ run'.failures = run.failures /\ run'.missed = run.missed
      BY <1>2, <2>1, NextTurnFacts
    <2>3. (FirstClean' => FirstClean) /\ (Clean' => Clean) /\ (NoFailure' => NoFailure)
      BY <1>4, <2>2 DEF FirstClean, Clean, NoFailure
    <2>4. \A c \in run.todo : ~IsPack(c) => <<c, 1>> \notin owner
      BY DEF AcquisitionInv, RunInv, NotOwners
    <2>5. ActiveInstallation => \A c \in run.todo : Better(c, installed[1])
      BY DEF AcquisitionInv, RunInv, BetterInv
    <2>6. run.stage = "broad" =>
            /\ run.todo \subseteq Offers(run.tier)
            /\ \A x \in Exact \cap run.todo : run.todo \subseteq {x} /\ (NoFailure' => ProviderOf[x] \in run.missed)
            /\ Clean' => \A c \in Offers(run.tier) : \/ OutOfReach(c) \/ Unfit(c) \/ c \in run.todo
                                                      \/ \E x \in Exact : x \in run.todo
      BY <1>1, <2>3 DEF AcquisitionInv, RunInv, BroadCovers
    <2>7. run.stage = "exact" /\ NoFailure' =>
            \A c \in Exact \cap Offers(run.tier) : \/ ProviderOf[c] \in run.missed \/ CandidateRejected(c)
                                                    \/ c \in run.todo
      BY <1>1, <2>3 DEF AcquisitionInv, RunInv, ExactCovers
    <2> QED  BY <1>1, <1>2, <1>4, <1>5, <2>1, <2>3, <2>4, <2>5, <2>6, <2>7, TurnInv
  <1>7. CASE run.todo = {} /\ run.stage # "broad"
    <2>1. PICK pc \in {"exact", "broad"} : /\ run' = [run EXCEPT !.pc = pc, !.prepared = {}, !.keep = {}]
                                           /\ pc = "broad" => run.stage = "exact"
      BY <1>2, <1>7 DEF EndScoreTier, RunType
    <2>2. /\ run' \in RunType /\ run'.pc = pc /\ run'.prepared = {} /\ run'.keep = {}
          /\ run'.turn = {} /\ run'.todo = {} /\ run'.cand = None /\ run'.members = {} /\ run'.ready = {}
          /\ run'.tier = run.tier /\ run'.first = run.first /\ run'.answers = run.answers
          /\ run'.tried = run.tried /\ run'.failures = run.failures /\ run'.empty = run.empty
          /\ run'.assessed = run.assessed /\ run'.missed = run.missed
      BY <1>1, <1>2, <1>7, <2>1 DEF RunType
    <2>3. (FirstClean' => FirstClean) /\ (NoFailure' => NoFailure)
      BY <1>4, <2>2 DEF FirstClean, NoFailure
    <2>4. run'.assessed => ActiveInstallation
      BY <2>2 DEF AcquisitionInv, RunInv, TiersSettled
    <2>5. run'.pc = "broad" /\ NoFailure' =>
            \A c \in Exact \cap Offers(run.tier) : ProviderOf[c] \in run'.missed \/ CandidateRejected(c)
      BY <1>1, <1>7, <2>1, <2>2, <2>3 DEF AcquisitionInv, RunInv, ExactCovers
    <2> QED  BY <1>1, <1>4, <1>5, <2>1, <2>2, <2>3, <2>4, <2>5, StageInv
  <1>8. CASE run.todo = {} /\ run.stage = "broad"
    <2> DEFINE outcome == Classified("rejected")
    <2>1. run' = [run EXCEPT !.pc = "done", !.outcome = outcome]
      BY <1>8 DEF EndScoreTier
    <2>2. /\ outcome \in Endings
          /\ run.failures # {} => outcome \in {"failed", "throttled"}
      BY <1>2, ClassifiedFacts DEF Endings
    <2> HIDE DEF outcome
    <2>3. /\ run' \in RunType /\ run'.pc = "done" /\ run'.outcome = outcome /\ run'.prepared = run.prepared
          /\ run'.keep = run.keep
          /\ run'.turn = {} /\ run'.todo = {} /\ run'.cand = None /\ run'.members = {} /\ run'.ready = {}
          /\ run'.tier = run.tier /\ run'.first = run.first /\ run'.answers = run.answers
          /\ run'.tried = run.tried /\ run'.failures = run.failures /\ run'.empty = run.empty
          /\ run'.assessed = run.assessed /\ run'.missed = run.missed
      BY <1>1, <1>2, <1>8, <2>1, <2>2 DEF RunType
    <2>4. (FirstClean' => FirstClean) /\ (Clean' => Clean)
      BY <1>4, <2>3 DEF FirstClean, Clean, NoFailure
    <2>5. run'.assessed => ActiveInstallation
      BY <2>3 DEF AcquisitionInv, RunInv, TiersSettled
    <2>6. Clean => Settled(run.tier)
      BY <1>1, <1>8 DEF AcquisitionInv, RunInv, BroadCovers, Settled
    <2> QED  BY <1>1, <1>4, <1>5, <2>2, <2>3, <2>4, <2>5, <2>6, StageInv
  <1> QED  BY <1>6, <1>7, <1>8

LEMMA SettleInv ==
    ASSUME AcquisitionInv, Settle
    PROVE  AcquisitionInv'
  BY EndCandidateInv, EndScoreTierInv, InstallInv, InstallRefusedInv, EndsInv DEF Settle

-----------------------------------------------------------------------------
(* Searching.                                                               *)

LEMMA InstalledFacts ==
    ASSUME StoreInv, ActiveInstallation
    PROVE  installed[1] \in Candidates /\ ProviderOf[installed[1]] \in Providers /\ ScoreOf[installed[1]] \in Nat
  BY VersionFacts, CandidateFacts DEF StoreInv, StoredOK, ActiveInstallation

\* What shouldUpgrade allows is better.
LEMMA UpgradeBetter ==
    ASSUME StoreInv, ActiveInstallation, NEW c \in Candidates, Allowed(c)
    PROVE  Better(c, installed[1])
  <1> DEFINE old == installed[1]
  <1>1. /\ ProviderOf[old] \in Providers /\ ScoreOf[old] \in Nat
        /\ ProviderOf[c] \in Providers /\ ScoreOf[c] \in Nat
    BY InstalledFacts, CandidateFacts
  <1>2. ShouldUpgrade(c)
    BY DEF Allowed
  <1>3. CASE ProviderOf[old] \in Fallback /\ ProviderOf[c] \in Preferred
    BY <1>3 DEF Better
  <1>4. CASE ProviderOf[old] \in Preferred /\ ProviderOf[c] \in Fallback
    BY <1>2, <1>4, OfferAssumption DEF ShouldUpgrade
  <1>5. CASE /\ ~(ProviderOf[old] \in Fallback /\ ProviderOf[c] \in Preferred)
             /\ ~(ProviderOf[old] \in Preferred /\ ProviderOf[c] \in Fallback)
    <2>1. old \notin Exact /\ (c \in Exact \/ ScoreOf[c] >= ScoreOf[old] + Delta)
      BY <1>2, <1>5 DEF ShouldUpgrade
    <2>2. c \in Exact \/ ScoreOf[c] > ScoreOf[old]
      BY <1>1, <2>1, BoundAssumption
    <2>3. \E t \in {Preferred, Fallback} : {ProviderOf[c], ProviderOf[old]} \subseteq t
      BY <1>1, <1>5 DEF Providers
    <2> HIDE DEF old
    <2>4. Better(c, old)
      BY <2>1, <2>2, <2>3 DEF Better
    <2> QED  BY <2>4 DEF old
  <1> QED  BY <1>3, <1>4, <1>5

\* So is an exact candidate of a tier that is still open.
LEMMA ExactBetter ==
    ASSUME AcquisitionInv, run.pc # "idle", ActiveInstallation, NEW c \in Exact, c \in Offers(run.tier)
    PROVE  Better(c, installed[1])
  <1>1. ProviderOf[installed[1]] \in Preferred \cup Fallback
    BY InstalledFacts DEF AcquisitionInv, Providers
  <1>2. CASE run.tier = "preferred"
    BY <1>1, <1>2 DEF AcquisitionInv, RunInv, TierOpen, Offers, TierProviders, Better
  <1>3. CASE run.tier # "preferred"
    BY <1>1, <1>3 DEF AcquisitionInv, RunInv, TierOpen, Offers, TierProviders, Better
  <1> QED  BY <1>2, <1>3

LEMMA BeginInv ==
    ASSUME AcquisitionInv, Begin
    PROVE  AcquisitionInv'
  <1>1. ~Satisfied /\ run' = [NoRun EXCEPT !.pc = "cache"] /\ UNCHANGED <<world, stored>>
    BY DEF Begin
  <1>2. StoreInv' /\ UNCHANGED <<verdict, rejected, owner, installed, replacing>>
    BY <1>1, StoredUnchanged DEF AcquisitionInv, world, stored
  <1> DEFINE r == NoRun
  <1>3. /\ r \in RunType /\ r.turn = {} /\ r.todo = {} /\ r.cand = None /\ r.members = {} /\ r.ready = {}
        /\ r.prepared = {} /\ r.keep = {} /\ r.tried = {} /\ r.empty = {} /\ r.tier = "preferred"
        /\ r.first = "none"
    BY NoRunFacts
  <1>4. r.assessed = FALSE
    BY NoRunFacts
  <1>5. run' = [r EXCEPT !.pc = "cache"]
    BY <1>1
  <1> HIDE DEF r
  <1>6. /\ run' \in RunType /\ run'.pc = "cache" /\ run'.turn = {} /\ run'.todo = {} /\ run'.cand = None
        /\ run'.members = {} /\ run'.ready = {} /\ run'.prepared = {} /\ run'.keep = {} /\ run'.tried = {}
        /\ run'.empty = {} /\ run'.tier = "preferred" /\ run'.first = "none"
    BY <1>3, <1>5 DEF RunType
  <1>7. run'.assessed = FALSE
    BY <1>3, <1>4, <1>5 DEF RunType
  <1>8. InHand' /\ NotOwners' /\ EmptySound'
    BY <1>6 DEF InHand, NotOwners, EmptySound
  <1>9. TierOpen' /\ BetterInv'
    BY <1>1, <1>2, <1>6 DEF TierOpen, BetterInv, ActiveInstallation, Satisfied
  <1>10. PackJudged' /\ TriedJudged' /\ CandTried' /\ ExactCovers' /\ BroadCovers'
    BY <1>6, OfferAssumption DEF PackJudged, TriedJudged, CandTried, ExactCovers, BroadCovers
  <1>11. TiersSettled'
    BY <1>6, <1>7 DEF TiersSettled, FirstClean
  <1> QED  BY <1>2, <1>6, <1>8, <1>9, <1>10, <1>11 DEF AcquisitionInv, RunInv

\* What a search has in hand when it is about to look somewhere.
LEMMA LookingFacts ==
    ASSUME AcquisitionInv, run.pc \in {"cache", "exact", "broad"}
    PROVE  /\ run \in RunType /\ run.turn = {} /\ run.todo = {} /\ run.cand = None /\ run.members = {}
           /\ run.ready = {} /\ run.prepared = {} /\ run.keep = {}
           /\ \A p \in run.empty, c \in Candidates : ProviderOf[c] # p
           /\ run.assessed => ActiveInstallation
  BY DEF AcquisitionInv, RunInv, InHand, EmptySound, TiersSettled

LEMMA LookInCacheInv ==
    ASSUME AcquisitionInv, LookInCache
    PROVE  AcquisitionInv'
  <1> DEFINE packs == {c \in cache : ProviderOf[c] \in TierProviders(run.tier)}
             usable == {c \in packs : Untried(c) # {}}
  <1>1. /\ run.pc = "cache" /\ rejected' = rejected \cup {<<c, 0>> : c \in packs \ usable}
        /\ UNCHANGED <<world, owner, strikes, installed, replacing, cache, resume>>
    BY DEF LookInCache
  <1>2. \/ run' = [run EXCEPT !.pc = "exact"]
        \/ \E c \in usable : ~Allowed(c) /\ run' = [run EXCEPT !.pc = "exact", !.assessed = SameCandidate(c)]
        \/ \E c \in usable : \E members \in Selections(c) :
             /\ Allowed(c)
             /\ run' = Preparing([run EXCEPT !.pc = "work", !.stage = "cache", !.turn = {c}], c, members)
    BY DEF LookInCache
  <1>3. /\ run \in RunType /\ run.turn = {} /\ run.todo = {} /\ run.cand = None /\ run.members = {}
        /\ run.ready = {} /\ run.prepared = {} /\ run.keep = {}
        /\ \A p \in run.empty, c \in Candidates : ProviderOf[c] # p
        /\ run.assessed => ActiveInstallation
    BY <1>1, LookingFacts
  <1>4. \A c \in packs : c \in Candidates /\ IsPack(c)
    BY DEF AcquisitionInv, StoreInv, StoredOK
  <1>5. \A c \in packs \ usable : Unfit(c)
    <2>1. SUFFICES ASSUME NEW c \in packs \ usable, NEW v \in Versions(c)
                   PROVE  ~Acceptable(v)
      BY DEF Unfit
    <2>2. v \in rejected /\ v \in AllVersions
      BY <1>4, CandidateFacts DEF Untried
    <2> QED  BY <2>2, RejectedUnfit DEF AcquisitionInv
  <1> HIDE DEF packs
  <1>6. \A c \in usable : c \in Candidates /\ IsPack(c)
    BY <1>4
  <1> HIDE DEF usable
  <1>7. StoreInv' /\ rejected \subseteq rejected' /\ UNCHANGED <<verdict, owner, installed, replacing>>
    BY <1>1, <1>4, <1>5, MoreRejected DEF AcquisitionInv, StoreInv, StoredOK, world
  <1>8. ASSUME NEW assessed \in BOOLEAN, assessed => ActiveInstallation,
               run' = [run EXCEPT !.pc = "exact", !.assessed = assessed]
        PROVE  AcquisitionInv'
    <2>1. /\ run' \in RunType /\ run'.pc = "exact" /\ run'.prepared = {} /\ run'.keep = {}
          /\ run'.turn = {} /\ run'.todo = {} /\ run'.cand = None /\ run'.members = {} /\ run'.ready = {}
          /\ run'.tier = run.tier /\ run'.first = run.first /\ run'.answers = run.answers
          /\ run'.tried = run.tried /\ run'.failures = run.failures /\ run'.empty = run.empty
          /\ run'.missed = run.missed
      BY <1>3, <1>8 DEF RunType
    <2>2. run'.assessed => ActiveInstallation
      BY <1>3, <1>8 DEF RunType
    <2>3. FirstClean' => FirstClean
      BY <1>7, <2>1 DEF FirstClean
    <2> QED  BY <1>1, <1>3, <1>7, <2>1, <2>2, <2>3, StageInv
  <1>9. ASSUME NEW c \in usable, NEW members \in Selections(c), Allowed(c),
               run' = Preparing([run EXCEPT !.pc = "work", !.stage = "cache", !.turn = {c}], c, members)
        PROVE  AcquisitionInv'
    <2>0. PICK r : r = [run EXCEPT !.pc = "work", !.stage = "cache", !.turn = {c}]
      OBVIOUS
    <2>1. c \in Candidates /\ IsPack(c) /\ c # None
      BY <1>6, OfferAssumption
    <2>2. /\ r \in RunType /\ r.pc = "work" /\ r.stage = "cache" /\ r.turn = {c} /\ r.todo = {} /\ r.tier = run.tier
          /\ r.ready = {} /\ r.prepared = {} /\ r.keep = {} /\ r.answers = run.answers /\ r.first = run.first
          /\ r.empty = run.empty /\ r.assessed = run.assessed /\ r.tried = run.tried /\ r.failures = run.failures
          /\ r.missed = run.missed
      BY <1>3, <2>0, <2>1 DEF RunType
    <2>3. run' = Preparing(r, c, members)
      BY <1>9, <2>0
    <2>4. /\ run' \in RunType /\ run'.cand = c /\ run'.members = members
          /\ run'.keep = IF UntriedLeft(c) THEN {c} ELSE {}
          /\ run'.pc = "work" /\ run'.stage = "cache" /\ run'.tier = run.tier
          /\ run'.todo = {} /\ run'.turn = {c} /\ run'.answers = run.answers /\ run'.first = run.first
          /\ run'.empty = run.empty /\ run'.assessed = run.assessed /\ run'.ready = {}
          /\ run'.prepared = {} /\ run'.tried = run.tried /\ run'.failures = run.failures /\ run'.missed = run.missed
      <3>0. r \in RunType /\ c \in Candidates /\ members \in Selections(c)
        BY <2>1, <2>2
      <3>1. /\ run' \in RunType /\ run'.cand = c /\ run'.members = members
            /\ run'.keep = IF UntriedLeft(c) THEN r.keep \cup {c} ELSE r.keep
            /\ run'.pc = r.pc /\ run'.stage = r.stage /\ run'.tier = r.tier
            /\ run'.todo = r.todo /\ run'.turn = r.turn /\ run'.answers = r.answers /\ run'.first = r.first
            /\ run'.empty = r.empty /\ run'.assessed = r.assessed /\ run'.ready = r.ready
            /\ run'.prepared = r.prepared /\ run'.tried = r.tried /\ run'.failures = r.failures /\ run'.missed = r.missed
        BY <2>3, <3>0, PreparingFacts
      <3> QED  BY <2>2, <3>1
    <2>5. /\ members \subseteq Versions(c)
          /\ c \notin run'.keep => Versions(c) \ members \subseteq rejected
          /\ VersionCount[c] <= MaxVersions => members = Versions(c)
      BY <2>1, <2>4, SelectionFacts
    <2>6. InHand' /\ NotOwners' /\ EmptySound'
      BY <1>3, <2>1, <2>4, <2>5 DEF InHand, NotOwners, EmptySound
    <2>7. TierOpen'
      BY <1>1, <1>7, <2>4 DEF AcquisitionInv, RunInv, TierOpen, ActiveInstallation
    <2>8. BetterInv'
      BY <1>7, <1>9, <2>1, <2>4, UpgradeBetter DEF AcquisitionInv, BetterInv, ActiveInstallation
    <2>9. PackJudged' /\ CandTried' /\ ExactCovers' /\ BroadCovers'
      BY <1>7, <2>4, <2>5 DEF PackJudged, CandTried, ExactCovers, BroadCovers
    <2>10. TriedJudged'
      BY <1>3, <1>7, <2>4 DEF AcquisitionInv, RunInv, TriedJudged
    <2>11. (FirstClean' => FirstClean) /\ (ActiveInstallation' <=> ActiveInstallation)
      BY <1>7, <2>4 DEF FirstClean, ActiveInstallation
    <2>12. TiersSettled'
      BY <1>7, <2>4, <2>11, ReachGrows DEF AcquisitionInv, RunInv, TiersSettled
    <2> QED  BY <1>7, <2>4, <2>6, <2>7, <2>8, <2>9, <2>10, <2>12 DEF AcquisitionInv, RunInv
  <1>10. CASE run' = [run EXCEPT !.pc = "exact"]
    <2>1. run.assessed \in BOOLEAN /\ run' = [run EXCEPT !.pc = "exact", !.assessed = run.assessed]
      BY <1>3, <1>10 DEF RunType
    <2> QED  BY <1>3, <1>8, <2>1
  <1>11. ASSUME NEW c, run' = [run EXCEPT !.pc = "exact", !.assessed = SameCandidate(c)]
         PROVE  AcquisitionInv'
    <2>1. PICK b \in BOOLEAN : b = SameCandidate(c)
      BY DEF SameCandidate
    <2>2. b => ActiveInstallation
      BY <2>1 DEF SameCandidate
    <2> QED  BY <1>8, <1>11, <2>1, <2>2
  <1> QED  BY <1>2, <1>9, <1>10, <1>11

LEMMA AskedFacts ==
    ASSUME AcquisitionInv, NEW a \in Outcomes
    PROVE  /\ a \in [Asked -> {"ok", "error", "paused", "disabled"}]
           /\ Asked \subseteq TierProviders(run.tier) /\ Asked \subseteq Providers
           /\ Offered(a) \subseteq Offers(run.tier)
           /\ \A c \in Offered(a) : ProviderOf[c] \in Asked /\ a[ProviderOf[c]] = "ok"
           /\ ~ActiveInstallation => \A c \in Offers(run.tier) : ProviderOf[c] \in Asked
  <1>1. a \in [Asked -> {"ok", "error", "paused", "disabled"}]
    BY DEF Outcomes
  <1>2. Asked \subseteq TierProviders(run.tier) /\ Asked \subseteq Providers
    BY DEF Asked, TierProviders, Providers
  <1>3. \A c \in Offered(a) : ProviderOf[c] \in Asked /\ a[ProviderOf[c]] = "ok"
    BY <1>1 DEF Offered
  <1>4. Offered(a) \subseteq Offers(run.tier)
    BY <1>2, <1>3 DEF Offers, Offered
  <1>5. ~ActiveInstallation => \A c \in Offers(run.tier) : ProviderOf[c] \in Asked
    BY DEF AcquisitionInv, StoreInv, ResumeSound, Asked, Offers
  <1> QED  BY <1>1, <1>2, <1>3, <1>4, <1>5

LEMMA SearchExactInv ==
    ASSUME AcquisitionInv, NEW a \in Outcomes, SearchExact(a)
    PROVE  AcquisitionInv'
  <1> DEFINE found == Offered(a) \cap Exact
             missed == run.missed \cup {p \in Asked : a[p] # "ok"}
             saw == found # {}
             todo == {c \in found : ~CandidateRejected(c)}
  <1>1. PICK searched : searched = [run EXCEPT !.stage = "exact", !.sawExact = saw, !.missed = missed]
    OBVIOUS
  <1>2. run.pc = "exact" /\ UNCHANGED world
    BY DEF SearchExact
  <1>3. \/ Aborts
        \/ /\ run' \in IF \E c \in found : SameCandidate(c)
                         THEN {[searched EXCEPT !.pc = "done", !.outcome = "satisfied"]}
                       ELSE IF todo = {} THEN {[searched EXCEPT !.pc = "broad"]}
                       ELSE NextTurn(searched, todo)
           /\ UNCHANGED stored
    BY <1>1 DEF SearchExact
  <1>4. CASE Aborts
    BY <1>2, <1>4, AbortsInv DEF world
  <1>5. CASE UNCHANGED stored /\ ~Aborts
    <2>1. StoreInv' /\ UNCHANGED <<verdict, rejected, owner, installed, replacing>>
      BY <1>2, <1>5, StoredUnchanged DEF AcquisitionInv, world, stored
    <2>2. /\ run \in RunType /\ run.turn = {} /\ run.todo = {} /\ run.cand = None /\ run.members = {}
          /\ run.ready = {} /\ run.prepared = {} /\ run.keep = {}
          /\ \A p \in run.empty, c \in Candidates : ProviderOf[c] # p
          /\ run.assessed => ActiveInstallation
      BY <1>2, LookingFacts
    <2>3. found \subseteq Offers(run.tier) /\ found \subseteq Exact /\ todo \subseteq found /\ todo \subseteq Candidates
      BY AskedFacts, OfferAssumption
    <2>4. \A c \in todo : ~CandidateRejected(c)
      OBVIOUS
    <2>5. saw \in BOOLEAN /\ missed \in SUBSET Providers /\ run.missed \subseteq missed
      BY <2>2, AskedFacts DEF RunType
    <2>10. ASSUME replacing, NEW c \in Exact \cap Offers(run.tier)
           PROVE  ProviderOf[c] \in missed \/ CandidateRejected(c) \/ c \in todo
      <3>1. ProviderOf[c] \in Asked /\ c \in Candidates /\ DOMAIN a = Asked
        BY <2>10, AskedFacts DEF ActiveInstallation, Offers
      <3>2. a[ProviderOf[c]] = "ok" => c \in found
        BY <2>10, <3>1 DEF Offered
      <3> QED  BY <3>1, <3>2
    <2> HIDE DEF saw, missed
    <2>6. /\ searched \in RunType /\ searched.stage = "exact" /\ searched.pc = "exact"
          /\ searched.turn = {} /\ searched.todo = {} /\ searched.cand = None /\ searched.members = {}
          /\ searched.ready = {} /\ searched.prepared = {} /\ searched.keep = {} /\ searched.empty = run.empty
          /\ searched.assessed = run.assessed /\ searched.tier = run.tier /\ searched.first = run.first
          /\ searched.tried = run.tried /\ searched.failures = run.failures /\ searched.answers = run.answers
          /\ searched.missed = missed
      BY <1>1, <1>2, <2>2, <2>5 DEF RunType
    <2> HIDE DEF found, todo
    <2>7. ASSUME run' = [searched EXCEPT !.pc = "done", !.outcome = "satisfied"]
          PROVE  AcquisitionInv'
      <3>1. /\ run' \in RunType /\ run'.pc = "done" /\ run'.outcome = "satisfied"
            /\ run'.prepared = {} /\ run'.keep = {}
            /\ run'.turn = {} /\ run'.todo = {} /\ run'.cand = None /\ run'.members = {} /\ run'.ready = {}
            /\ run'.tier = run.tier /\ run'.first = run.first /\ run'.answers = run.answers
            /\ run'.tried = run.tried /\ run'.failures = run.failures /\ run'.empty = run.empty
            /\ run'.assessed = run.assessed /\ run'.missed = missed
        BY <2>6, <2>7 DEF RunType, Endings
      <3>2. FirstClean' => FirstClean
        BY <2>1, <3>1 DEF FirstClean
      <3> QED  BY <1>2, <2>1, <2>2, <2>5, <3>1, <3>2, StageInv DEF Endings
    <2>8. ASSUME todo = {}, run' = [searched EXCEPT !.pc = "broad"]
          PROVE  AcquisitionInv'
      <3>1. /\ run' \in RunType /\ run'.pc = "broad"
            /\ run'.prepared = {} /\ run'.keep = {}
            /\ run'.turn = {} /\ run'.todo = {} /\ run'.cand = None /\ run'.members = {} /\ run'.ready = {}
            /\ run'.tier = run.tier /\ run'.first = run.first /\ run'.answers = run.answers
            /\ run'.tried = run.tried /\ run'.failures = run.failures /\ run'.empty = run.empty
            /\ run'.assessed = run.assessed /\ run'.missed = missed
        BY <2>6, <2>8 DEF RunType
      <3>2. FirstClean' => FirstClean
        BY <2>1, <3>1 DEF FirstClean
      <3>3. NoFailure' => \A c \in Exact \cap Offers(run.tier) : ProviderOf[c] \in missed \/ CandidateRejected(c)
        BY <2>1, <2>8, <2>10 DEF NoFailure
      <3> QED  BY <1>2, <2>1, <2>2, <2>5, <3>1, <3>2, <3>3, StageInv
    <2>9. ASSUME run' \in NextTurn(searched, todo)
          PROVE  AcquisitionInv'
      <3>1. run'.tier = run.tier /\ run'.first = run.first /\ run'.answers = run.answers
        BY <2>3, <2>6, <2>9, NextTurnFacts
      <3>2. FirstClean' => FirstClean
        BY <2>1, <3>1 DEF FirstClean
      <3>3. \A c \in todo : ~IsPack(c) => <<c, 1>> \notin owner
        BY <2>4 DEF CandidateRejected, AcquisitionInv, StoreInv, StoredOK
      <3>4. ActiveInstallation => \A c \in todo : Better(c, installed[1])
        BY <1>2, <2>3, ExactBetter
      <3>5. NoFailure' =>
              \A c \in Exact \cap Offers(run.tier) : ProviderOf[c] \in missed \/ CandidateRejected(c) \/ c \in todo
        BY <2>1, <2>10 DEF NoFailure
      <3> QED  BY <1>2, <2>1, <2>2, <2>3, <2>5, <2>6, <2>9, <3>2, <3>3, <3>4, <3>5, TurnInv
    <2> QED  BY <1>3, <1>5, <2>7, <2>8, <2>9
  <1> QED  BY <1>3, <1>4, <1>5

\* Whom the tournament leaves out, MaxTried others or an exact one are tried
\* instead of.
LEMMA TournamentFacts ==
    ASSUME NEW t \in {"preferred", "fallback"}, NEW cs, cs \subseteq Offers(t), NEW best \in Tournament(cs)
    PROVE  /\ best \subseteq cs /\ \A x \in Exact \cap best : best \subseteq {x}
           /\ \A c \in cs : c \in best \/ OutOfReach(c) \/ \E x \in Exact : x \in best
  <1>0. cs \subseteq Candidates /\ IsFiniteSet(cs)
    BY OfferAssumption, FS_Subset DEF Offers
  <1>1. CASE cs \cap Exact # {}
    <2>1. PICK x \in cs \cap Exact : best = {x}
      BY <1>1 DEF Tournament
    <2> QED  BY <2>1
  <1>2. CASE cs \cap Exact = {}
    <2>1. /\ best \subseteq cs
          /\ Cardinality(best) = IF Cardinality(cs) < MaxTried THEN Cardinality(cs) ELSE MaxTried
          /\ \A c \in best, d \in cs \ best : ScoreOf[c] >= ScoreOf[d]
      BY <1>2 DEF Tournament
    <2>2. ASSUME NEW c \in cs \ best
          PROVE  OutOfReach(c)
      <3> DEFINE T == TierProviders(t)
                 others == {d \in Candidates \ (Exact \cup {c}) : ProviderOf[d] \in T /\ ScoreOf[d] >= ScoreOf[c]}
      <3>1. T \in {Preferred, Fallback} /\ ProviderOf[c] \in T
        BY <2>2 DEF TierProviders, Offers
      <3>2. best \subseteq others
        BY <1>0, <1>2, <2>1, <2>2 DEF Offers
      <3>3. IsFiniteSet(others)
        BY OfferAssumption, FS_Subset
      <3>4. Cardinality(best) = MaxTried
        <4>1. best # cs
          BY <2>2
        <4>2. Cardinality(best) # Cardinality(cs)
          BY <1>0, <2>1, <4>1, FS_Subset
        <4> QED  BY <2>1, <4>2
      <3>5. MaxTried <= Cardinality(others)
        BY <3>2, <3>3, <3>4, FS_Subset
      <3> HIDE DEF T
      <3> QED  BY <3>1, <3>5 DEF OutOfReach
    <2> QED  BY <1>2, <2>1, <2>2
  <1> QED  BY <1>1, <1>2

LEMMA NothingToTryFacts ==
    ASSUME run \in RunType, NEW a, NEW found
    PROVE  /\ NothingToTry(a, found) \in Endings
           /\ run.failures # {} /\ NothingToTry(a, found) # "satisfied"
                => NothingToTry(a, found) \in {"failed", "throttled"}
  <1> DEFINE o == IF found # {} \/ run.sawExact THEN "rejected" ELSE "no_result"
  <1>1. o \in Endings
    BY DEF Endings
  <1> HIDE DEF o
  <1>2. Classified(o) \in Endings /\ (run.failures # {} => Classified(o) \in {"failed", "throttled"})
    BY <1>1, ClassifiedFacts
  <1>3. NothingToTry(a, found) \in {"satisfied", "throttled", "failed", Classified(o)}
    BY DEF NothingToTry, o
  <1> QED  BY <1>2, <1>3 DEF Endings

LEMMA CleanEmptySound ==
    ASSUME AcquisitionInv, NEW a \in Outcomes, NEW found \in {Offered(a), Offered(a) \ Exact},
           NEW p \in CleanEmpty(a, found), NEW c \in Candidates
    PROVE  ProviderOf[c] # p
  <1>1. p \in Asked /\ a[p] = "ok" /\ (\A d \in found : ProviderOf[d] # p) /\ \A d \in Exact : ProviderOf[d] # p
    BY DEF CleanEmpty
  <1>2. DOMAIN a = Asked
    BY AskedFacts
  <1>3. ProviderOf[c] = p => c \in Offered(a)
    BY <1>1, <1>2 DEF Offered
  <1> QED  BY <1>1, <1>3

LEMMA SearchBroadInv ==
    ASSUME AcquisitionInv, NEW a \in Outcomes, NEW found \in {Offered(a), Offered(a) \ Exact}, SearchBroad(a, found)
    PROVE  AcquisitionInv'
  <1> DEFINE answers == [p \in Providers |-> IF p \in Asked THEN a[p] ELSE run.answers[p]]
             empty == run.empty \cup CleanEmpty(a, found)
             outcome == NothingToTry(a, found)
  <1>1. PICK searched : searched = [run EXCEPT !.stage = "broad", !.empty = empty, !.answers = answers]
    OBVIOUS
  <1>2. run.pc = "broad" /\ UNCHANGED world
    BY DEF SearchBroad
  <1>3. \/ Aborts
        \/ /\ run' \in IF Eligible(found) = {}
                         THEN {[searched EXCEPT !.pc = "done", !.outcome = outcome]}
                       ELSE UNION {NextTurn(searched, cs) : cs \in Tournament(Eligible(found))}
           /\ UNCHANGED stored
    BY <1>1 DEF SearchBroad
  <1>4. CASE Aborts
    BY <1>2, <1>4, AbortsInv DEF world
  <1>5. CASE UNCHANGED stored /\ ~Aborts
    <2>1. StoreInv' /\ UNCHANGED <<verdict, rejected, owner, installed, replacing>>
      BY <1>2, <1>5, StoredUnchanged DEF AcquisitionInv, world, stored
    <2>2. /\ run \in RunType /\ run.turn = {} /\ run.todo = {} /\ run.cand = None /\ run.members = {}
          /\ run.ready = {} /\ run.prepared = {} /\ run.keep = {}
          /\ \A p \in run.empty, c \in Candidates : ProviderOf[c] # p
          /\ run.assessed => ActiveInstallation
      BY <1>2, LookingFacts
    <2>3. /\ a \in [Asked -> {"ok", "error", "paused", "disabled"}]
          /\ Asked \subseteq TierProviders(run.tier) /\ Asked \subseteq Providers
          /\ Offered(a) \subseteq Offers(run.tier)
          /\ ~ActiveInstallation => \A c \in Offers(run.tier) : ProviderOf[c] \in Asked
      BY AskedFacts
    <2>4. Eligible(found) \subseteq found /\ found \subseteq Offers(run.tier) /\ found \subseteq Candidates
      BY <2>3 DEF Eligible, Offers
    <2>5. answers \in [Providers -> {"ok", "error", "paused", "disabled"}]
      BY <2>2, <2>3 DEF RunType
    <2>6. empty \in SUBSET Providers /\ \A p \in empty, c \in Candidates : ProviderOf[c] # p
      BY <2>2, <2>3, CleanEmptySound DEF CleanEmpty, RunType
    <2>7. /\ outcome \in Endings
          /\ run.failures # {} /\ outcome # "satisfied" => outcome \in {"failed", "throttled"}
      BY <2>2, NothingToTryFacts
    <2>0. NoFailure => \A c \in Exact \cap Offers(run.tier) : ProviderOf[c] \in run.missed \/ CandidateRejected(c)
      BY <1>2, <2>2 DEF AcquisitionInv, RunInv, ExactCovers
    <2>8. ASSUME NoFailure, \A p \in TierProviders(run.tier) : answers[p] = "ok", NEW c \in Offers(run.tier)
          PROVE  OutOfReach(c) \/ Unfit(c) \/ c \in Eligible(found)
      <3>1. ~ActiveInstallation /\ ProviderOf[c] \in Asked /\ c \in Candidates
        BY <2>3, <2>8 DEF ActiveInstallation, NoFailure, Offers
      <3>2. a[ProviderOf[c]] = "ok"
        BY <2>3, <2>8, <3>1
      <3>3. c \in Offered(a)
        BY <2>3, <3>1, <3>2 DEF Offered
      <3>4. CASE c \in Exact
        BY <2>0, <2>8, <3>1, <3>4, CandidateRejectedUnfit DEF AcquisitionInv, OutOfReach
      <3>5. CASE c \notin Exact
        <4>1. c \in found /\ Allowed(c)
          BY <3>1, <3>3, <3>5 DEF Allowed
        <4> QED  BY <3>1, <4>1, CandidateRejectedUnfit DEF AcquisitionInv, Eligible
      <3> QED  BY <3>4, <3>5
    <2>9. run.tier = "fallback" => \A p \in Preferred : answers[p] = run.answers[p]
      BY <2>3, OfferAssumption DEF TierProviders, Providers
    <2> HIDE DEF answers, empty, outcome
    <2>10. /\ searched \in RunType /\ searched.stage = "broad" /\ searched.pc = "broad"
           /\ searched.turn = {} /\ searched.todo = {} /\ searched.cand = None /\ searched.members = {}
           /\ searched.ready = {} /\ searched.prepared = {} /\ searched.keep = {} /\ searched.empty = empty
           /\ searched.assessed = run.assessed /\ searched.tier = run.tier /\ searched.first = run.first
           /\ searched.tried = run.tried /\ searched.failures = run.failures /\ searched.answers = answers
           /\ searched.missed = run.missed
      BY <1>1, <1>2, <2>2, <2>5, <2>6 DEF RunType
    <2>11. ASSUME run'.tier = run.tier, run'.first = run.first, run'.answers = answers, run'.failures = run.failures
           PROVE  /\ (FirstClean' => FirstClean) /\ (NoFailure' => NoFailure)
                  /\ Clean' => \A c \in Offers(run.tier) : OutOfReach(c) \/ Unfit(c) \/ c \in Eligible(found)
      <3>1. (FirstClean' => FirstClean) /\ (NoFailure' => NoFailure)
        BY <2>1, <2>9, <2>11 DEF FirstClean, NoFailure
      <3>2. Clean' => NoFailure /\ \A p \in TierProviders(run.tier) : answers[p] = "ok"
        BY <2>11, <3>1 DEF Clean, TierProviders
      <3> QED  BY <2>8, <3>1, <3>2
    <2>12. ASSUME Eligible(found) = {}, run' = [searched EXCEPT !.pc = "done", !.outcome = outcome]
           PROVE  AcquisitionInv'
      <3>1. /\ run' \in RunType /\ run'.pc = "done" /\ run'.outcome = outcome
            /\ run'.prepared = {} /\ run'.keep = {}
            /\ run'.turn = {} /\ run'.todo = {} /\ run'.cand = None /\ run'.members = {} /\ run'.ready = {}
            /\ run'.tier = run.tier /\ run'.first = run.first /\ run'.answers = answers
            /\ run'.tried = run.tried /\ run'.failures = run.failures /\ run'.empty = empty
            /\ run'.assessed = run.assessed /\ run'.missed = run.missed
        BY <2>7, <2>10, <2>12 DEF RunType
      <3>2. (FirstClean' => FirstClean) /\ (Clean' => Settled(run.tier))
        BY <2>11, <2>12, <3>1 DEF Settled
      <3> QED  BY <1>2, <2>1, <2>2, <2>6, <2>7, <3>1, <3>2, StageInv
    <2>13. ASSUME NEW cs \in Tournament(Eligible(found)), run' \in NextTurn(searched, cs)
           PROVE  AcquisitionInv'
      <3>0. run.tier \in {"preferred", "fallback"} /\ Eligible(found) \subseteq Offers(run.tier)
        BY <2>2, <2>4 DEF RunType
      <3>1. /\ cs \subseteq Eligible(found) /\ \A x \in Exact \cap cs : cs \subseteq {x}
            /\ \A c \in Eligible(found) : c \in cs \/ OutOfReach(c) \/ \E x \in Exact : x \in cs
        BY <3>0, TournamentFacts
      <3>2. cs \subseteq Candidates /\ cs \subseteq Offers(run.tier)
        BY <2>4, <3>1
      <3>3. /\ run'.tier = run.tier /\ run'.first = run.first /\ run'.answers = answers
            /\ run'.failures = run.failures
        BY <2>10, <2>13, <3>2, NextTurnFacts
      <3>7. \A x \in Exact \cap cs : cs \subseteq {x} /\ (NoFailure' => ProviderOf[x] \in run.missed)
        BY <2>0, <2>11, <3>1, <3>2, <3>3 DEF Eligible
      <3>4. /\ FirstClean' => FirstClean
            /\ Clean' => \A c \in Offers(run.tier) : OutOfReach(c) \/ Unfit(c) \/ c \in cs \/ \E x \in Exact : x \in cs
        BY <2>11, <3>1, <3>3
      <3>5. \A c \in cs : ~IsPack(c) => <<c, 1>> \notin owner
        BY <3>1 DEF Eligible, CandidateRejected, AcquisitionInv, StoreInv, StoredOK
      <3>6. ActiveInstallation => \A c \in cs : Better(c, installed[1])
        BY <3>1, <3>2, UpgradeBetter DEF Eligible, AcquisitionInv
      <3> QED  BY <1>2, <2>1, <2>2, <2>6, <2>10, <2>13, <3>2, <3>4, <3>5, <3>6, <3>7, TurnInv
    <2> QED  BY <1>3, <1>5, <2>12, <2>13
  <1> QED  BY <1>3, <1>4, <1>5

-----------------------------------------------------------------------------
(* The end of a tier.                                                       *)

LEMMA SecondTierInv ==
    ASSUME AcquisitionInv, EndTier, SecondTier(run.outcome)
    PROVE  AcquisitionInv'
  <1>1. /\ run' = [NoRun EXCEPT !.pc = "cache", !.tier = "fallback", !.first = run.outcome,
                                !.answers = run.answers, !.missed = run.missed, !.empty = run.empty,
                                !.tried = run.tried, !.timeout = run.timeout]
        /\ run.pc = "done" /\ UNCHANGED <<world, stored>>
    BY DEF EndTier, stored
  <1>2. StoreInv' /\ UNCHANGED <<verdict, rejected, owner, installed, replacing>>
    BY <1>1, StoredUnchanged DEF AcquisitionInv, world, stored
  <1>3. /\ run \in RunType /\ run.ready = {} /\ run.outcome \in Endings /\ run.first = "none"
        /\ run.tier = "preferred" /\ run.outcome # "satisfied"
        /\ run.failures # {} => run.outcome \in {"failed", "throttled"}
        /\ run.outcome \in {"no_result", "rejected"} /\ Clean => Settled("preferred")
    BY <1>1 DEF AcquisitionInv, RunInv, InHand, TiersSettled, SecondTier
  <1>4. PICK r : r = NoRun
    OBVIOUS
  <1>5. /\ r \in RunType /\ r.turn = {} /\ r.todo = {} /\ r.cand = None /\ r.members = {} /\ r.ready = {}
        /\ r.prepared = {} /\ r.keep = {}
    BY <1>4, NoRunFacts
  <1>6. r.assessed = FALSE
    BY <1>4, NoRunFacts
  <1>7. run' = [r EXCEPT !.pc = "cache", !.tier = "fallback", !.first = run.outcome, !.answers = run.answers,
                         !.missed = run.missed, !.empty = run.empty, !.tried = run.tried, !.timeout = run.timeout]
    BY <1>1, <1>4
  <1>8. run' \in RunType
    <2>1. /\ run.answers \in [Providers -> {"ok", "error", "paused", "disabled"}] /\ run.empty \in SUBSET Providers
          /\ run.tried \in SUBSET AllVersions /\ run.timeout \in BOOLEAN /\ run.outcome \in Endings \cup {"none"}
          /\ run.missed \in SUBSET Providers
      BY <1>3 DEF RunType
    <2> QED  BY <1>5, <1>7, <2>1 DEF RunType
  <1>9. /\ run'.pc = "cache" /\ run'.turn = {} /\ run'.todo = {} /\ run'.cand = None /\ run'.members = {}
        /\ run'.ready = {} /\ run'.prepared = {} /\ run'.keep = {} /\ run'.tier = "fallback"
        /\ run'.first = run.outcome /\ run'.answers = run.answers /\ run'.empty = run.empty /\ run'.tried = run.tried
        /\ run'.missed = run.missed
    BY <1>5, <1>7 DEF RunType
  <1>10. run'.assessed = FALSE
    BY <1>5, <1>6, <1>7 DEF RunType
  <1>11. InHand' /\ NotOwners' /\ EmptySound'
    BY <1>9 DEF AcquisitionInv, RunInv, InHand, NotOwners, EmptySound
  <1>12. TierOpen' /\ BetterInv'
    BY <1>2, <1>9 DEF SecondTier, TierOpen, BetterInv, ActiveInstallation
  <1>13. PackJudged' /\ CandTried' /\ ExactCovers' /\ BroadCovers'
    BY <1>9, OfferAssumption DEF PackJudged, CandTried, ExactCovers, BroadCovers
  <1>14. TriedJudged'
    BY <1>2, <1>3, <1>9 DEF AcquisitionInv, RunInv, TriedJudged
  <1>15. TiersSettled'
    <2>1. ASSUME FirstClean'
          PROVE  Settled("preferred")
      <3>1. /\ run.outcome \in {"no_result", "rejected"} /\ run.failures = {} /\ replacing
            /\ \A p \in Preferred : run.answers[p] = "ok"
        BY <1>2, <1>3, <1>9, <2>1 DEF FirstClean, Endings
      <3>2. Clean
        BY <1>3, <3>1 DEF Clean, NoFailure, TierProviders
      <3> QED  BY <1>3, <3>1, <3>2
    <2> QED  BY <1>2, <1>9, <1>10, <2>1, ReachGrows DEF TiersSettled
  <1> QED  BY <1>2, <1>8, <1>11, <1>12, <1>13, <1>14, <1>15 DEF AcquisitionInv, RunInv

LEMMA EndTierInv ==
    ASSUME AcquisitionInv, EndTier
    PROVE  AcquisitionInv'
  <1>1. CASE ~SecondTier(run.outcome)
    <2> DEFINE outcome == Merged(run.outcome)
               removed == replacing /\ outcome \in {"no_result", "rejected"} /\ ProviderFailures = {}
    <2>1. UNCHANGED <<world, rejected, owner, strikes, cache>> /\ Finish(outcome)
      BY <1>1 DEF EndTier
    <2> HIDE DEF outcome
    <2>2. PICK how : run' = NoRun /\ resume' = Resumed(how)
      BY <2>1 DEF Finish, Ends
    <2>3. resume' \subseteq Providers /\ \A p \in resume', c \in Candidates : ProviderOf[c] # p
      BY <2>2, ResumedSound
    <2>4. CASE removed
      <3>1. installed' = None /\ replacing' = FALSE
        BY <2>1, <2>4 DEF Finish
      <3>2. StoredOK'
        <4>1. replacing' \in BOOLEAN
          BY <3>1
        <4> QED  BY <2>1, <2>3, <3>1, <4>1 DEF AcquisitionInv, StoreInv, StoredOK, world
      <3>3. OnlyUnfitRejected' /\ RejectedStaysAway' /\ ResumeSound' /\ InstalledFits'
        BY <2>1, <2>3, <3>1 DEF AcquisitionInv, StoreInv, OnlyUnfitRejected, Acceptable, RejectedStaysAway,
          ResumeSound, InstalledFits, world
      <3> QED  BY <2>2, <3>2, <3>3, NoRunInv DEF AcquisitionInv, StoreInv
    <2>5. CASE ~removed
      <3>1. UNCHANGED <<installed, replacing>>
        BY <2>1, <2>5 DEF Finish
      <3>2. StoreInv'
        BY <2>1, <2>3, <3>1, SameStored DEF AcquisitionInv, StoreInv, StoredOK, world
      <3> QED  BY <2>2, <3>2, NoRunInv DEF AcquisitionInv
    <2> QED  BY <2>4, <2>5
  <1> QED  BY <1>1, SecondTierInv

LEMMA SearchInv ==
    ASSUME AcquisitionInv, Search
    PROVE  AcquisitionInv'
  BY BeginInv, LookInCacheInv, SearchExactInv, SearchBroadInv, EndTierInv DEF Search

LEMMA AcquisitionKept == AcquisitionInv /\ [Next]_vars => AcquisitionInv'
  <1> SUFFICES ASSUME AcquisitionInv, [Next]_vars PROVE AcquisitionInv'
    OBVIOUS
  <1>1. CASE UNCHANGED vars
    BY <1>1, StoredUnchanged, RunUnchanged DEF vars, stored, AcquisitionInv
  <1> QED  BY <1>1, WorldInv, SearchInv, CandidateInv, VersionInv, SettleInv DEF Next

LEMMA AcquisitionAlways == Spec => []AcquisitionInv
  <1>1. Init => AcquisitionInv
    BY AcquisitionInit
  <1>2. AcquisitionInv /\ [Next]_vars => AcquisitionInv'
    BY AcquisitionKept
  <1> QED  BY <1>1, <1>2, PTL DEF Spec

-----------------------------------------------------------------------------
(* The theorems.                                                            *)

\* What later searches leave aside has nothing to offer: a rejected version or
\* pack holds nothing that fits, what the owner rejected does not come back,
\* and a retry skips only providers without an offer (recordCandidateRejection,
\* prepareMembers, rejectExhaustedVersions, findUnrejectedPack, provider_resume.go).
THEOREM SetAsideRight == Spec => []SetAsideRightly
  <1>1. AcquisitionInv => SetAsideRightly
    <2> SUFFICES ASSUME AcquisitionInv PROVE SetAsideRightly
      OBVIOUS
    <2>1. run.ready \subseteq run.prepared /\ run.members \subseteq AllVersions
      BY DEF AcquisitionInv, RunInv, InHand, RunType
    <2>2. TypeOK
      BY <2>1 DEF AcquisitionInv, StoreInv, StoredOK, TypeOK
    <2> QED  BY <2>2 DEF AcquisitionInv, StoreInv, SetAsideRightly
  <1> QED  BY <1>1, AcquisitionAlways, PTL

\* The steps that change what is installed: an install, and the removal of a
\* rejected subtitle.
LEMMA InstalledChanges ==
    ASSUME [Next]_vars, installed' # installed
    PROVE  \/ \E v \in run.ready : Install(v)
           \/ EndTier /\ ~SecondTier(run.outcome) /\ Finish(Merged(run.outcome)) /\ installed' = None
  <1>1. CASE UNCHANGED vars
    BY <1>1 DEF vars
  <1>2. CASE World
    BY <1>2 DEF World, ProviderResumes, ProviderPauses, MountDrops, MountReturns, OwnerRejects, Crash, stored
  <1>3. CASE Search
    <2>1. CASE EndTier
      BY <2>1 DEF EndTier, Finish
    <2>2. CASE Begin \/ LookInCache
      BY <2>2 DEF Begin, LookInCache, stored
    <2>3. ASSUME NEW a, SearchExact(a)
          PROVE  FALSE
      BY <2>3 DEF SearchExact, Aborts, stored
    <2>4. ASSUME NEW a, NEW found, SearchBroad(a, found)
          PROVE  FALSE
      BY <2>4 DEF SearchBroad, Aborts, stored
    <2> QED  BY <1>3, <2>1, <2>2, <2>3, <2>4 DEF Search
  <1>4. CASE Candidate
    BY <1>4 DEF Candidate, Download, DownloadUseless, DownloadUnavailable, DownloadFails, stored
  <1>5. CASE Version
    BY <1>5 DEF Version, SkipVersion, LapseFails, LapseExits, LapseRejects, LapseSolid, stored
  <1>6. CASE Settle
    BY <1>6 DEF Settle, EndCandidate, EndScoreTier, MountLost, InstallRefused, InstallFails, Aborts
  <1> QED  BY <1>1, <1>2, <1>3, <1>4, <1>5, <1>6 DEF Next

\* A subtitle that nobody rejected is replaced only by a better one, whether it
\* came from the pack cache, the exact or the broad search (shouldUpgrade).
THEOREM NeverDowngraded == Spec => NoDowngrade
  <1>1. ASSUME AcquisitionInv, [Next]_vars, installed # None, ~replacing, installed' \notin {installed, None}
        PROVE  Better(installed'[1], installed[1])
    <2>1. PICK v \in run.ready : installed' = v
      BY <1>1, InstalledChanges DEF Install
    <2> QED  BY <1>1, <2>1 DEF AcquisitionInv, RunInv, BetterInv, ActiveInstallation
  <1>2. AcquisitionInv /\ [Next]_vars =>
          [installed # None /\ ~replacing /\ installed' \notin {installed, None}
             => Better(installed'[1], installed[1])]_vars
    BY <1>1
  <1> QED  BY <1>2, AcquisitionAlways, PTL DEF Spec, NoDowngrade

\* A rejected subtitle is removed only when nothing acceptable was in the
\* search's reach, in the preferred tier or in the fallback one: every candidate
\* that a provider answered with was tried and judged, an exact match among
\* them, and only those of a provider that failed the exact search alone escape
\* it (replaceInstalled, runProviderTiers, acquire).
THEOREM RemovalsJustified == Spec => RemovalJustified
  <1>1. ASSUME AcquisitionInv, [Next]_vars, installed # None, installed' = None, NEW c \in Candidates
        PROVE  OutOfReach(c) \/ Unfit(c)
    <2> DEFINE outcome == Merged(run.outcome)
    <2>1. EndTier /\ ~SecondTier(run.outcome) /\ Finish(outcome)
      <3>1. \A v \in run.ready : v # None
        BY <1>1, VersionFacts DEF AcquisitionInv, RunInv, RunType
      <3> QED  BY <1>1, <3>1, InstalledChanges DEF Install
    <2>2. replacing /\ outcome \in {"no_result", "rejected"} /\ ProviderFailures = {}
      BY <1>1, <2>1 DEF Finish
    <2>3. run \in RunType /\ run.pc = "done"
      BY <1>1, <2>1 DEF AcquisitionInv, RunInv, EndTier
    <2>4. run.first \notin {"failed", "throttled"} /\ run.outcome \in {"no_result", "rejected"}
      BY <2>2, <2>3 DEF Merged
    <2>5. \A p \in Providers : run.answers[p] = "ok"
      BY <2>2 DEF ProviderFailures
    <2>6. Clean
      BY <1>1, <2>2, <2>3, <2>4, <2>5 DEF Clean, NoFailure, TierProviders, Providers, AcquisitionInv, RunInv, TiersSettled
    <2>7. Settled(run.tier)
      BY <1>1, <2>3, <2>4, <2>6 DEF AcquisitionInv, RunInv, TiersSettled
    <2>8. ProviderOf[c] \in Preferred \cup Fallback
      BY CandidateFacts DEF Providers
    <2>9. CASE run.tier = "preferred"
      <3>1. Fallback = {}
        BY <2>1, <2>2, <2>4, <2>9 DEF SecondTier, ActiveInstallation
      <3> QED  BY <2>7, <2>8, <2>9, <3>1 DEF Settled, Offers, TierProviders
    <2>10. CASE run.tier = "fallback"
      <3>1. FirstClean
        BY <2>2, <2>4, <2>5, <2>10 DEF FirstClean, Providers
      <3>2. Settled("preferred")
        BY <1>1, <3>1 DEF AcquisitionInv, RunInv, TiersSettled
      <3> QED  BY <2>7, <2>8, <2>10, <3>2 DEF Settled, Offers, TierProviders
    <2> QED  BY <2>3, <2>9, <2>10 DEF RunType
  <1>2. AcquisitionInv /\ [Next]_vars =>
          [installed # None /\ installed' = None
             => \A c \in Candidates : OutOfReach(c) \/ \A v \in Versions(c) : ~Acceptable(v)]_vars
    BY <1>1 DEF Unfit
  <1> QED  BY <1>2, AcquisitionAlways, PTL DEF Spec, RemovalJustified
=============================================================================
