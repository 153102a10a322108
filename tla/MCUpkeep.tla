------------------------------ MODULE MCUpkeep -------------------------------
(***************************************************************************)
(* Four components that share no state, checked in one run: a behaviour    *)
(* moves one of them and leaves the others as they began.                  *)
(***************************************************************************)
EXTENDS Integers, Sequences, FiniteSets, TLC

CONSTANTS Packs, Evidence, Searches, Capacity, NoOne, MaxFaults,
          Arrs, Bases, Tokens, OtherHost, Unrelated, OtherToken, MaxID, MaxChanges,
          CueLists, ReadingTime,
          AgedAfter, MaxUpgradeChecks, Ages, Resets, Delays, MaxSearches

VARIABLES rows, used, dirs, tombs, staged, op, reading, misread, settled, faults,
          conns, nextID, arr, base, token, stored, up, sync, lostTrack, changes,
          file, output, cues, plan,
          prio, attempt, failures, next, age, installed, why, reset, misses, waited, checks, count,
          topic   \* the component that moves

-----------------------------------------------------------------------------
(* Subtitle files of two or three cues, with and without indexes and blank  *)
(* lines, with texts that look like indexes, and out of order.              *)

Line(k) == [k |-> k]
Text(c, n) == [k |-> "text", id |-> <<c, n>>]

CueTexts(c) == {<<>>, <<Text(c, 1)>>, <<Text(c, 1), Line("blank"), Text(c, 2)>>,
                <<Text(c, 1), Line("num")>>, <<Line("num")>>}

CueFiles(c) ==
    {i \o <<[k |-> "time", start |-> t]>> \o x \o z :
        i \in {<<>>, <<Line("num")>>}, t \in {1, 2}, x \in CueTexts(c), z \in {<<>>, <<Line("blank")>>}}

TextFiles ==
    LET two == {a \o b : a \in CueFiles(1), b \in CueFiles(2)}
        three == {a \o b : a \in two, b \in {<<[k |-> "time", start |-> t], Text(3, 1)>> : t \in {1, 2}}}
    IN  {[format |-> f, lines |-> l] : f \in {"srt", "vtt"}, l \in two \cup three}

DialogueFiles ==
    LET Event == {[k |-> "time", start |-> t, says |-> x] : t \in {1, 2}, x \in {0, 7}} \cup {Line("other")}
    IN  {[format |-> "ass", lines |-> <<Line("other"), [k |-> "time", start |-> 2, says |-> 5], a, b, c>>] :
            a \in Event, b \in Event, c \in Event}

\* Cues at times that lie around the 10 and 15 second limits.
CueTimes == {0, 6, 24, 30, 70}
TimedCue(texts, held) ==
    {[start |-> a, end |-> b, text |-> x, held |-> h] : a \in CueTimes, b \in CueTimes, x \in texts, h \in held}
MCCueLists ==
    {<<a, b>> : a \in TimedCue({"x", "y"}, {FALSE}), b \in TimedCue({"", "x"}, BOOLEAN)}
      \cup {<<a, b, c>> : a \in TimedCue({"x"}, {FALSE}), b \in TimedCue({"x"}, {FALSE}), c \in TimedCue({"y"}, {FALSE})}
MCReadingTime == [x |-> 4, y |-> 10]

-----------------------------------------------------------------------------
PC == INSTANCE PackCache
WC == INSTANCE WebhookConnections
CR == INSTANCE CueRepair WITH Files <- TextFiles \cup DialogueFiles
SD == INSTANCE Schedules

\* Releases of unknown age and five days short of AgedAfter; resets that have
\* passed, are not known, or come in three days.
MCAges == {-1, 25 * 1440}
MCResets == {-5, 0, 3 * 1440}

\* The limit (pack_cache.max_bytes) holds one pack at least, and evidence
\* versions count from one.
ASSUME CacheAssumption ==
    /\ Capacity \in Nat \ {0} /\ IsFiniteSet(Packs)
    /\ NoOne \notin Packs /\ Evidence \subseteq Nat \ {0}

\* Other deployments have other hosts and tokens.
ASSUME ConnectionAssumption ==
    /\ Arrs # {} /\ Bases # {} /\ Tokens # {} /\ MaxID \in Nat
    /\ {OtherHost, Unrelated} \cap Bases = {} /\ OtherHost # Unrelated /\ OtherToken \notin Tokens

ASSUME ScheduleAssumption ==
    /\ AgedAfter \in Nat /\ MaxUpgradeChecks \in Nat /\ MaxSearches \in Nat
    /\ Ages \subseteq Nat \cup {-1} /\ Resets \subseteq Int /\ Delays \subseteq Nat

\* Times may be negative or run backwards; a text takes some time to read.
ASSUME CueAssumption ==
    \A cs \in CueLists :
        /\ cs \in Seq([start : Int, end : Int, text : STRING, held : BOOLEAN])
        /\ \A i \in DOMAIN cs : cs[i].text # "" => ReadingTime[cs[i].text] \in Nat

packVars == <<rows, used, dirs, tombs, staged, op, reading, misread, settled, faults>>
hookVars == <<conns, nextID, arr, base, token, stored, up, sync, lostTrack, changes>>
cueVars == <<file, output, cues, plan>>
schedVars == <<prio, attempt, failures, next, age, installed, why, reset, misses, waited, checks, count>>
vars == <<packVars, hookVars, cueVars, schedVars, topic>>

Init ==
    /\ topic \in {"packs", "hooks", "cues", "schedule"}
    /\ PC!Init /\ WC!Init
    /\ IF topic = "cues" THEN CR!Init
       ELSE file = CR!NoFile /\ output = <<>> /\ cues = <<>> /\ plan = <<>>
    /\ SD!Init /\ (topic = "schedule" \/ age = -1)

Next ==
    /\ UNCHANGED topic
    /\ \/ topic = "packs" /\ PC!Next /\ UNCHANGED <<hookVars, cueVars, schedVars>>
       \/ topic = "hooks" /\ WC!Next /\ UNCHANGED <<packVars, cueVars, schedVars>>
       \/ topic = "cues" /\ CR!Next /\ UNCHANGED <<packVars, hookVars, schedVars>>
       \/ topic = "schedule" /\ SD!Next /\ UNCHANGED <<packVars, hookVars, cueVars>>

Symmetry == Permutations(Packs) \cup Permutations(Searches)

Spec == Init /\ [][Next]_vars

\* The pack cache gives what was stored, and its disk, rows and limit agree
\* after a Put, whatever a crash left behind (PackCache).
CacheSound == PC!CacheSound
\* No sync writes to another's webhook connection (WebhookConnections).
ForeignUntouched == [][WC!ForeignLeft]_hookVars
\* No sync creates a second connection beside its own (WebhookConnections).
OneConnection == WC!OneConnection
\* A repaired subtitle keeps its cues and texts, in start order and at sane
\* times (CueRepair).
RepairSafe == CR!RepairSafe
\* Searches and upgrade checks are neither early nor late nor end too soon
\* (Schedules).
OnTime == SD!OnTime
=============================================================================
