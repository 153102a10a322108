------------------------------ MODULE Schedules ------------------------------
(***************************************************************************)
(* When one search runs again (internal/schedule, scheduleUpgrade in       *)
(* internal/workflow/upgrade.go, preferredRetryAt, and the worker's        *)
(* workflowCompletion and throttleRetryAt).  Every step is one finished    *)
(* search: nothing found, throttled, failed, installed, or an installed    *)
(* subtitle found good; it may run late.  Times are minutes; a random unit *)
(* is 0 or 1, its two ends.  A score is its class of base interval.        *)
(***************************************************************************)
EXTENDS Integers, Sequences, FiniteSets

CONSTANTS AgedAfter,         \* minutes after release; 0: never aged
          MaxUpgradeChecks,
          Ages,              \* release ages at the first search; Unknown is -1
          Resets,            \* minutes to a provider's reset; 0: none known, less: past
          Delays,            \* how late a due search may run
          MaxSearches        \* bound

VARIABLES
    prio,       \* "missing" or "upgrade": the row's priority class
    attempt, failures,
    next,       \* minutes to the next search, or Never
    age,        \* release age now, at most AgedAfter, or Unknown
    installed,  \* nothing, or [base, fallback, recent]: recent at its install
    why, reset, \* history: what the last schedule followed, and the reset that
                \* a provider had then reported
    misses, waited,   \* history: searches without result since the row was
                      \* new, and the delays scheduled after them, while young
    checks,     \* history: unchanged checks since the installation
    count

schedVars == <<prio, attempt, failures, next, age, installed, why, reset, misses, waited, checks, count>>

Hour == 60
Day == 24 * Hour
Unknown == -1
Never == -1
Nothing == [base |-> -1, fallback |-> FALSE, recent |-> FALSE]
SearchCache == 6 * Hour
Units == {0, 1}
Larger(a, b) == IF a > b THEN a ELSE b
Smaller(a, b) == IF a < b THEN a ELSE b

\* The delay of attempt n, or the last one.
DelayAt(n, delays) == delays[Smaller(n, Len(delays) - 1) + 1]

MissingIntervals == <<0, 6 * Hour, 6 * Hour, 12 * Hour, 48 * Hour, 96 * Hour, 168 * Hour, 336 * Hour>>
AgedMissingAttempt == 6
WorkflowFailureDelay(n) == DelayAt(n, <<1, 5, 15, Hour, 6 * Hour, 24 * Hour>>)

\* Mutant: the jitter goes both ways.
JitterBothWays(n, unit) ==
    LET d == DelayAt(n, MissingIntervals) IN d + ((2 * unit - 1) * d) \div 10

\* Jitter of 0 to 20 percent only delays.
MissingDelay(n, unit) ==
    LET d == DelayAt(n, MissingIntervals) IN d + (unit * d) \div 5

Aged(a) == AgedAfter > 0 /\ a # Unknown /\ a >= AgedAfter
Recent(a) == AgedAfter > 0 /\ a # Unknown /\ a < AgedAfter

Init ==
    /\ prio = "missing" /\ attempt = 0 /\ failures = 0 /\ next = 0
    /\ age \in Ages
    /\ installed = Nothing /\ why = "new" /\ reset = 0
    /\ misses = 0 /\ waited = 0 /\ checks = 0 /\ count = 0

\* The release's age when the due search has run.
AgeAfter(late) == IF age = Unknown THEN age ELSE Smaller(age + next + late, Larger(AgedAfter, 1))

\* A due search runs, perhaps late.
Due(late) ==
    /\ next # Never /\ count < MaxSearches
    /\ count' = count + 1
    /\ age' = AgeAfter(late)

-----------------------------------------------------------------------------
\* Mutant: a failed search counts as one without result.
FailuresCounted == IF prio = "upgrade" THEN 1 ELSE attempt + failures + 1

\* workflowCompletion: the attempt whose delay follows.
MissingAttempt == IF prio = "upgrade" THEN 1 ELSE attempt + 1

\* Scheduler.Missing: no result, all rejected, or removed.
Missed(late, unit) ==
    LET n == IF Aged(age') THEN Larger(MissingAttempt, AgedMissingAttempt) ELSE MissingAttempt IN
    /\ Due(late)
    /\ next' = MissingDelay(n, unit)
    /\ attempt' = Larger(IF prio = "upgrade" THEN 1 ELSE attempt + 1,
                         IF Aged(age') /\ MissingAttempt < AgedMissingAttempt THEN AgedMissingAttempt ELSE 0)
    /\ prio' = "missing" /\ failures' = 0
    /\ installed' = Nothing /\ why' = "missing" /\ reset' = 0
    /\ IF Aged(age') THEN misses' = 0 /\ waited' = 0
       ELSE misses' = (IF prio = "upgrade" THEN 0 ELSE misses) + 1
            /\ waited' = (IF prio = "upgrade" THEN 0 ELSE waited) + next'
    /\ checks' = 0

\* throttleRetryAt: never sooner than a minute, nor than the reset.
ThrottleRetryAt(r, unit) ==
    IF r = 0 THEN 6 * Hour + (unit * 6 * Hour) \div 10
    ELSE IF r < 1 THEN 1 ELSE r + (unit * r) \div 10

Throttled(late, r, unit) ==
    /\ Due(late)
    /\ next' = ThrottleRetryAt(r, unit) /\ why' = "throttled" /\ reset' = r
    /\ UNCHANGED <<prio, attempt, failures, installed, misses, waited, checks>>

\* Scheduler.Failure.
Failed(late) ==
    /\ Due(late)
    /\ next' = WorkflowFailureDelay(failures) /\ why' = "failed" /\ reset' = 0
    /\ failures' = failures + 1
    /\ UNCHANGED <<prio, attempt, installed, misses, waited, checks>>

-----------------------------------------------------------------------------
(* scheduleUpgrade.                                                         *)

RecentFallbackChecks == 4

\* NextUpgradeAt, nextUpgradeAt: the exact match of a hash needs no checks.
BaseIntervals == {0, 7 * Day, 30 * Day, 90 * Day}

\* The base interval lengthened with every unchanged check.
Lengthened(base, n) ==
    LET steps == <<14 * Day, 30 * Day, 60 * Day, 90 * Day>>
        passed == Cardinality({j \in 1 .. 4 : steps[j] <= base})
    IN  IF n = 0 \/ steps[4] <= base THEN base ELSE steps[Smaller(passed + n, 4)]

\* Mutant: a fallback's checks end like any other.
ChecksEndForAll(i, n) == MaxUpgradeChecks > 0 /\ n >= MaxUpgradeChecks

ChecksEnd(i, n) == MaxUpgradeChecks > 0 /\ n >= MaxUpgradeChecks /\ ~i.fallback

\* Mutant: jitter and backoff apply to a recovery check too.
RecoveryAsAnyCheck(i, n, r, a, unit) ==
    IF i.base = 0 THEN Never
    ELSE IF i.fallback /\ Recent(a) /\ n < RecentFallbackChecks THEN MissingDelay(n + 1, unit)
    ELSE i.base + ((2 * unit - 1) * i.base) \div 10

\* The next check of installation i after n unchanged ones; r is the reset of a
\* preferred provider that was not available, if it comes before the base.
NextCheck(i, n, r, a, unit) ==
    LET recovery == r > 0 /\ r < i.base
        early == MissingDelay(n + 1, unit)
        m == IF i.fallback /\ i.recent THEN Larger(0, n - RecentFallbackChecks) ELSE n
        b == Lengthened(i.base, m)
    IN  IF i.base = 0 THEN Never
        ELSE IF i.fallback /\ Recent(a) /\ n < RecentFallbackChecks
          THEN IF recovery THEN Smaller(early, r) ELSE early
        ELSE IF recovery THEN r
        ELSE IF ChecksEnd(i, m) THEN Never
        ELSE b + ((2 * unit - 1) * b) \div 10

\* OutcomeInstalled.
Installs(late, base, fallback, r, unit) ==
    LET i == [base |-> base, fallback |-> fallback, recent |-> Recent(age')] IN
    /\ Due(late) /\ (IF fallback THEN base = 7 * Day ELSE r = 0)
    /\ ~(installed # Nothing /\ ~installed.fallback /\ fallback)
    /\ installed' = i
    /\ next' = NextCheck(i, 0, r, age', unit)
    /\ prio' = IF next' = Never THEN prio ELSE "upgrade"
    /\ attempt' = 0 /\ failures' = 0 /\ checks' = 0
    /\ misses' = 0 /\ waited' = 0
    /\ why' = (IF r > 0 THEN "recovery" ELSE "check") /\ reset' = r

\* OutcomeSatisfied: the search found nothing better.
Unchanged(late, unit) ==
    LET n == IF prio = "upgrade" THEN attempt + 1 ELSE 0 IN
    /\ Due(late) /\ installed # Nothing
    /\ next' = NextCheck(installed, n, 0, age', unit)
    /\ prio' = IF next' = Never THEN prio ELSE "upgrade"
    /\ attempt' = IF prio = "upgrade" /\ next' # Never THEN attempt + 1 ELSE 0
    /\ failures' = 0 /\ checks' = (IF prio = "upgrade" THEN checks ELSE 0) + (IF prio = "upgrade" THEN 1 ELSE 0)
    /\ why' = "check" /\ reset' = 0
    /\ UNCHANGED <<installed, misses, waited>>

\* The media changed, or the owner asked: the row is new again.
Requested ==
    /\ count < MaxSearches /\ count' = count + 1
    /\ prio' = "missing" /\ attempt' = 0 /\ failures' = 0 /\ next' = 0
    /\ misses' = 0 /\ waited' = 0 /\ checks' = 0 /\ why' = "new" /\ reset' = 0
    /\ UNCHANGED <<age, installed>>

Next ==
    \/ \E late \in Delays :
         \/ Failed(late)
         \/ \E unit \in Units :
              \/ Missed(late, unit) \/ Unchanged(late, unit)
              \/ \E r \in Resets : \/ Throttled(late, r, unit)
                                   \/ \E base \in BaseIntervals, fallback \in BOOLEAN : Installs(late, base, fallback, r, unit)
    \/ Requested

-----------------------------------------------------------------------------
\* No search that ended cleanly is repeated while the providers' six-hour
\* search cache would answer it, and no throttled one before the reset or
\* within a minute (MissingDelay, throttleRetryAt).
NotTooSoon ==
    /\ why \in {"missing", "check"} /\ next # Never => next >= SearchCache
    /\ why = "throttled" => next >= 1 /\ next >= reset

\* The delays scheduled after the searches without result add up to 6, 12 and
\* 24 hours, 3, 7 and 14 days, then every 14 days, or at most a fifth more:
\* throttles and failures between them neither repeat nor skip one.  The waits
\* after those, and what a due search waits to be run, come on top
\* (missingIntervals, workflowCompletion).
Milestones ==
    LET at == <<6 * Hour, 12 * Hour, 24 * Hour, 3 * Day, 7 * Day, 14 * Day, 28 * Day, 42 * Day>>
    IN  misses \in DOMAIN at => at[misses] <= waited /\ 5 * waited <= 6 * at[misses]

\* The checks of an installed subtitle end only for an exact match, or after
\* MaxUpgradeChecks unchanged ones of a preferred provider's subtitle; those
\* of a fallback provider's never do (scheduleUpgrade).
ChecksGoOn ==
    next = Never =>
        /\ installed # Nothing
        /\ installed.base = 0 \/ (~installed.fallback /\ checks >= MaxUpgradeChecks /\ MaxUpgradeChecks > 0)

\* A fallback installed while a preferred provider was not available is checked
\* again by that provider's reset, or by the ordinary schedule when that comes
\* sooner (preferredRetryAt, upgradeRecovery).
RecoveryInTime ==
    why = "recovery" /\ reset < 7 * Day => next # Never /\ next <= reset

\* Searches and checks come neither too soon nor too late, and do not stop
\* early (internal/schedule, scheduleUpgrade).
OnTime == NotTooSoon /\ Milestones /\ ChecksGoOn /\ RecoveryInTime
=============================================================================
