------------------------------ MODULE Providers ------------------------------
(***************************************************************************)
(* One configured provider as the daemon's concurrent searches use it: the *)
(* gate that paces requests and refuses them while the provider is paused  *)
(* or disabled, the transport that turns answers into stored pauses, the   *)
(* five clients' reading of a refusal, the session login two of them need, *)
(* the search cache two others have, and the ledger that decides when a    *)
(* page served in place of a subtitle pauses downloads.                    *)
(*                                                                         *)
(* Time is relative: a stored pause counts down.  One unit stands for some *)
(* minutes, two for an hour, three for the rest of a day.  Every update of *)
(* a provider_states row is one step (stateMu is held around it).          *)
(***************************************************************************)
EXTENDS Naturals, FiniteSets, Sequences

CONSTANTS
    Clients,        \* the adapter types to check, one per behaviour
    Calls,          \* the searches that may use the provider at the same time
    Results,        \* the subtitles they download
    None,
    MaxConcurrent,  \* permits of the provider instance
    SharedMax,      \* permits of the origin all instances share
    Delays,         \* transientFailureDelays
    MaxCooldown,    \* MaxProviderCooldown
    RefusalWindow,  \* refusalWindow
    Resets,         \* the resets a provider may report; 0 is not in the future
    MaxTroubles     \* bound: answers other than a success or a due 401, pages
                    \* served as subtitles, sessions ended, restarts

Adapters == {"opensubtitles", "titlovi", "subdl", "subsource", "gestdown"}
Scopes == {"all", "auth", "search", "download", "transfer"}

ASSUME GateAssumption ==
    /\ Clients \subseteq Adapters
    /\ {MaxConcurrent, SharedMax, MaxCooldown} \subseteq Nat \ {0}
    /\ Delays \in Seq(1..MaxCooldown) /\ Delays # <<>>
    /\ Resets \subseteq Nat /\ RefusalWindow \in Nat
    /\ IsFiniteSet(Calls) /\ IsFiniteSet(Results)
    /\ None \notin Calls \cup {"live", "dead"}

VARIABLES
    client,             \* the adapter's type
    valid,              \* the provider accepts the configured credentials
    token,              \* the session token: None, "live" or "dead" (revoked)
    mu,                 \* the call that holds the session mutex, or None
    row,                \* provider_states: scope -> pause
    instance, shared,   \* permits taken
    call,               \* what each call is doing
    cached, flight,     \* TTLCache: an entry, and the call fetching it
    witness,            \* RefusalLedger: the unconfirmed refusal, or None
    refused,            \* history: result -> time since a page refused it
    troubles

vars == <<client, valid, token, mu, row, instance, shared, call, cached, flight, witness,
          refused, troubles>>

----------------------------------------------------------------------------
\* Stored pauses.

NoRow == [reason |-> "none", left |-> 0, spare |-> FALSE, attempt |-> 0, disabled |-> FALSE]

Least(a, b) == IF a < b THEN a ELSE b

Larger(a, b) == IF a > b THEN a ELSE b

\* Mutant: a reset is stored as the provider reports it.
AsReported(reset) == reset

BoundedReset(reset) == Least(reset, MaxCooldown)

\* A limit still to come; a transient pause gives way to anything.
Holds(r) == ~r.spare /\ r.left > 0 /\ r.reason # "transient"

\* Mutant: the last answer to arrive decides.
LastAnswer(r, new) ==
    [new EXCEPT !.attempt = r.attempt, !.left = BoundedReset(@)]

\* Gate.persist: a disable is final, and no answer shortens a limit.
Persist(r, new) ==
    LET reset == BoundedReset(new.left) IN
    IF r.disabled THEN r
    ELSE IF ~new.disabled /\ Holds(r) /\ (new.spare \/ reset = 0 \/ reset < r.left) THEN r
    ELSE [new EXCEPT !.attempt = r.attempt, !.left = reset]

Limit(reset) == [NoRow EXCEPT !.reason = "limit", !.left = reset]
Window(w) == [Limit(w.reset) EXCEPT !.spare = w.spare]
Rejected == [NoRow EXCEPT !.reason = "rejected", !.disabled = TRUE]

\* Gate.RecordTransientFailure: the next delay, unless a limit holds longer.
Transient(r, reset) ==
    LET attempt == Least(r.attempt + 1, Len(Delays))
        left == IF reset > 0 THEN BoundedReset(reset) ELSE Delays[attempt] IN
    IF r.disabled THEN [r EXCEPT !.attempt = attempt]
    ELSE IF Holds(r) THEN [r EXCEPT !.attempt = attempt, !.left = Larger(@, left)]
    ELSE [NoRow EXCEPT !.reason = "transient", !.left = left, !.attempt = attempt]

\* Gate.ResetTransientFailures.
Recovered(r) ==
    IF r.attempt = 0 THEN r
    ELSE IF r.reason = "transient" THEN NoRow
    ELSE [r EXCEPT !.attempt = 0]

\* Gate.checkAvailability: a disable anywhere counts, a login pause only for a login.
Blocked(scopes, login) ==
    \/ \E s \in scopes : row[s].disabled
    \/ \E s \in (IF login THEN scopes ELSE scopes \ {"auth"}) : ~row[s].spare /\ row[s].left > 0

Suspended(op) == Blocked({"all", "auth", op}, op = "auth")

\* Client.CheckSearchAvailability and CheckDownloadAvailability.
Unavailable(task) ==
    Blocked({"all", "auth", task} \cup (IF task = "download" THEN {"transfer"} ELSE {}), FALSE)

\* FallbackReset; 0 where the provider has none.
FallbackReset(kind) ==
    CASE kind = "rate" /\ client # "gestdown" -> 1
      [] kind = "quota" /\ client \in {"opensubtitles", "subdl"} -> 3
      [] kind = "quota" /\ client = "subsource" -> 2
      [] kind = "busy" /\ client = "subdl" -> 2
      [] OTHER -> 0

\* Client.PersistCooldown; 1 is defaultCooldown.
Cooldown(rows, scope, kind, reset) ==
    LET fallback == IF reset > 0 THEN reset ELSE FallbackReset(kind) IN
    [rows EXCEPT ![scope] = Persist(@, Limit(Larger(fallback, 1)))]

DisableAuthentication(rows) == [rows EXCEPT !["auth"] = Persist(@, Rejected)]

\* Client.RecordDownloadRefusal: an hour where no fallback is known, less for a rate limit.
RefusalPause(rows, kind) ==
    Cooldown(rows, "download", kind,
             IF kind = "blocked" \/ (kind = "quota" /\ FallbackReset("quota") = 0) THEN 2 ELSE 0)

----------------------------------------------------------------------------
\* Answers: a status, the rate-limit window of its headers and its message.

NoWindow == [found |-> FALSE, spare |-> FALSE, reset |-> 0]
Windows == {NoWindow, [found |-> TRUE, spare |-> TRUE, reset |-> 1]}
           \cup {[found |-> TRUE, spare |-> FALSE, reset |-> t] : t \in Resets}

Reply(status, window, message) == [status |-> status, window |-> window, message |-> message]
Plain == Reply("ok", NoWindow, "none")

Failures == {Reply("network", NoWindow, "none"), Reply("redirect", NoWindow, "none"),
             Reply("404", NoWindow, "none"), Reply("ok", NoWindow, "truncated")}
            \cup {Reply("5xx", w, "none") : w \in Windows}

Limits == {"quota", "busy", "rate"}

\* External: what the provider may answer to call c.  It answers 401 to a
\* request whose token or credentials it does not accept, and to a download
\* that is not about the account.
Answers(c) ==
    LET op == call[c].op
        mine == CASE client = "subdl" -> Limits \cup {"other"}
                  [] client = "opensubtitles" /\ op = "download" -> {"none", "quota"}
                  [] OTHER -> {"none"}
        key == IF valid THEN {} ELSE {"none", "key"}
        denied == IF op = "auth" THEN ~valid
                  ELSE IF call[c].token # None THEN ~valid \/ call[c].token = "dead"
                  ELSE IF client = "subsource" THEN ~valid
                  ELSE op # "search"
        accepted == IF op = "auth" THEN valid ELSE call[c].token # "dead"
    IN  (IF accepted THEN {Reply("ok", w, "none") : w \in Windows} ELSE {})
        \cup Failures
        \cup {Reply("429", w, m) : w \in Windows, m \in mine}
        \cup (IF client = "subdl"
              THEN {Reply(s, NoWindow, m) : s \in {"401", "403"}, m \in mine \cup key}
                   \cup {Reply("ok", NoWindow, m) : m \in IF op = "search" THEN Limits ELSE {}}
                   \cup (IF op = "download" THEN {Reply("401", NoWindow, "elsewhere")} ELSE {})
              ELSE IF denied THEN {Reply("401", NoWindow, "none")} ELSE {})
        \cup (IF client = "opensubtitles" /\ op = "download"
              THEN {Reply("406", NoWindow, "none"), Reply("ok", NoWindow, "quota")}
                   \cup {Reply("403", NoWindow, m) : m \in mine}
              ELSE {})

\* A 401 that the provider owes to a token or to credentials it does not accept.
Due(c, a) ==
    a.status = "401" /\ (call[c].token = "dead" \/ (call[c].op = "auth" /\ ~valid))

\* Client.Do up to the answer's body: the pause its status or headers call for.
Received(rows, op, a) ==
    LET w == a.window
        limit == IF w.found /\ w.reset > 0 THEN w.reset ELSE FallbackReset("rate")
        brief == a.status = "ok" /\ ~w.spare /\ w.reset = 0
        noted == IF w.found /\ ~brief THEN [rows EXCEPT ![op] = Persist(@, Window(w))] ELSE rows
    IN  CASE a.status = "5xx" ->
                [rows EXCEPT ![op] = Transient(@, IF w.spare THEN 0 ELSE w.reset)]
          [] a.status = "429" ->
                IF limit = 0 THEN rows ELSE [rows EXCEPT ![op] = Persist(@, Limit(limit))]
          [] a.status \in {"ok", "401", "403"} -> noted
          [] OTHER -> [noted EXCEPT ![op] = Recovered(@)]

\* The five clients' own reading of an answer; last: no refresh is left.
OpenSubtitles(rows, op, a, last) ==
    IF a.status = "401" /\ (op = "auth" \/ (last /\ op # "transfer"))
    THEN DisableAuthentication(rows)
    ELSE IF op = "download" /\ (a.status = "406" \/ a.message = "quota")
    THEN Cooldown(rows, op, "quota", IF a.window.spare THEN 0 ELSE a.window.reset)
    ELSE rows

Titlovi(rows, op, a, last) ==
    IF a.status = "401" /\ (op = "auth" \/ (last /\ op = "search"))
    THEN DisableAuthentication(rows) ELSE rows

\* rejectedCredentials, refusal, decodeLimit and payloadLimit.
SubDL(rows, op, a) ==
    IF a.message \in Limits
    THEN Cooldown(rows, op, a.message, IF a.status = "429" THEN a.window.reset ELSE 0)
    ELSE IF \/ a.status = "401" /\ a.message \in {"none", "key"}
            \/ a.status = "403" /\ a.message = "key"
    THEN DisableAuthentication(rows)
    ELSE IF a.status \in {"401", "403"} /\ a.message # "elsewhere"
    THEN [rows EXCEPT ![op] = Transient(@, 0)]
    ELSE rows

\* do and quotaLimit: a 429 its headers do not explain is the hourly or daily cap.
SubSource(rows, op, a) ==
    CASE a.status = "401" -> DisableAuthentication(rows)
      [] a.status = "429" /\ (~a.window.found \/ a.window.spare) -> Cooldown(rows, "all", "quota", 0)
      [] OTHER -> rows

\* request: the transport stored nothing for a 429 without a reset ahead.
Gestdown(rows, op, a) ==
    IF a.status = "429" /\ ~(a.window.found /\ a.window.reset > 0)
    THEN Cooldown(rows, op, "rate", 0) ELSE rows

Read(rows, op, a, last) ==
    CASE client = "opensubtitles" -> OpenSubtitles(rows, op, a, last)
      [] client = "titlovi" -> Titlovi(rows, op, a, last)
      [] client = "subdl" -> SubDL(rows, op, a)
      [] client = "subsource" -> SubSource(rows, op, a)
      [] client = "gestdown" -> Gestdown(rows, op, a)

----------------------------------------------------------------------------
\* Calls.

Idle == [pc |-> "idle", task |-> "none", op |-> "none", refresh |-> TRUE, token |-> None,
         answer |-> Plain]

Init ==
    /\ client \in Clients
    /\ valid = TRUE /\ token = None /\ mu = None
    /\ row = [s \in Scopes |-> NoRow]
    /\ instance = 0 /\ shared = 0
    /\ call = [c \in Calls |-> Idle]
    /\ cached = FALSE /\ flight = None /\ witness = None
    /\ refused = [r \in Results |-> RefusalWindow + 1]
    /\ troubles = 0

Rest == <<client, valid, witness, refused, troubles>>

\* The tasks a client needs a session for, and those it answers from its cache.
Session(task) == client = "opensubtitles" \/ (client = "titlovi" /\ task = "search")
Cached(task) == client \in {"subdl", "subsource"} /\ task = "search"

\* A call returns, with its mutex, its fetch and n permits of each semaphore.
Returns(c, i, s) ==
    /\ call' = [call EXCEPT ![c] = Idle]
    /\ mu' = IF mu = c THEN None ELSE mu
    /\ flight' = IF flight = c THEN None ELSE flight
    /\ instance' = instance - i /\ shared' = shared - s

\* A search or a download that its preflight lets through.
Start(c, task) ==
    /\ call[c].pc = "idle" /\ ~Unavailable(task)
    /\ call' = [call EXCEPT ![c] =
           [Idle EXCEPT !.task = task, !.op = task,
                        !.pc = IF Session(task) THEN "login"
                               ELSE IF Cached(task) THEN "load" ELSE "check"]]
    /\ UNCHANGED <<token, mu, row, instance, shared, cached, flight, Rest>>

\* TTLCache.Load: an entry, or the only fetch; others wait for it to end.
Load(c) ==
    /\ call[c].pc = "load"
    /\ \/ cached /\ Returns(c, 0, 0)
       \/ /\ ~cached /\ flight = None
          /\ flight' = c
          /\ call' = [call EXCEPT ![c].pc = "check"]
          /\ UNCHANGED <<mu, instance, shared>>
    /\ UNCHANGED <<token, row, cached, Rest>>

\* Mutant: a refused request asks for the session it already has.
FirstLogin(c) == token = None

\* login asks again when it is forced to, whatever token there is.
MustLogin(c) == token = None \/ ~call[c].refresh

\* login, with the mutex held while the provider is asked.
Login(c) ==
    /\ call[c].pc = "login" /\ mu = None
    /\ IF MustLogin(c)
       THEN mu' = c /\ call' = [call EXCEPT ![c].pc = "check", ![c].op = "auth"]
       ELSE mu' = mu /\ call' = [call EXCEPT ![c].pc = "check", ![c].token = token]
    /\ UNCHANGED <<token, row, instance, shared, cached, flight, Rest>>

\* Gate.Acquire: the stored state, the instance's permit, the origin's, and
\* the state again.
Check(c) ==
    /\ call[c].pc = "check"
    /\ IF Suspended(call[c].op) THEN Returns(c, 0, 0)
       ELSE call' = [call EXCEPT ![c].pc = "wait"] /\ UNCHANGED <<mu, flight, instance, shared>>
    /\ UNCHANGED <<token, row, cached, Rest>>

TakeInstance(c) ==
    /\ call[c].pc = "wait" /\ instance < MaxConcurrent
    /\ instance' = instance + 1
    /\ call' = [call EXCEPT ![c].pc = "slot"]
    /\ UNCHANGED <<token, mu, row, shared, cached, flight, Rest>>

TakeShared(c) ==
    /\ call[c].pc = "slot" /\ shared < SharedMax
    /\ IF Suspended(call[c].op) THEN Returns(c, 1, 0)
       ELSE /\ shared' = shared + 1
            /\ call' = [call EXCEPT ![c].pc = "sent"]
            /\ UNCHANGED <<mu, flight, instance>>
    /\ UNCHANGED <<token, row, cached, Rest>>

\* The context ends while the call waits or its request is out.
Cancel(c) ==
    /\ \/ call[c].pc \in {"load", "wait"} /\ Returns(c, 0, 0)
       \/ call[c].pc = "slot" /\ Returns(c, 1, 0)
       \/ call[c].pc \in {"sent", "body"} /\ Returns(c, 1, 1)
    /\ UNCHANGED <<token, row, cached, Rest>>

\* The provider answers, or the network does not carry the request.
Answer(c, a) ==
    /\ call[c].pc = "sent" /\ a \in Answers(c)
    /\ troubles' = troubles + (IF a = Plain \/ Due(c, a) THEN 0 ELSE 1)
    /\ troubles' <= MaxTroubles
    /\ IF a.status \in {"network", "redirect"}
       THEN /\ row' = IF a.status = "redirect" THEN row
                      ELSE [row EXCEPT ![call[c].op] = Transient(@, 0)]
            /\ Returns(c, 1, 1)
       ELSE /\ row' = Received(row, call[c].op, a)
            /\ call' = [call EXCEPT ![c].pc = "body", ![c].answer = a]
            /\ UNCHANGED <<mu, flight, instance, shared>>
    /\ UNCHANGED <<token, cached, client, valid, witness, refused>>

\* A 401 to a session's first try.
Refreshes(c) ==
    /\ call[c].answer.status = "401" /\ call[c].refresh /\ Session(call[c].task)
    /\ call[c].op \notin {"auth", "transfer"}

\* Mutant: the refused answer is closed only after the new login.
LoginFirst(c) ==
    /\ call' = [call EXCEPT ![c].pc = "login", ![c].refresh = FALSE, ![c].answer = Plain]
    /\ UNCHANGED <<mu, flight, instance, shared>>

\* The refused answer is closed, which returns its permits, before the login.
LoginAgain(c) ==
    /\ call' = [call EXCEPT ![c].pc = "login", ![c].refresh = FALSE, ![c].answer = Plain]
    /\ instance' = instance - 1 /\ shared' = shared - 1
    /\ UNCHANGED <<mu, flight>>

\* The client goes on with a request of the same call.
GoesOn(c, op, login) ==
    /\ call' = [call EXCEPT ![c].pc = "check", ![c].op = op, ![c].answer = Plain,
                            ![c].token = IF op = "transfer" THEN None ELSE "live"]
    /\ mu' = IF login THEN None ELSE mu
    /\ instance' = instance - 1 /\ shared' = shared - 1
    /\ UNCHANGED flight

\* The body is read to its end and the client acts on the answer.
Reads(c) ==
    LET a == call[c].answer
        op == call[c].op
        rows == IF a.status # "ok" THEN row
                ELSE [row EXCEPT ![op] = IF a.message = "truncated" THEN Transient(@, 0) ELSE Recovered(@)]
        fine == a.status = "ok" /\ a.message \notin Limits \cup {"truncated"}
    IN  /\ call[c].pc = "body"
        /\ row' = IF Refreshes(c) THEN rows ELSE Read(rows, op, a, ~call[c].refresh)
        /\ token' = IF op = "auth" /\ fine THEN "live" ELSE token
        /\ cached' = (cached \/ (fine /\ Cached(call[c].task)))
        /\ IF Refreshes(c) THEN LoginAgain(c)
           ELSE IF op = "auth" /\ fine THEN GoesOn(c, call[c].task, TRUE)
           ELSE IF op = "download" /\ client = "opensubtitles" /\ a.status = "ok" /\ a.message # "truncated"
           THEN GoesOn(c, "transfer", FALSE)
           ELSE IF call[c].task = "download" /\ op # "auth" /\ fine
           THEN /\ call' = [call EXCEPT ![c].pc = "judge", ![c].answer = Plain]
                /\ instance' = instance - 1 /\ shared' = shared - 1
                /\ UNCHANGED <<mu, flight>>
           ELSE Returns(c, 1, 1)
        /\ UNCHANGED Rest

\* The downloaded file is a subtitle.
Subtitle(c) ==
    /\ call[c].pc = "judge" /\ Returns(c, 0, 0)
    /\ UNCHANGED <<token, row, cached, Rest>>

\* Mutant: any second refusal confirms the first.
SecondRefusal(r) == witness # None /\ witness.age <= RefusalWindow

\* RefusalLedger.witness: another result's refusal within the window.
Confirms(r) == witness # None /\ witness.age <= RefusalWindow /\ witness.result # r

\* The file is the provider's message: a limit in JSON pauses downloads at
\* once, a page or Titlovi's placeholder when another result confirms it.
Message(c, r, kind, explicit) ==
    /\ call[c].pc = "judge"
    /\ troubles < MaxTroubles /\ troubles' = troubles + 1
    /\ (kind = "blocked") => (client = "titlovi" /\ ~explicit)
    /\ witness' = IF explicit THEN witness
                  ELSE IF Confirms(r) THEN None ELSE [result |-> r, age |-> 0]
    /\ refused' = IF explicit THEN refused ELSE [refused EXCEPT ![r] = 0]
    /\ row' = IF explicit \/ Confirms(r) THEN RefusalPause(row, kind) ELSE row
    /\ Returns(c, 0, 0)
    /\ UNCHANGED <<token, cached, client, valid>>

----------------------------------------------------------------------------
\* The world.

Older(t, cap) == IF t <= cap THEN t + 1 ELSE t

\* Time passes; an entry of the search cache may expire.
Tick ==
    /\ row' = [s \in Scopes |-> [row[s] EXCEPT !.left = IF @ > 0 THEN @ - 1 ELSE 0]]
    /\ witness' = IF witness = None THEN None
                  ELSE [witness EXCEPT !.age = Older(@, RefusalWindow)]
    /\ refused' = [r \in Results |-> Older(refused[r], RefusalWindow)]
    /\ cached' \in {cached, FALSE}
    /\ UNCHANGED <<client, valid, token, mu, instance, shared, call, flight, troubles>>

\* The owner runs `provider retry`.
Retry ==
    /\ row' = [s \in Scopes |-> NoRow]
    /\ UNCHANGED <<client, valid, token, mu, instance, shared, call, cached, flight, witness,
                   refused, troubles>>

\* External: the provider ends the session, or stops accepting the credentials.
\* No session ends while a call is renewing it: one refresh is all a call has.
Revoke ==
    /\ \A c \in Calls : call[c].refresh
    /\ troubles < MaxTroubles /\ troubles' = troubles + 1
    /\ \/ valid' = valid /\ token = "live"
       \/ valid' = FALSE
    /\ token' = IF token = "live" THEN "dead" ELSE token
    /\ call' = [c \in Calls |-> [call[c] EXCEPT !.token = IF @ = "live" THEN "dead" ELSE @]]
    /\ UNCHANGED <<client, mu, row, instance, shared, cached, flight, witness, refused>>

\* The daemon restarts, perhaps with corrected credentials: only rows remain.
Restart ==
    /\ troubles < MaxTroubles /\ troubles' = troubles + 1
    /\ valid' \in {valid, TRUE}
    /\ token' = None /\ mu' = None /\ instance' = 0 /\ shared' = 0
    /\ call' = [c \in Calls |-> Idle]
    /\ cached' = FALSE /\ flight' = None /\ witness' = None
    /\ UNCHANGED <<client, row, refused>>

Proceeds(c) ==
    \/ Load(c) \/ Login(c) \/ Check(c) \/ TakeInstance(c) \/ TakeShared(c)
    \/ (\E a \in Answers(c) : Answer(c, a)) \/ Reads(c) \/ Subtitle(c)

Works(c) ==
    \/ Start(c, "search") \/ Start(c, "download") \/ Proceeds(c) \/ Cancel(c)
    \/ \E r \in Results, kind \in {"quota", "rate", "blocked"}, explicit \in BOOLEAN :
          Message(c, r, kind, explicit)

Next == (\E c \in Calls : Works(c)) \/ Tick \/ Retry \/ Revoke \/ Restart

Spec == Init /\ [][Next]_vars

----------------------------------------------------------------------------
\* Properties.

\* The stored pauses are within MaxProviderCooldown and the rest is well typed.
TypeOK ==
    /\ row \in [Scopes -> [reason : {"none", "limit", "transient", "rejected"}, left : 0..MaxCooldown,
                           spare : BOOLEAN, attempt : 0..Len(Delays), disabled : BOOLEAN]]
    /\ instance \in 0..MaxConcurrent /\ shared \in 0..SharedMax
    /\ mu \in Calls \cup {None} /\ flight \in Calls \cup {None} /\ token \in {None, "live", "dead"}

\* No answer, however late, shortens or clears a limit that still holds or
\* re-enables a disabled provider: only time and the owner's retry do
\* (Gate.persist, RecordTransientFailure, ResetTransientFailures).
LimitStands ==
    [][Tick \/ Retry \/ \A s \in Scopes :
          /\ row[s].disabled => row'[s].disabled
          /\ Holds(row[s]) => row'[s].disabled \/ (Holds(row'[s]) /\ row'[s].left >= row[s].left)]_vars

\* Credentials the provider accepts are never disabled: a session that ends
\* while several searches use it is renewed (login, getJSON, search).
NoFalseDisable ==
    [][valid => \A s \in Scopes : row'[s].disabled => row[s].disabled]_vars

\* A page served in place of a subtitle pauses downloads only when another
\* subtitle was refused within the window (RefusalLedger.witness).
PauseConfirmed ==
    [][(row' # row /\ <<witness', refused'>> # <<witness, refused>> /\ ~Tick)
          => Cardinality({r \in Results : refused'[r] <= RefusalWindow}) >= 2]_vars

\* A provider is put aside for a cause only: not for good while its credentials
\* work, and not for one odd page (DisableAuthentication, RefusalLedger).
OnlyForCause == NoFalseDisable /\ PauseConfirmed

\* Call c waits for nobody: what its next step needs is free, and the provider
\* owes an answer to whatever it was sent.
Able(c) ==
    \/ call[c].pc \in {"check", "body", "judge"}
    \/ call[c].pc = "load" /\ (cached \/ flight = None)
    \/ call[c].pc = "login" /\ mu = None
    \/ call[c].pc = "wait" /\ instance < MaxConcurrent
    \/ call[c].pc = "slot" /\ shared < SharedMax
    \/ call[c].pc = "sent" /\ \E a \in Answers(c) : a = Plain \/ Due(c, a)

\* The calls under way never all wait for each other or for something a call
\* that ended still holds: permits, the session mutex and the shared fetch come
\* back on every path (Gate.Acquire, permitBody, login, TTLCache.Load).
NoCallStuck == (\E c \in Calls : call[c].pc # "idle") => \E c \in Calls : Able(c)

\* So some call under way can always take its next step.
CallsGoOn == NoCallStuck /\ \A c \in Calls : Able(c) => ENABLED Proceeds(c)

=============================================================================
