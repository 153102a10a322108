-------------------------- MODULE ProvidersProofs --------------------------
(***************************************************************************)
(* TLAPS proofs about Providers, for every set of calls and results, any   *)
(* permits, delays and resets.                                             *)
(***************************************************************************)
EXTENDS Providers, FiniteSetTheorems, TLAPS

RowType ==
    [reason : {"none", "limit", "transient", "rejected"}, left : 0..MaxCooldown,
     spare : BOOLEAN, attempt : 0..Len(Delays), disabled : BOOLEAN]

\* What an answer asks to store, before its reset is bounded.
Wanted ==
    [reason : {"limit", "rejected"}, left : Nat, spare : BOOLEAN, attempt : {0},
     disabled : BOOLEAN]

WindowType == [found : BOOLEAN, spare : BOOLEAN, reset : Nat]

ReplyType ==
    [status : {"ok", "network", "redirect", "404", "5xx", "429", "401", "403", "406"},
     window : WindowType,
     message : {"none", "truncated", "quota", "busy", "rate", "other", "key", "elsewhere"}]

\* A row that is disabled says why.
Proper(r) == r \in RowType /\ (r.disabled => r.reason = "rejected")

\* What no answer may undo: a disable, and a limit that still holds.
Stands(r, q) ==
    /\ r.disabled => q.disabled
    /\ Holds(r) => q.disabled \/ (Holds(q) /\ q.left >= r.left)

\* The same for the rows of all scopes.
ProperRows(rows) == rows \in [Scopes -> RowType] /\ \A s \in Scopes : Proper(rows[s])

RowsStand(rows, new) == ProperRows(new) /\ \A s \in Scopes : Stands(rows[s], new[s])

NoneDisabled(rows, new) == \A s \in Scopes : new[s].disabled => rows[s].disabled

\* The answers that a client reads as rejected credentials.
Disables(op, a, last) ==
    \/ /\ client = "opensubtitles" /\ a.status = "401"
       /\ op = "auth" \/ (last /\ op # "transfer")
    \/ /\ client = "titlovi" /\ a.status = "401"
       /\ op = "auth" \/ (last /\ op = "search")
    \/ /\ client = "subdl"
       /\ \/ a.status = "401" /\ a.message \in {"none", "key"}
          \/ a.status = "403" /\ a.message = "key"
    \/ client = "subsource" /\ a.status = "401"

-----------------------------------------------------------------------------
(* The inductive invariant *)

CallType ==
    [pc : {"idle", "load", "login", "check", "wait", "slot", "sent", "body", "judge"},
     task : {"none", "search", "download"},
     op : {"none", "auth", "search", "download", "transfer"},
     refresh : BOOLEAN, token : {None, "live", "dead"}, answer : ReplyType]

\* A call logs in only where its client has a session, carries a token where it
\* has one, and a fresh one when it asks for the second time.
Sound(k) ==
    /\ k.pc # "idle" => k.task \in {"search", "download"} /\ k.op \in {"auth", "transfer", k.task}
    /\ k.pc = "login" \/ k.op = "auth" \/ k.token # None => Session(k.task)
    /\ k.pc \notin {"idle", "login"} /\ Session(k.task) /\ k.op = k.task => k.token # None
    /\ k.pc \notin {"idle", "login"} /\ ~k.refresh /\ k.op = k.task => k.token = "live"

\* The credentials work: no call has an answer that its client would read as
\* rejected credentials.
Unharmed(k) == valid /\ k.pc = "body" => ~Disables(k.op, k.answer, ~k.refresh)

CallsInv == call \in [Calls -> CallType] /\ \A c \in Calls : Sound(call[c]) /\ Unharmed(call[c])

\* The permits taken are the ones that calls under way hold.
InstanceHeld(k) == k.pc \in {"slot", "sent", "body"}
SharedHeld(k) == k.pc \in {"sent", "body"}

PermitsInv ==
    /\ instance = Cardinality({c \in Calls : InstanceHeld(call[c])}) /\ instance <= MaxConcurrent
    /\ shared = Cardinality({c \in Calls : SharedHeld(call[c])}) /\ shared <= SharedMax

\* The ledger's refusal happened, no longer ago than the ledger says.
WitnessInv ==
    /\ refused \in [Results -> 0..(RefusalWindow + 1)]
    /\ witness = None \/ /\ witness \in [result : Results, age : 0..(RefusalWindow + 1)]
                         /\ refused[witness.result] <= witness.age

RestType ==
    /\ client \in Adapters /\ valid \in BOOLEAN
    /\ token \in {None, "live", "dead"}
    /\ mu \in Calls \cup {None} /\ flight \in Calls \cup {None}

ProvidersInv == RestType /\ ProperRows(row) /\ CallsInv /\ PermitsInv /\ WitnessInv

-----------------------------------------------------------------------------
(* The updates of a provider_states row *)

LEMMA DelayType ==
    /\ Len(Delays) \in Nat \ {0}
    /\ \A n \in 1..Len(Delays) : Delays[n] \in 1..MaxCooldown
BY GateAssumption

LEMMA BoundedResetType ==
    ASSUME NEW t \in Nat
    PROVE  BoundedReset(t) \in 0..MaxCooldown
BY GateAssumption DEF BoundedReset, Least

LEMMA NoRowProper == Proper(NoRow)
BY DelayType, GateAssumption DEF NoRow, Proper, RowType

LEMMA LimitWanted ==
    /\ \A t \in Nat : Limit(t) \in Wanted /\ ~Limit(t).disabled /\ Limit(t).reason = "limit"
    /\ \A w \in WindowType : Window(w) \in Wanted /\ ~Window(w).disabled /\ Window(w).reason = "limit"
    /\ Rejected \in Wanted /\ Rejected.disabled /\ Rejected.reason = "rejected"
BY DEF Limit, Window, Rejected, NoRow, Wanted, WindowType

\* Gate.persist keeps a row well formed, and what stands in it.
LEMMA PersistStands ==
    ASSUME NEW r, Proper(r), NEW new \in Wanted, new.disabled <=> new.reason = "rejected"
    PROVE  /\ Proper(Persist(r, new)) /\ Stands(r, Persist(r, new))
           /\ ~new.disabled => (Persist(r, new).disabled => r.disabled)
<1> DEFINE reset == BoundedReset(new.left)
           p == [new EXCEPT !.attempt = r.attempt, !.left = reset]
<1>1. reset \in 0..MaxCooldown
  BY BoundedResetType DEF Wanted
<1> HIDE DEF reset
<1>2. Proper(p) /\ p.left = reset /\ p.spare = new.spare /\ p.reason = new.reason
        /\ p.disabled = new.disabled
  BY <1>1 DEF Proper, RowType, Wanted
<1>3. Persist(r, new) = IF r.disabled THEN r
                        ELSE IF ~new.disabled /\ Holds(r) /\ (new.spare \/ reset = 0 \/ reset < r.left)
                        THEN r ELSE p
  BY DEF Persist, reset
<1> HIDE DEF p
<1>4. CASE Persist(r, new) = r
  BY <1>4 DEF Stands, Proper, RowType
<1>5. CASE /\ Persist(r, new) = p /\ ~r.disabled
           /\ ~(~new.disabled /\ Holds(r) /\ (new.spare \/ reset = 0 \/ reset < r.left))
  BY <1>1, <1>2, <1>5 DEF Stands, Holds, Proper, RowType, Wanted
<1> QED
  BY <1>3, <1>4, <1>5

\* So does a transient failure.
LEMMA TransientStands ==
    ASSUME NEW r, Proper(r), NEW reset \in Nat
    PROVE  /\ Proper(Transient(r, reset)) /\ Stands(r, Transient(r, reset))
           /\ Transient(r, reset).disabled => r.disabled
<1> DEFINE attempt == Least(r.attempt + 1, Len(Delays))
           left == IF reset > 0 THEN BoundedReset(reset) ELSE Delays[attempt]
<1>1. attempt \in 1..Len(Delays)
  BY DelayType DEF Proper, RowType, Least
<1> HIDE DEF attempt
<1>a. attempt \in 0..Len(Delays)
  BY <1>1, DelayType
<1>2. left \in 0..MaxCooldown
  <2>1. BoundedReset(reset) \in 0..MaxCooldown
    BY BoundedResetType
  <2>2. Delays[attempt] \in 0..MaxCooldown
    BY <1>1, DelayType
  <2> QED
    BY <2>1, <2>2
<1>3. Transient(r, reset) =
        IF r.disabled THEN [r EXCEPT !.attempt = attempt]
        ELSE IF Holds(r) THEN [r EXCEPT !.attempt = attempt, !.left = Larger(@, left)]
        ELSE [NoRow EXCEPT !.reason = "transient", !.left = left, !.attempt = attempt]
  BY DEF Transient, attempt
<1> HIDE DEF left
<1>4. CASE r.disabled
  <2> DEFINE q == [r EXCEPT !.attempt = attempt]
  <2>1. Transient(r, reset) = q
    BY <1>3, <1>4
  <2>2. q \in RowType /\ q.disabled = r.disabled /\ q.reason = r.reason
    BY <1>a DEF Proper, RowType
  <2> HIDE DEF q
  <2> QED
    BY <1>4, <2>1, <2>2 DEF Proper, Stands
<1>5. CASE ~r.disabled /\ Holds(r)
  <2> DEFINE more == Larger(r.left, left)
             q == [r EXCEPT !.attempt = attempt, !.left = more]
  <2>1. Transient(r, reset) = q
    BY <1>3, <1>5
  <2>2. more \in 0..MaxCooldown /\ more >= r.left
    BY <1>2 DEF Proper, RowType, Larger
  <2> HIDE DEF more
  <2>3. /\ q \in RowType /\ q.disabled = r.disabled /\ q.reason = r.reason
        /\ q.spare = r.spare /\ q.left = more
    BY <1>a, <2>2 DEF Proper, RowType
  <2> HIDE DEF q
  <2> QED
    BY <1>5, <2>1, <2>2, <2>3 DEF Proper, RowType, Stands, Holds
<1>6. CASE ~r.disabled /\ ~Holds(r)
  <2> DEFINE q == [NoRow EXCEPT !.reason = "transient", !.left = left, !.attempt = attempt]
  <2>1. Transient(r, reset) = q
    BY <1>3, <1>6
  <2>2. q \in RowType /\ ~q.disabled
    BY <1>a, <1>2 DEF RowType, NoRow
  <2> HIDE DEF q
  <2> QED
    BY <1>6, <2>1, <2>2 DEF Proper, Stands
<1> QED
  BY <1>4, <1>5, <1>6

\* And the end of transient failures.
LEMMA RecoveredStands ==
    ASSUME NEW r, Proper(r)
    PROVE  /\ Proper(Recovered(r)) /\ Stands(r, Recovered(r))
           /\ Recovered(r).disabled => r.disabled
<1>1. CASE Recovered(r) = r
  BY <1>1 DEF Stands, Proper, RowType
<1>2. CASE r.reason = "transient" /\ Recovered(r) = NoRow
  BY <1>2, NoRowProper DEF Stands, Holds, Proper, NoRow
<1>3. CASE Recovered(r) = [r EXCEPT !.attempt = 0]
  <2>1. 0 \in 0..Len(Delays)
    BY DelayType
  <2> DEFINE q == [r EXCEPT !.attempt = 0]
  <2>2. /\ q \in RowType /\ q.disabled = r.disabled /\ q.reason = r.reason
        /\ q.spare = r.spare /\ q.left = r.left
    BY <2>1 DEF Proper, RowType
  <2> HIDE DEF q
  <2> QED
    BY <1>3, <2>2 DEF q, Proper, RowType, Stands, Holds
<1> QED
  BY <1>1, <1>2, <1>3 DEF Recovered

-----------------------------------------------------------------------------
(* What an answer does to the rows *)

LEMMA RowsSame ==
    ASSUME NEW rows, ProperRows(rows)
    PROVE  RowsStand(rows, rows) /\ NoneDisabled(rows, rows)
BY DEF ProperRows, RowsStand, NoneDisabled, Stands, Proper, RowType

LEMMA RowsUpdated ==
    ASSUME NEW rows, ProperRows(rows), NEW op \in Scopes, NEW new, Proper(new),
           Stands(rows[op], new), NEW next, next = [rows EXCEPT ![op] = new]
    PROVE  /\ RowsStand(rows, next)
           /\ (new.disabled => rows[op].disabled) => NoneDisabled(rows, next)
<1>1. next \in [Scopes -> RowType] /\ next[op] = new /\ \A s \in Scopes \ {op} : next[s] = rows[s]
  BY DEF ProperRows, Proper
<1>2. RowsStand(rows, next)
  BY <1>1, RowsSame DEF RowsStand, ProperRows
<1>3. (new.disabled => rows[op].disabled) => NoneDisabled(rows, next)
  BY <1>1 DEF NoneDisabled
<1> QED
  BY <1>2, <1>3

LEMMA StandsTransitive ==
    ASSUME NEW rows, NEW mid, NEW new, ProperRows(rows), RowsStand(rows, mid), RowsStand(mid, new)
    PROVE  /\ RowsStand(rows, new)
           /\ NoneDisabled(rows, mid) /\ NoneDisabled(mid, new) => NoneDisabled(rows, new)
<1>1. ASSUME NEW s \in Scopes PROVE Stands(rows[s], new[s])
  <2>1. rows[s].left \in Int /\ mid[s].left \in Int /\ new[s].left \in Int
    BY DEF RowsStand, ProperRows, RowType
  <2>2. Stands(rows[s], mid[s]) /\ Stands(mid[s], new[s])
    BY DEF RowsStand
  <2> QED
    BY <2>1, <2>2 DEF Stands
<1> QED
  BY <1>1 DEF RowsStand, NoneDisabled

LEMMA FallbackType == ASSUME NEW kind PROVE FallbackReset(kind) \in Nat
BY DEF FallbackReset

LEMMA TransientRows ==
    ASSUME NEW rows, ProperRows(rows), NEW op \in Scopes, NEW reset \in Nat,
           NEW next, next = [rows EXCEPT ![op] = Transient(@, reset)]
    PROVE  RowsStand(rows, next) /\ NoneDisabled(rows, next)
<1> DEFINE new == Transient(rows[op], reset)
<1>1. Proper(new) /\ Stands(rows[op], new) /\ (new.disabled => rows[op].disabled)
  BY TransientStands DEF ProperRows
<1>2. next = [rows EXCEPT ![op] = new]
  OBVIOUS
<1> HIDE DEF new
<1> QED
  BY <1>1, <1>2, RowsUpdated

LEMMA RecoveredRows ==
    ASSUME NEW rows, ProperRows(rows), NEW op \in Scopes,
           NEW next, next = [rows EXCEPT ![op] = Recovered(@)]
    PROVE  RowsStand(rows, next) /\ NoneDisabled(rows, next)
<1> DEFINE new == Recovered(rows[op])
<1>1. Proper(new) /\ Stands(rows[op], new) /\ (new.disabled => rows[op].disabled)
  BY RecoveredStands DEF ProperRows
<1>2. next = [rows EXCEPT ![op] = new]
  OBVIOUS
<1> HIDE DEF new
<1> QED
  BY <1>1, <1>2, RowsUpdated

LEMMA PersistRows ==
    ASSUME NEW rows, ProperRows(rows), NEW op \in Scopes, NEW wanted \in Wanted,
           wanted.disabled <=> wanted.reason = "rejected",
           NEW next, next = [rows EXCEPT ![op] = Persist(@, wanted)]
    PROVE  RowsStand(rows, next) /\ (~wanted.disabled => NoneDisabled(rows, next))
<1> DEFINE new == Persist(rows[op], wanted)
<1>1. Proper(new) /\ Stands(rows[op], new)
        /\ (~wanted.disabled => (new.disabled => rows[op].disabled))
  BY PersistStands DEF ProperRows
<1>2. next = [rows EXCEPT ![op] = new]
  OBVIOUS
<1> HIDE DEF new
<1> QED
  BY <1>1, <1>2, RowsUpdated

LEMMA CooldownStands ==
    ASSUME NEW rows, ProperRows(rows), NEW scope \in Scopes, NEW kind, NEW reset \in Nat
    PROVE  /\ RowsStand(rows, Cooldown(rows, scope, kind, reset))
           /\ NoneDisabled(rows, Cooldown(rows, scope, kind, reset))
<1> DEFINE fallback == IF reset > 0 THEN reset ELSE FallbackReset(kind)
           new == Limit(Larger(fallback, 1))
<1>1. Larger(fallback, 1) \in Nat
  BY FallbackType DEF Larger
<1> HIDE DEF fallback
<1>2. new \in Wanted /\ ~new.disabled /\ new.reason = "limit"
  BY <1>1, LimitWanted
<1> HIDE DEF new
<1>3. Cooldown(rows, scope, kind, reset) = [rows EXCEPT ![scope] = Persist(@, new)]
  BY DEF Cooldown, new, fallback
<1> QED
  BY <1>2, <1>3, PersistRows

LEMMA DisableStands ==
    ASSUME NEW rows, ProperRows(rows)
    PROVE  RowsStand(rows, DisableAuthentication(rows))
<1>1. "auth" \in Scopes
  BY DEF Scopes
<1> QED
  BY <1>1, LimitWanted, PersistRows DEF DisableAuthentication

\* The transport's reading of an answer shortens no limit and disables nothing.
LEMMA ReceivedStands ==
    ASSUME NEW rows, ProperRows(rows), NEW op \in Scopes, NEW a \in ReplyType
    PROVE  RowsStand(rows, Received(rows, op, a)) /\ NoneDisabled(rows, Received(rows, op, a))
<1> DEFINE w == a.window
           limit == IF w.found /\ w.reset > 0 THEN w.reset ELSE FallbackReset("rate")
           brief == a.status = "ok" /\ ~w.spare /\ w.reset = 0
           noted == IF w.found /\ ~brief THEN [rows EXCEPT ![op] = Persist(@, Window(w))] ELSE rows
<1>1. w \in WindowType /\ w.reset \in Nat
  BY DEF ReplyType, WindowType
<1> HIDE DEF w
<1>2. limit \in Nat
  BY <1>1, FallbackType
<1>3. Proper(rows[op])
  BY DEF ProperRows
<1>4. RowsStand(rows, noted) /\ NoneDisabled(rows, noted)
  BY <1>1, LimitWanted, PersistRows, RowsSame
<1>5. Received(rows, op, a) =
        CASE a.status = "5xx" ->
                [rows EXCEPT ![op] = Transient(@, IF w.spare THEN 0 ELSE w.reset)]
          [] a.status = "429" ->
                IF limit = 0 THEN rows ELSE [rows EXCEPT ![op] = Persist(@, Limit(limit))]
          [] a.status \in {"ok", "401", "403"} -> noted
          [] OTHER -> [noted EXCEPT ![op] = Recovered(@)]
  BY DEF Received, w
<1> HIDE DEF limit, brief, noted
<1>6. CASE a.status = "5xx"
  <2> DEFINE reset == IF w.spare THEN 0 ELSE w.reset
  <2>1. reset \in Nat
    BY <1>1
  <2>2. Received(rows, op, a) = [rows EXCEPT ![op] = Transient(@, reset)]
    BY <1>5, <1>6
  <2> HIDE DEF reset
  <2> QED
    BY <2>1, <2>2, TransientRows
<1>7. CASE a.status = "429"
  BY <1>2, <1>5, <1>7, LimitWanted, PersistRows, RowsSame
<1>8. CASE a.status \in {"ok", "401", "403"}
  BY <1>4, <1>5, <1>8
<1>9. CASE a.status \notin {"5xx", "429", "ok", "401", "403"}
  BY <1>4, <1>5, <1>9, RecoveredRows, StandsTransitive DEF RowsStand
<1> QED
  BY <1>6, <1>7, <1>8, <1>9

\* Nor does a client's, which disables the provider for rejected credentials
\* only.
LEMMA ReadStands ==
    ASSUME NEW rows, ProperRows(rows), NEW op \in Scopes, NEW a \in ReplyType,
           NEW last \in BOOLEAN, client \in Adapters
    PROVE  /\ RowsStand(rows, Read(rows, op, a, last))
           /\ ~Disables(op, a, last) => NoneDisabled(rows, Read(rows, op, a, last))
<1> DEFINE reset == IF a.window.spare THEN 0 ELSE a.window.reset
           told == IF a.status = "429" THEN a.window.reset ELSE 0
<1>1. reset \in Nat /\ told \in Nat
  BY DEF ReplyType, WindowType
<1>2. "all" \in Scopes /\ 0 \in Nat
  BY DEF Scopes
<1>3. CASE client = "opensubtitles"
  <2>1. Read(rows, op, a, last) =
          IF Disables(op, a, last) THEN DisableAuthentication(rows)
          ELSE IF op = "download" /\ (a.status = "406" \/ a.message = "quota")
          THEN Cooldown(rows, op, "quota", reset)
          ELSE rows
    BY <1>3 DEF Read, OpenSubtitles, Disables
  <2> HIDE DEF reset
  <2> QED
    BY <1>1, <2>1, DisableStands, CooldownStands, RowsSame
<1>4. CASE client = "titlovi"
  BY <1>4, DisableStands, RowsSame DEF Read, Titlovi, Disables
<1>5. CASE client = "subdl"
  <2>1. Read(rows, op, a, last) =
          IF a.message \in Limits THEN Cooldown(rows, op, a.message, told)
          ELSE IF Disables(op, a, last) THEN DisableAuthentication(rows)
          ELSE IF a.status \in {"401", "403"} /\ a.message # "elsewhere"
          THEN [rows EXCEPT ![op] = Transient(@, 0)]
          ELSE rows
    BY <1>5 DEF Read, SubDL, Disables
  <2> HIDE DEF told
  <2> QED
    BY <1>1, <1>2, <2>1, DisableStands, CooldownStands, TransientRows, RowsSame
<1>6. CASE client = "subsource"
  BY <1>2, <1>6, DisableStands, CooldownStands, RowsSame DEF Read, SubSource, Disables
<1>7. CASE client = "gestdown"
  BY <1>2, <1>7, CooldownStands, RowsSame DEF Read, Gestdown
<1> QED
  BY <1>3, <1>4, <1>5, <1>6, <1>7 DEF Adapters

-----------------------------------------------------------------------------
(* Answers *)

LEMMA WindowsType == Windows \subseteq WindowType /\ NoWindow \in WindowType
<1>1. NoWindow \in WindowType /\ [found |-> TRUE, spare |-> TRUE, reset |-> 1] \in WindowType
  BY DEF WindowType, NoWindow
<1>2. ASSUME NEW t \in Resets PROVE [found |-> TRUE, spare |-> FALSE, reset |-> t] \in WindowType
  <2>1. t \in Nat
    BY GateAssumption
  <2> QED
    BY <2>1 DEF WindowType
<1> QED
  BY <1>1, <1>2 DEF Windows

LEMMA PlainType == Plain \in ReplyType /\ Idle \in CallType
BY WindowsType DEF Plain, Reply, ReplyType, Idle, CallType

\* Where the answers come from: the reply of a request that is accepted, a
\* failure, a limit, or a refusal that names its cause.
LEMMA AnswerSources ==
    ASSUME NEW c \in Calls, NEW a \in Answers(c)
    PROVE  /\ a \in ReplyType
           /\ a.status \in {"401", "403"} =>
                IF client = "subdl"
                THEN a.message \in Limits \cup {"other", "elsewhere"} \cup (IF valid THEN {} ELSE {"none", "key"})
                ELSE \/ client = "opensubtitles" /\ a.status = "403"
                     \/ /\ a.status = "401"
                        /\ IF call[c].op = "auth" THEN ~valid
                           ELSE IF call[c].token # None THEN ~valid \/ call[c].token = "dead"
                           ELSE IF client = "subsource" THEN ~valid
                           ELSE call[c].op # "search"
<1> DEFINE op == call[c].op
           mine == CASE client = "subdl" -> Limits \cup {"other"}
                     [] client = "opensubtitles" /\ op = "download" -> {"none", "quota"}
                     [] OTHER -> {"none"}
           key == IF valid THEN {} ELSE {"none", "key"}
           denied == IF op = "auth" THEN ~valid
                     ELSE IF call[c].token # None THEN ~valid \/ call[c].token = "dead"
                     ELSE IF client = "subsource" THEN ~valid
                     ELSE op # "search"
<1>1. mine \subseteq Limits \cup {"none", "other"} /\ (client = "subdl" => mine = Limits \cup {"other"})
  BY DEF Limits
<1>2. key \subseteq {"none", "key"}
  OBVIOUS
<1>3. \/ \E w \in Windows : a = Reply("ok", w, "none")
      \/ a \in Failures
      \/ \E w \in Windows, m \in mine : a = Reply("429", w, m)
      \/ client = "subdl" /\ \E st \in {"401", "403"}, m \in mine \cup key : a = Reply(st, NoWindow, m)
      \/ \E m \in Limits : a = Reply("ok", NoWindow, m)
      \/ client = "subdl" /\ a = Reply("401", NoWindow, "elsewhere")
      \/ client # "subdl" /\ denied /\ a = Reply("401", NoWindow, "none")
      \/ a = Reply("406", NoWindow, "none")
      \/ a = Reply("ok", NoWindow, "quota")
      \/ client = "opensubtitles" /\ \E m \in mine : a = Reply("403", NoWindow, m)
  <2> DEFINE accepted == IF op = "auth" THEN valid ELSE call[c].token # "dead"
             A1 == IF accepted THEN {Reply("ok", w, "none") : w \in Windows} ELSE {}
             A2 == {Reply("429", w, m) : w \in Windows, m \in mine}
             A3 == IF client = "subdl"
                   THEN {Reply(st, NoWindow, m) : st \in {"401", "403"}, m \in mine \cup key}
                        \cup {Reply("ok", NoWindow, m) : m \in IF op = "search" THEN Limits ELSE {}}
                        \cup (IF op = "download" THEN {Reply("401", NoWindow, "elsewhere")} ELSE {})
                   ELSE IF denied THEN {Reply("401", NoWindow, "none")} ELSE {}
             A4 == IF client = "opensubtitles" /\ op = "download"
                   THEN {Reply("406", NoWindow, "none"), Reply("ok", NoWindow, "quota")}
                        \cup {Reply("403", NoWindow, m) : m \in mine}
                   ELSE {}
  <2>1. Answers(c) = A1 \cup Failures \cup A2 \cup A3 \cup A4
    BY DEF Answers
  <2> HIDE DEF mine, key, denied, accepted, op
  <2>2. a \in A1 => \E w \in Windows : a = Reply("ok", w, "none")
    OBVIOUS
  <2>3. a \in A2 => \E w \in Windows, m \in mine : a = Reply("429", w, m)
    OBVIOUS
  <2>4. a \in A3 =>
          \/ client = "subdl" /\ \E st \in {"401", "403"}, m \in mine \cup key : a = Reply(st, NoWindow, m)
          \/ \E m \in Limits : a = Reply("ok", NoWindow, m)
          \/ client = "subdl" /\ a = Reply("401", NoWindow, "elsewhere")
          \/ client # "subdl" /\ denied /\ a = Reply("401", NoWindow, "none")
    OBVIOUS
  <2>5. a \in A4 =>
          \/ a = Reply("406", NoWindow, "none") \/ a = Reply("ok", NoWindow, "quota")
          \/ client = "opensubtitles" /\ \E m \in mine : a = Reply("403", NoWindow, m)
    OBVIOUS
  <2> HIDE DEF A1, A2, A3, A4
  <2> QED
    BY <2>1, <2>2, <2>3, <2>4, <2>5, Zenon
<1> HIDE DEF mine, key, denied
<1> USE DEF Reply, ReplyType
<1>4. CASE \E w \in Windows : a = Reply("ok", w, "none")
  BY <1>4, WindowsType
<1>5. CASE a \in Failures
  BY <1>5, WindowsType DEF Failures
<1>6. CASE \E w \in Windows, m \in mine : a = Reply("429", w, m)
  <2>1. PICK w \in Windows, m \in mine : a = Reply("429", w, m)
    BY <1>6
  <2>2. w \in WindowType /\ m \in {"none", "other", "quota", "busy", "rate"}
    BY <1>1, WindowsType DEF Limits
  <2> QED
    BY <2>1, <2>2
<1>7. CASE client = "subdl" /\ \E st \in {"401", "403"}, m \in mine \cup key : a = Reply(st, NoWindow, m)
  BY <1>1, <1>2, <1>7, WindowsType DEF Limits, key
<1>8. CASE \E m \in Limits : a = Reply("ok", NoWindow, m)
  BY <1>8, WindowsType DEF Limits
<1>9. CASE client = "subdl" /\ a = Reply("401", NoWindow, "elsewhere")
  BY <1>9, WindowsType
<1>10. CASE client # "subdl" /\ denied /\ a = Reply("401", NoWindow, "none")
  BY <1>10, WindowsType DEF denied, op
<1>11. CASE a = Reply("406", NoWindow, "none") \/ a = Reply("ok", NoWindow, "quota")
  BY <1>11, WindowsType
<1>12. CASE client = "opensubtitles" /\ \E m \in mine : a = Reply("403", NoWindow, m)
  <2>1. PICK m \in mine : a = Reply("403", NoWindow, m)
    BY <1>12
  <2>2. m \in {"none", "other", "quota", "busy", "rate"}
    BY <1>1 DEF Limits
  <2> QED
    BY <1>12, <2>1, <2>2, WindowsType
<1> QED
  BY <1>3, <1>4, <1>5, <1>6, <1>7, <1>8, <1>9, <1>10, <1>11, <1>12

\* Working credentials are never answered with what reads as their rejection.
LEMMA AnswerUnharmed ==
    ASSUME NEW c \in Calls, NEW a \in Answers(c), valid, client \in Adapters,
           call[c] \in CallType, Sound(call[c]), call[c].pc = "sent"
    PROVE  ~Disables(call[c].op, a, ~call[c].refresh)
<1>1. CASE client = "opensubtitles"
  BY <1>1, AnswerSources DEF Disables, Sound, Session, CallType
<1>2. CASE client = "titlovi"
  BY <1>2, AnswerSources DEF Disables, Sound, Session, CallType
<1>3. CASE client = "subdl"
  BY <1>3, AnswerSources DEF Disables, Limits
<1>4. CASE client = "subsource"
  BY <1>4, AnswerSources DEF Disables, Sound, Session, CallType
<1>5. CASE client = "gestdown"
  BY <1>5 DEF Disables
<1> QED
  BY <1>1, <1>2, <1>3, <1>4, <1>5 DEF Adapters

-----------------------------------------------------------------------------
(* Permits *)

\* Two finite sets that differ at most in c.
LEMMA Recount ==
    ASSUME NEW A, NEW B, NEW c, IsFiniteSet(A), \A x : x # c => (x \in A <=> x \in B)
    PROVE  /\ Cardinality(A) \in Nat /\ Cardinality(B) \in Nat
           /\ Cardinality(B) = Cardinality(A) + (IF c \in B THEN 1 ELSE 0) - (IF c \in A THEN 1 ELSE 0)
<1>1. Cardinality(A) \in Nat
  BY FS_CardinalityType
<1>2. CASE c \in A <=> c \in B
  <2>1. A = B
    BY <1>2
  <2> QED
    BY <1>1, <1>2, <2>1
<1>3. CASE c \in B /\ c \notin A
  <2>1. B = A \cup {c}
    BY <1>3
  <2> QED
    BY <1>1, <1>3, <2>1, FS_AddElement
<1>4. CASE c \in A /\ c \notin B
  <2>1. B = A \ {c}
    BY <1>4
  <2>2. Cardinality(B) = Cardinality(A) - 1 /\ IsFiniteSet(B)
    BY <1>4, <2>1, FS_RemoveElement
  <2>3. Cardinality(B) \in Nat
    BY <2>2, FS_CardinalityType
  <2> QED
    BY <1>1, <1>4, <2>2, <2>3
<1> QED
  BY <1>2, <1>3, <1>4

Bit(b) == IF b THEN 1 ELSE 0

\* What a step of call c does: the call becomes k, and the permits follow.
CallStep(c, k) ==
    /\ call' = [call EXCEPT ![c] = k]
    /\ k \in CallType /\ Sound(k) /\ Unharmed(k)
    /\ instance' = instance + Bit(InstanceHeld(k)) - Bit(InstanceHeld(call[c]))
    /\ shared' = shared + Bit(SharedHeld(k)) - Bit(SharedHeld(call[c]))
    /\ instance' <= MaxConcurrent /\ shared' <= SharedMax
    /\ client' = client /\ valid' = valid
    /\ token' \in {None, "live", "dead"} /\ mu' \in Calls \cup {None} /\ flight' \in Calls \cup {None}

LEMMA CallStepKeeps ==
    ASSUME RestType, CallsInv, PermitsInv, NEW c \in Calls, NEW k, CallStep(c, k)
    PROVE  RestType' /\ CallsInv' /\ PermitsInv'
<1>1. call' \in [Calls -> CallType] /\ call'[c] = k /\ \A x \in Calls \ {c} : call'[x] = call[x]
  BY DEF CallStep, CallsInv
<1>2. CallsInv'
  <2>1. ASSUME NEW x \in Calls PROVE Sound(call[x])' /\ Unharmed(call[x])'
    <3>1. PICK q : q = call'[x] /\ Sound(q) /\ Unharmed(q)
      BY <1>1 DEF CallStep, CallsInv
    <3>2. client' = client /\ valid' = valid
      BY DEF CallStep
    <3> QED
      BY <3>1, <3>2 DEF Sound, Unharmed, Session, Disables
  <2> QED
    BY <1>1, <2>1 DEF CallsInv
<1>3. RestType'
  BY DEF CallStep, RestType
<1>4. PermitsInv'
  <2> DEFINE I == {x \in Calls : InstanceHeld(call[x])}
             J == {x \in Calls : InstanceHeld(call'[x])}
             S == {x \in Calls : SharedHeld(call[x])}
             T == {x \in Calls : SharedHeld(call'[x])}
  <2>1. IsFiniteSet(I) /\ IsFiniteSet(S)
    BY GateAssumption, FS_Subset
  <2>2. (\A x : x # c => (x \in I <=> x \in J)) /\ (\A x : x # c => (x \in S <=> x \in T))
    BY <1>1
  <2>3. /\ c \in I <=> InstanceHeld(call[c])
        /\ c \in J <=> InstanceHeld(k)
        /\ c \in S <=> SharedHeld(call[c])
        /\ c \in T <=> SharedHeld(k)
    BY <1>1
  <2>4. instance = Cardinality(I) /\ shared = Cardinality(S)
    BY DEF PermitsInv
  <2> HIDE DEF I, J, S, T
  <2>5. instance' = Cardinality(J) /\ shared' = Cardinality(T)
    BY <2>1, <2>2, <2>3, <2>4, Recount DEF CallStep, Bit
  <2> QED
    BY <2>5 DEF PermitsInv, CallStep, J, T, InstanceHeld, SharedHeld
<1> QED
  BY <1>2, <1>3, <1>4

LEMMA PermitsType ==
    ASSUME PermitsInv
    PROVE  instance \in 0..MaxConcurrent /\ shared \in 0..SharedMax
<1>1. /\ IsFiniteSet({c \in Calls : InstanceHeld(call[c])})
      /\ IsFiniteSet({c \in Calls : SharedHeld(call[c])})
  BY GateAssumption, FS_Subset
<1>2. instance \in Nat /\ shared \in Nat
  BY <1>1, FS_CardinalityType DEF PermitsInv
<1> QED
  BY <1>2, GateAssumption DEF PermitsInv

-----------------------------------------------------------------------------
(* The steps of a call *)

LEMMA IdleSound == Idle \in CallType /\ Sound(Idle) /\ Unharmed(Idle)
BY PlainType DEF Sound, Unharmed, Idle

\* A call that returns gives back the permits it holds.
LEMMA ReturnsStep ==
    ASSUME RestType, PermitsInv, NEW c \in Calls, NEW i, NEW s, Returns(c, i, s),
           i = Bit(InstanceHeld(call[c])), s = Bit(SharedHeld(call[c])),
           client' = client, valid' = valid, token' \in {None, "live", "dead"}
    PROVE  CallStep(c, Idle)
<1>1. ~InstanceHeld(Idle) /\ ~SharedHeld(Idle)
  BY DEF InstanceHeld, SharedHeld, Idle
<1>2. i \in {0, 1} /\ s \in {0, 1} /\ Bit(FALSE) = 0
  BY DEF Bit
<1>3. instance \in 0..MaxConcurrent /\ shared \in 0..SharedMax
  BY PermitsType
<1>4. instance' = instance - i /\ shared' = shared - s
  BY DEF Returns
<1>5. instance' <= MaxConcurrent /\ shared' <= SharedMax
  BY <1>2, <1>3, <1>4, GateAssumption
<1>6. /\ instance' = instance + Bit(InstanceHeld(Idle)) - Bit(InstanceHeld(call[c]))
      /\ shared' = shared + Bit(SharedHeld(Idle)) - Bit(SharedHeld(call[c]))
  BY <1>1, <1>2, <1>3, <1>4 DEF Bit
<1>7. mu' \in Calls \cup {None} /\ flight' \in Calls \cup {None}
  BY DEF Returns, RestType
<1> QED
  BY <1>5, <1>6, <1>7, IdleSound DEF CallStep, Returns

\* A step that only moves call c on, from one place without permits to another.
LEMMA MovesStep ==
    ASSUME RestType, CallsInv, PermitsInv, NEW c \in Calls, NEW k, k \in CallType, Sound(k),
           Unharmed(k), call' = [call EXCEPT ![c] = k],
           InstanceHeld(k) <=> InstanceHeld(call[c]), SharedHeld(k) <=> SharedHeld(call[c]),
           mu' \in Calls \cup {None}, flight' \in Calls \cup {None},
           UNCHANGED <<client, valid, token, instance, shared>>
    PROVE  CallStep(c, k)
BY PermitsType, GateAssumption DEF CallStep, RestType, Bit

LEMMA StartStep ==
    ASSUME RestType, CallsInv, PermitsInv, NEW c \in Calls, NEW task \in {"search", "download"},
           Start(c, task)
    PROVE  \E k : CallStep(c, k)
<1> DEFINE pc == IF Session(task) THEN "login" ELSE IF Cached(task) THEN "load" ELSE "check"
           k == [Idle EXCEPT !.task = task, !.op = task, !.pc = pc]
<1>1. /\ pc \in {"login", "load", "check"} /\ (pc = "login" <=> Session(task))
  OBVIOUS
<1> HIDE DEF pc
<1>2. /\ k \in CallType /\ k.pc = pc /\ k.task = task /\ k.op = task /\ k.refresh = TRUE
      /\ k.token = None
  BY <1>1, PlainType DEF CallType, Idle
<1>3. call' = [call EXCEPT ![c] = k]
  BY DEF Start, pc
<1> HIDE DEF k
<1>4. Sound(k) /\ Unharmed(k)
  BY <1>1, <1>2 DEF Sound, Unharmed
<1>5. ~InstanceHeld(k) /\ ~SharedHeld(k) /\ ~InstanceHeld(call[c]) /\ ~SharedHeld(call[c])
  BY <1>1, <1>2 DEF InstanceHeld, SharedHeld, Start
<1>6. UNCHANGED <<client, valid, token, mu, flight, instance, shared>>
  BY DEF Start, Rest
<1>7. CallStep(c, k)
  BY <1>2, <1>3, <1>4, <1>5, <1>6, MovesStep DEF RestType
<1> QED
  BY <1>7

LEMMA LoadStep ==
    ASSUME RestType, CallsInv, PermitsInv, NEW c \in Calls, Load(c)
    PROVE  \E k : CallStep(c, k)
<1>1. ~InstanceHeld(call[c]) /\ ~SharedHeld(call[c])
  BY DEF Load, InstanceHeld, SharedHeld
<1>2. CASE cached /\ Returns(c, 0, 0)
  BY <1>1, <1>2, ReturnsStep DEF Load, Rest, RestType, Bit
<1>3. CASE ~cached /\ flight' = c /\ call' = [call EXCEPT ![c].pc = "check"] /\ UNCHANGED <<mu, instance, shared>>
  <2> DEFINE k == [call[c] EXCEPT !.pc = "check"]
  <2>1. call[c] \in CallType /\ Sound(call[c]) /\ call[c].pc = "load"
    BY DEF CallsInv, Load
  <2>2. /\ k \in CallType /\ k.pc = "check" /\ k.task = call[c].task /\ k.op = call[c].op
        /\ k.refresh = call[c].refresh /\ k.token = call[c].token
    BY <2>1 DEF CallType
  <2>3. call' = [call EXCEPT ![c] = k]
    BY <1>3
  <2> HIDE DEF k
  <2>4. Sound(k) /\ Unharmed(k) /\ ~InstanceHeld(k) /\ ~SharedHeld(k)
    BY <2>1, <2>2 DEF Sound, Unharmed, InstanceHeld, SharedHeld
  <2>5. UNCHANGED <<client, valid, token, mu, instance, shared>> /\ flight' = c
    BY <1>3 DEF Load, Rest
  <2>6. CallStep(c, k)
    BY <1>1, <2>2, <2>3, <2>4, <2>5, MovesStep DEF RestType
  <2> QED
    BY <2>6
<1> QED
  BY <1>2, <1>3 DEF Load

LEMMA LoginStep ==
    ASSUME RestType, CallsInv, PermitsInv, NEW c \in Calls, Login(c)
    PROVE  \E k : CallStep(c, k)
<1>1. call[c] \in CallType /\ Sound(call[c]) /\ call[c].pc = "login"
  BY DEF CallsInv, Login
<1>2. ~InstanceHeld(call[c]) /\ ~SharedHeld(call[c])
  BY <1>1 DEF InstanceHeld, SharedHeld
<1>3. CASE MustLogin(c)
  <2> DEFINE k == [call[c] EXCEPT !.pc = "check", !.op = "auth"]
  <2>2. /\ k \in CallType /\ k.pc = "check" /\ k.task = call[c].task /\ k.op = "auth"
        /\ k.refresh = call[c].refresh /\ k.token = call[c].token
    BY <1>1 DEF CallType
  <2>3. call' = [call EXCEPT ![c] = k]
    BY <1>3 DEF Login
  <2> HIDE DEF k
  <2>4. Sound(k) /\ Unharmed(k) /\ ~InstanceHeld(k) /\ ~SharedHeld(k)
    BY <1>1, <2>2 DEF Sound, Unharmed, InstanceHeld, SharedHeld
  <2>5. UNCHANGED <<client, valid, token, flight, instance, shared>> /\ mu' \in {c, mu}
    BY DEF Login, Rest
  <2>6. CallStep(c, k)
    BY <1>2, <2>2, <2>3, <2>4, <2>5, MovesStep DEF RestType
  <2> QED
    BY <2>6
<1>4. CASE ~MustLogin(c)
  <2> DEFINE k == [call[c] EXCEPT !.pc = "check", !.token = token]
  <2>1. token \in {"live", "dead"} /\ token # None /\ call[c].refresh
    BY <1>4, GateAssumption DEF MustLogin, RestType
  <2>2. /\ k \in CallType /\ k.pc = "check" /\ k.task = call[c].task /\ k.op = call[c].op
        /\ k.refresh = call[c].refresh /\ k.token = token
    BY <1>1, <2>1 DEF CallType
  <2>3. call' = [call EXCEPT ![c] = k]
    BY <1>4 DEF Login
  <2> HIDE DEF k
  <2>4. Sound(k) /\ Unharmed(k) /\ ~InstanceHeld(k) /\ ~SharedHeld(k)
    BY <1>1, <2>1, <2>2 DEF Sound, Unharmed, InstanceHeld, SharedHeld
  <2>5. UNCHANGED <<client, valid, token, flight, instance, shared>> /\ mu' \in {c, mu}
    BY DEF Login, Rest
  <2>6. CallStep(c, k)
    BY <1>2, <2>2, <2>3, <2>4, <2>5, MovesStep DEF RestType
  <2> QED
    BY <2>6
<1> QED
  BY <1>3, <1>4

\* Gate.Acquire, one step after the other.
LEMMA AcquireStep ==
    ASSUME RestType, CallsInv, PermitsInv, NEW c \in Calls,
           Check(c) \/ TakeInstance(c) \/ TakeShared(c)
    PROVE  \E k : CallStep(c, k)
<1>1. call[c] \in CallType /\ Sound(call[c])
  BY DEF CallsInv
<1>2. instance \in 0..MaxConcurrent /\ shared \in 0..SharedMax
  BY PermitsType
<1>3. ASSUME NEW pc \in {"wait", "slot", "sent"}, call[c].pc \in {"check", "wait", "slot"}
      PROVE  LET k == [call[c] EXCEPT !.pc = pc] IN
             k \in CallType /\ k.pc = pc /\ Sound(k) /\ Unharmed(k)
  <2> DEFINE k == [call[c] EXCEPT !.pc = pc]
  <2>1. /\ k \in CallType /\ k.pc = pc /\ k.task = call[c].task /\ k.op = call[c].op
        /\ k.refresh = call[c].refresh /\ k.token = call[c].token
    BY <1>1 DEF CallType
  <2> HIDE DEF k
  <2>2. Sound(k) /\ Unharmed(k)
    BY <1>1, <1>3, <2>1 DEF Sound, Unharmed
  <2> QED
    BY <2>1, <2>2 DEF k
<1>4. CASE Check(c) /\ Suspended(call[c].op)
  <2>1. ~InstanceHeld(call[c]) /\ ~SharedHeld(call[c])
    BY <1>4 DEF Check, InstanceHeld, SharedHeld
  <2> QED
    BY <1>4, <2>1, ReturnsStep DEF Check, Rest, RestType, Bit
<1>5. CASE Check(c) /\ ~Suspended(call[c].op)
  <2> DEFINE k == [call[c] EXCEPT !.pc = "wait"]
  <2>1. call[c].pc = "check" /\ call' = [call EXCEPT ![c] = k]
    BY <1>5 DEF Check
  <2>2. k \in CallType /\ k.pc = "wait" /\ Sound(k) /\ Unharmed(k)
    BY <1>3, <2>1
  <2> HIDE DEF k
  <2>3. ~InstanceHeld(call[c]) /\ ~SharedHeld(call[c]) /\ ~InstanceHeld(k) /\ ~SharedHeld(k)
    BY <2>1, <2>2 DEF InstanceHeld, SharedHeld
  <2>4. UNCHANGED <<client, valid, token, mu, flight, instance, shared>>
    BY <1>5 DEF Check, Rest
  <2>5. CallStep(c, k)
    BY <2>1, <2>2, <2>3, <2>4, MovesStep DEF RestType
  <2> QED
    BY <2>5
<1>6. CASE TakeInstance(c)
  <2> DEFINE k == [call[c] EXCEPT !.pc = "slot"]
  <2>1. call[c].pc = "wait" /\ call' = [call EXCEPT ![c] = k]
    BY <1>6 DEF TakeInstance
  <2>2. k \in CallType /\ k.pc = "slot" /\ Sound(k) /\ Unharmed(k)
    BY <1>3, <2>1
  <2> HIDE DEF k
  <2>3. ~InstanceHeld(call[c]) /\ ~SharedHeld(call[c]) /\ InstanceHeld(k) /\ ~SharedHeld(k)
    BY <2>1, <2>2 DEF InstanceHeld, SharedHeld
  <2>4. instance < MaxConcurrent /\ instance' = instance + 1 /\ shared' = shared
    BY <1>6 DEF TakeInstance
  <2>5. UNCHANGED <<client, valid, token, mu, flight>>
    BY <1>6 DEF TakeInstance, Rest
  <2>6. instance' <= MaxConcurrent /\ shared' <= SharedMax
    BY <1>2, <2>4, GateAssumption
  <2>7. CallStep(c, k)
    BY <1>2, <2>1, <2>2, <2>3, <2>4, <2>5, <2>6 DEF CallStep, RestType, Bit
  <2> QED
    BY <2>7
<1>7. CASE TakeShared(c) /\ Suspended(call[c].op)
  <2>1. InstanceHeld(call[c]) /\ ~SharedHeld(call[c])
    BY <1>7 DEF TakeShared, InstanceHeld, SharedHeld
  <2> QED
    BY <1>7, <2>1, ReturnsStep DEF TakeShared, Rest, RestType, Bit
<1>8. CASE TakeShared(c) /\ ~Suspended(call[c].op)
  <2> DEFINE k == [call[c] EXCEPT !.pc = "sent"]
  <2>1. call[c].pc = "slot" /\ call' = [call EXCEPT ![c] = k]
    BY <1>8 DEF TakeShared
  <2>2. k \in CallType /\ k.pc = "sent" /\ Sound(k) /\ Unharmed(k)
    BY <1>3, <2>1
  <2> HIDE DEF k
  <2>3. InstanceHeld(call[c]) /\ ~SharedHeld(call[c]) /\ InstanceHeld(k) /\ SharedHeld(k)
    BY <2>1, <2>2 DEF InstanceHeld, SharedHeld
  <2>4. shared < SharedMax /\ shared' = shared + 1 /\ instance' = instance
    BY <1>8 DEF TakeShared
  <2>5. UNCHANGED <<client, valid, token, mu, flight>>
    BY <1>8 DEF TakeShared, Rest
  <2>6. instance' <= MaxConcurrent /\ shared' <= SharedMax
    BY <1>2, <2>4, GateAssumption
  <2>7. CallStep(c, k)
    BY <1>2, <2>1, <2>2, <2>3, <2>4, <2>5, <2>6 DEF CallStep, RestType, Bit
  <2> QED
    BY <2>7
<1> QED
  BY <1>4, <1>5, <1>6, <1>7, <1>8

LEMMA CancelStep ==
    ASSUME RestType, PermitsInv, NEW c \in Calls, Cancel(c)
    PROVE  CallStep(c, Idle)
<1>1. CASE call[c].pc \in {"load", "wait"} /\ Returns(c, 0, 0)
  <2>1. ~InstanceHeld(call[c]) /\ ~SharedHeld(call[c])
    BY <1>1 DEF InstanceHeld, SharedHeld
  <2> QED
    BY <1>1, <2>1, ReturnsStep DEF Cancel, Rest, RestType, Bit
<1>2. CASE call[c].pc = "slot" /\ Returns(c, 1, 0)
  <2>1. InstanceHeld(call[c]) /\ ~SharedHeld(call[c])
    BY <1>2 DEF InstanceHeld, SharedHeld
  <2> QED
    BY <1>2, <2>1, ReturnsStep DEF Cancel, Rest, RestType, Bit
<1>3. CASE call[c].pc \in {"sent", "body"} /\ Returns(c, 1, 1)
  <2>1. InstanceHeld(call[c]) /\ SharedHeld(call[c])
    BY <1>3 DEF InstanceHeld, SharedHeld
  <2> QED
    BY <1>3, <2>1, ReturnsStep DEF Cancel, Rest, RestType, Bit
<1> QED
  BY <1>1, <1>2, <1>3 DEF Cancel

LEMMA JudgeStep ==
    ASSUME RestType, PermitsInv, NEW c \in Calls, call[c].pc = "judge", Returns(c, 0, 0),
           client' = client, valid' = valid, token' = token
    PROVE  CallStep(c, Idle)
<1>1. ~InstanceHeld(call[c]) /\ ~SharedHeld(call[c])
  BY DEF InstanceHeld, SharedHeld
<1> QED
  BY <1>1, ReturnsStep DEF RestType, Bit

\* An answer arrives: what it says of the rows, and what the call keeps of it.
LEMMA AnswerStep ==
    ASSUME RestType, ProperRows(row), CallsInv, PermitsInv, NEW c \in Calls,
           NEW a \in Answers(c), Answer(c, a)
    PROVE  /\ \E k : CallStep(c, k)
           /\ RowsStand(row, row') /\ NoneDisabled(row, row')
<1>1. call[c] \in CallType /\ Sound(call[c]) /\ call[c].pc = "sent"
  BY DEF CallsInv, Answer
<1>2. call[c].op \in Scopes /\ a \in ReplyType
  BY <1>1, AnswerSources DEF Sound, Scopes, CallType
<1>3. InstanceHeld(call[c]) /\ SharedHeld(call[c])
  BY <1>1 DEF InstanceHeld, SharedHeld
<1>4. CASE a.status \in {"network", "redirect"}
  <2>1. CallStep(c, Idle)
    BY <1>3, <1>4, ReturnsStep DEF Answer, RestType, Bit
  <2>2. row' = row \/ row' = [row EXCEPT ![call[c].op] = Transient(@, 0)]
    BY <1>4 DEF Answer
  <2> QED
    BY <1>2, <2>1, <2>2, RowsSame, TransientRows
<1>5. CASE a.status \notin {"network", "redirect"}
  <2> DEFINE k == [call[c] EXCEPT !.pc = "body", !.answer = a]
  <2>1. call' = [call EXCEPT ![c] = k] /\ row' = Received(row, call[c].op, a)
    BY <1>5 DEF Answer
  <2>2. /\ k \in CallType /\ k.pc = "body" /\ k.task = call[c].task /\ k.op = call[c].op
        /\ k.refresh = call[c].refresh /\ k.token = call[c].token /\ k.answer = a
    BY <1>1, <1>2 DEF CallType
  <2> HIDE DEF k
  <2>3. Sound(k)
    BY <1>1, <2>2 DEF Sound
  <2>4. Unharmed(k)
    BY <1>1, <2>2, AnswerUnharmed DEF Unharmed, RestType
  <2>5. InstanceHeld(k) /\ SharedHeld(k)
    BY <2>2 DEF InstanceHeld, SharedHeld
  <2>6. CallStep(c, k)
    BY <1>3, <1>5, <2>1, <2>2, <2>3, <2>4, <2>5, MovesStep DEF Answer, RestType
  <2> QED
    BY <1>2, <2>1, <2>6, ReceivedStands
<1> QED
  BY <1>4, <1>5

\* A step that closes the answer of call c, which returns its permits.
LEMMA ClosesStep ==
    ASSUME RestType, CallsInv, PermitsInv, NEW c \in Calls, call[c].pc = "body", NEW k, k \in CallType,
           Sound(k), k.pc \in {"login", "check", "judge"}, call' = [call EXCEPT ![c] = k],
           instance' = instance - 1, shared' = shared - 1,
           mu' \in Calls \cup {None}, flight' \in Calls \cup {None},
           client' = client, valid' = valid, token' \in {None, "live", "dead"}
    PROVE  CallStep(c, k)
<1>1. InstanceHeld(call[c]) /\ SharedHeld(call[c]) /\ ~InstanceHeld(k) /\ ~SharedHeld(k)
  BY DEF InstanceHeld, SharedHeld
<1>2. Unharmed(k)
  BY DEF Unharmed
<1> QED
  BY <1>1, <1>2, PermitsType, GateAssumption DEF CallStep, Bit

LEMMA ReadsStep ==
    ASSUME RestType, ProperRows(row), CallsInv, PermitsInv, NEW c \in Calls, Reads(c)
    PROVE  /\ \E k : CallStep(c, k)
           /\ RowsStand(row, row') /\ (valid => NoneDisabled(row, row'))
<1> DEFINE a == call[c].answer
           op == call[c].op
           task == call[c].task
           rows == IF a.status # "ok" THEN row
                   ELSE [row EXCEPT ![op] = IF a.message = "truncated" THEN Transient(@, 0) ELSE Recovered(@)]
           fine == a.status = "ok" /\ a.message \notin Limits \cup {"truncated"}
<1>1. call[c] \in CallType /\ Sound(call[c]) /\ Unharmed(call[c]) /\ call[c].pc = "body"
  BY DEF CallsInv, Reads
<1>2. op \in Scopes /\ a \in ReplyType /\ call[c].refresh \in BOOLEAN
  BY <1>1 DEF Sound, Scopes, CallType
<1>3. RowsStand(row, row') /\ (valid => NoneDisabled(row, row'))
  <2>1. RowsStand(row, rows) /\ NoneDisabled(row, rows)
    <3>1. CASE a.status # "ok"
      BY <3>1, RowsSame
    <3>2. CASE a.status = "ok" /\ a.message = "truncated"
      <4>1. rows = [row EXCEPT ![op] = Transient(@, 0)]
        BY <3>2
      <4> QED
        BY <1>2, <4>1, TransientRows
    <3>3. CASE a.status = "ok" /\ a.message # "truncated"
      <4>1. rows = [row EXCEPT ![op] = Recovered(@)]
        BY <3>3
      <4> QED
        BY <1>2, <4>1, RecoveredRows
    <3> QED
      BY <3>1, <3>2, <3>3
  <2>2. ProperRows(rows)
    BY <2>1 DEF RowsStand
  <2>3. row' = IF Refreshes(c) THEN rows ELSE Read(rows, op, a, ~call[c].refresh)
    BY DEF Reads
  <2>4. /\ RowsStand(rows, Read(rows, op, a, ~call[c].refresh))
        /\ valid => NoneDisabled(rows, Read(rows, op, a, ~call[c].refresh))
    BY <1>1, <1>2, <2>2, ReadStands DEF RestType, Unharmed
  <2> HIDE DEF rows, a, op
  <2> QED
    BY <2>1, <2>3, <2>4, StandsTransitive
<1>4. \E k : CallStep(c, k)
  <2>1. token' \in {None, "live", "dead"} /\ client' = client /\ valid' = valid
    BY DEF Reads, Rest, RestType
  <2>2. CASE LoginAgain(c) /\ Refreshes(c)
    <3> DEFINE k == [call[c] EXCEPT !.pc = "login", !.refresh = FALSE, !.answer = Plain]
    <3>1. call' = [call EXCEPT ![c] = k]
      BY <2>2 DEF LoginAgain
    <3>2. /\ k \in CallType /\ k.pc = "login" /\ k.task = task /\ k.op = op /\ k.token = call[c].token
      BY <1>1, PlainType DEF CallType
    <3> HIDE DEF k
    <3>3. Sound(k)
      BY <1>1, <2>2, <3>2 DEF Sound, Refreshes
    <3> QED
      BY <1>1, <2>1, <2>2, <3>1, <3>2, <3>3, ClosesStep DEF LoginAgain, RestType
  <2>3. CASE op = "auth" /\ GoesOn(c, task, TRUE)
    <3> DEFINE k == [call[c] EXCEPT !.pc = "check", !.op = task, !.answer = Plain, !.token = "live"]
    <3>1. call' = [call EXCEPT ![c] = k]
      BY <1>1, <2>3 DEF GoesOn, Sound
    <3>2. k \in CallType /\ k.pc = "check" /\ k.task = task /\ k.op = task /\ k.token = "live"
      BY <1>1, PlainType DEF CallType, Sound
    <3> HIDE DEF k
    <3>3. Sound(k)
      BY <1>1, <2>3, <3>2, GateAssumption DEF Sound
    <3> QED
      BY <1>1, <2>1, <2>3, <3>1, <3>2, <3>3, ClosesStep DEF GoesOn, RestType
  <2>4. CASE GoesOn(c, "transfer", FALSE)
    <3> DEFINE k == [call[c] EXCEPT !.pc = "check", !.op = "transfer", !.answer = Plain, !.token = None]
    <3>1. call' = [call EXCEPT ![c] = k]
      BY <2>4 DEF GoesOn
    <3>2. k \in CallType /\ k.pc = "check" /\ k.task = task /\ k.op = "transfer" /\ k.token = None
      BY <1>1, PlainType DEF CallType
    <3> HIDE DEF k
    <3>3. Sound(k)
      BY <1>1, <3>2 DEF Sound
    <3> QED
      BY <1>1, <2>1, <2>4, <3>1, <3>2, <3>3, ClosesStep DEF GoesOn, RestType
  <2>5. CASE /\ call' = [call EXCEPT ![c].pc = "judge", ![c].answer = Plain]
             /\ instance' = instance - 1 /\ shared' = shared - 1
             /\ UNCHANGED <<mu, flight>>
    <3> DEFINE k == [call[c] EXCEPT !.pc = "judge", !.answer = Plain]
    <3>1. call' = [call EXCEPT ![c] = k]
      BY <2>5
    <3>2. /\ k \in CallType /\ k.pc = "judge" /\ k.task = task /\ k.op = op /\ k.token = call[c].token
          /\ k.refresh = call[c].refresh
      BY <1>1, PlainType DEF CallType
    <3> HIDE DEF k
    <3>3. Sound(k)
      BY <1>1, <3>2 DEF Sound
    <3> QED
      BY <1>1, <2>1, <2>5, <3>1, <3>2, <3>3, ClosesStep DEF RestType
  <2>6. CASE Returns(c, 1, 1)
    <3>1. InstanceHeld(call[c]) /\ SharedHeld(call[c])
      BY <1>1 DEF InstanceHeld, SharedHeld
    <3> QED
      BY <2>1, <2>6, <3>1, ReturnsStep DEF Bit
  <2> QED
    BY <2>2, <2>3, <2>4, <2>5, <2>6 DEF Reads
<1> QED
  BY <1>3, <1>4

\* The file is not a subtitle: the ledger, and the pause when it is confirmed.
LEMMA MessageStep ==
    ASSUME RestType, ProperRows(row), PermitsInv, WitnessInv, NEW c \in Calls, NEW r \in Results,
           NEW kind, NEW explicit \in BOOLEAN, Message(c, r, kind, explicit)
    PROVE  /\ CallStep(c, Idle)
           /\ RowsStand(row, row') /\ NoneDisabled(row, row')
           /\ WitnessInv'
           /\ row' # row /\ <<witness', refused'>> # <<witness, refused>> =>
                \E x, y \in Results : x # y /\ refused'[x] <= RefusalWindow /\ refused'[y] <= RefusalWindow
<1>1. CallStep(c, Idle)
  BY JudgeStep DEF Message
<1>2. RowsStand(row, row') /\ NoneDisabled(row, row')
  <2> DEFINE reset == IF kind = "blocked" \/ (kind = "quota" /\ FallbackReset("quota") = 0) THEN 2 ELSE 0
  <2>1. reset \in Nat /\ "download" \in Scopes
    BY DEF Scopes
  <2>2. RefusalPause(row, kind) = Cooldown(row, "download", kind, reset)
    BY DEF RefusalPause
  <2> HIDE DEF reset
  <2>3. row' = row \/ row' = Cooldown(row, "download", kind, reset)
    BY <2>2 DEF Message
  <2> QED
    BY <2>1, <2>3, CooldownStands, RowsSame
<1>3. CASE explicit
  BY <1>1, <1>2, <1>3 DEF Message, WitnessInv
<1>4. CASE ~explicit
  <2>1. 0 \in 0..(RefusalWindow + 1) /\ 0 <= RefusalWindow
    BY GateAssumption
  <2>2. refused' = [refused EXCEPT ![r] = 0] /\ refused \in [Results -> 0..(RefusalWindow + 1)]
    BY <1>4 DEF Message, WitnessInv
  <2>3. /\ refused' \in [Results -> 0..(RefusalWindow + 1)] /\ refused'[r] = 0
        /\ \A x \in Results \ {r} : refused'[x] = refused[x]
    BY <2>1, <2>2
  <2>4. CASE Confirms(r)
    <3>1. witness' = None
      BY <1>4, <2>4 DEF Message
    <3>2. /\ witness.result \in Results \ {r} /\ witness.age \in 0..(RefusalWindow + 1)
          /\ refused[witness.result] <= witness.age /\ witness.age <= RefusalWindow
      BY <2>4 DEF WitnessInv, Confirms
    <3>3. refused'[witness.result] <= RefusalWindow
      BY <2>2, <2>3, <3>2, GateAssumption
    <3>4. \E x, y \in Results : x # y /\ refused'[x] <= RefusalWindow /\ refused'[y] <= RefusalWindow
      BY <2>1, <2>3, <3>2, <3>3
    <3> QED
      BY <1>1, <1>2, <2>3, <3>1, <3>4 DEF WitnessInv
  <2>5. CASE ~Confirms(r)
    <3>1. row' = row /\ witness' = [result |-> r, age |-> 0]
      BY <1>4, <2>5 DEF Message
    <3>2. /\ witness' \in [result : Results, age : 0..(RefusalWindow + 1)]
          /\ refused'[witness'.result] <= witness'.age
      BY <2>1, <2>3, <3>1
    <3> QED
      BY <1>1, <1>2, <2>3, <3>1, <3>2 DEF WitnessInv
  <2> QED
    BY <2>4, <2>5
<1> QED
  BY <1>3, <1>4

-----------------------------------------------------------------------------
(* Every step *)

\* A call's step keeps the invariant, a limit that holds and working credentials.
LEMMA WorksKeeps ==
    ASSUME ProvidersInv, NEW c \in Calls, Works(c)
    PROVE  /\ ProvidersInv'
           /\ RowsStand(row, row') /\ (valid => NoneDisabled(row, row'))
           /\ row' # row /\ <<witness', refused'>> # <<witness, refused>> =>
                \E x, y \in Results : x # y /\ refused'[x] <= RefusalWindow /\ refused'[y] <= RefusalWindow
<1> USE DEF ProvidersInv
<1>1. ASSUME \E k : CallStep(c, k), UNCHANGED <<witness, refused>>,
             RowsStand(row, row'), valid => NoneDisabled(row, row')
      PROVE  ProvidersInv' /\ <<witness', refused'>> = <<witness, refused>>
  BY <1>1, CallStepKeeps DEF WitnessInv, RowsStand, ProperRows, Proper, RowType
<1>2. ASSUME \E k : CallStep(c, k), UNCHANGED <<witness, refused>>, row' = row
      PROVE  ProvidersInv' /\ <<witness', refused'>> = <<witness, refused>>
               /\ RowsStand(row, row') /\ NoneDisabled(row, row')
  BY <1>1, <1>2, RowsSame
<1>3. CASE \E task \in {"search", "download"} : Start(c, task)
  BY <1>2, <1>3, StartStep DEF Start, Rest
<1>4. CASE Load(c)
  BY <1>2, <1>4, LoadStep DEF Load, Rest
<1>5. CASE Login(c)
  BY <1>2, <1>5, LoginStep DEF Login, Rest
<1>6. CASE Check(c) \/ TakeInstance(c) \/ TakeShared(c)
  BY <1>2, <1>6, AcquireStep DEF Check, TakeInstance, TakeShared, Rest
<1>7. CASE \E a \in Answers(c) : Answer(c, a)
  <2>1. PICK a \in Answers(c) : Answer(c, a)
    BY <1>7
  <2> QED
    BY <1>1, <2>1, AnswerStep DEF Answer
<1>8. CASE Reads(c)
  BY <1>1, <1>8, ReadsStep DEF Reads, Rest
<1>9. CASE Subtitle(c)
  BY <1>2, <1>9, JudgeStep DEF Subtitle, Rest
<1>10. CASE Cancel(c)
  BY <1>2, <1>10, CancelStep DEF Cancel, Rest
<1>11. CASE \E r \in Results, kind \in {"quota", "rate", "blocked"}, explicit \in BOOLEAN :
               Message(c, r, kind, explicit)
  <2>1. PICK r \in Results, kind \in {"quota", "rate", "blocked"}, explicit \in BOOLEAN :
               Message(c, r, kind, explicit)
    BY <1>11
  <2>2. /\ CallStep(c, Idle) /\ RowsStand(row, row') /\ NoneDisabled(row, row') /\ WitnessInv'
        /\ row' # row /\ <<witness', refused'>> # <<witness, refused>> =>
             \E x, y \in Results : x # y /\ refused'[x] <= RefusalWindow /\ refused'[y] <= RefusalWindow
    BY <2>1, MessageStep
  <2>3. RestType' /\ CallsInv' /\ PermitsInv' /\ ProperRows(row)'
    BY <2>2, CallStepKeeps DEF RowsStand, ProperRows, Proper, RowType
  <2> QED
    BY <2>2, <2>3
<1> QED
  BY <1>3, <1>4, <1>5, <1>6, <1>7, <1>8, <1>9, <1>10, <1>11 DEF Works, Proceeds

LEMMA TickKeeps ==
    ASSUME ProvidersInv, Tick
    PROVE  ProvidersInv' /\ NoneDisabled(row, row')
<1>1. ASSUME NEW s \in Scopes
      PROVE  row'[s] \in RowType /\ row'[s].disabled = row[s].disabled /\ row'[s].reason = row[s].reason
  <2>1. row[s] \in RowType
    BY DEF ProvidersInv, ProperRows
  <2> DEFINE left == IF row[s].left > 0 THEN row[s].left - 1 ELSE 0
  <2>2. left \in 0..MaxCooldown
    BY <2>1, GateAssumption DEF RowType
  <2>3. row'[s] = [row[s] EXCEPT !.left = left]
    BY DEF Tick
  <2> HIDE DEF left
  <2> QED
    BY <2>1, <2>2, <2>3 DEF RowType
<1>2. row' \in [Scopes -> RowType]
  <2>1. row' = [s \in Scopes |-> row'[s]]
    BY DEF Tick
  <2> QED
    BY <1>1, <2>1
<1>3. ProperRows(row)' /\ NoneDisabled(row, row')
  BY <1>1, <1>2 DEF ProvidersInv, ProperRows, Proper, NoneDisabled, RowType
<1>4. RestType' /\ CallsInv' /\ PermitsInv'
  BY DEF Tick, ProvidersInv, RestType, CallsInv, PermitsInv, Sound, Unharmed, Session, Disables,
         InstanceHeld, SharedHeld
<1>5. WitnessInv'
  <2>1. ASSUME NEW t \in 0..(RefusalWindow + 1) PROVE Older(t, RefusalWindow) \in 0..(RefusalWindow + 1)
    BY GateAssumption DEF Older
  <2>2. refused' \in [Results -> 0..(RefusalWindow + 1)]
    BY <2>1 DEF Tick, ProvidersInv, WitnessInv
  <2>3. CASE witness = None
    BY <2>2, <2>3 DEF Tick, WitnessInv
  <2>4. CASE witness # None
    <3>1. /\ witness \in [result : Results, age : 0..(RefusalWindow + 1)]
          /\ refused[witness.result] <= witness.age
          /\ refused[witness.result] \in 0..(RefusalWindow + 1)
      BY <2>4 DEF ProvidersInv, WitnessInv
    <3> DEFINE age == Older(witness.age, RefusalWindow)
    <3>2. age \in 0..(RefusalWindow + 1) /\ Older(refused[witness.result], RefusalWindow) <= age
      BY <2>1, <3>1, GateAssumption DEF Older
    <3>3. witness' = [witness EXCEPT !.age = age]
      BY <2>4 DEF Tick
    <3> HIDE DEF age
    <3>4. witness' \in [result : Results, age : 0..(RefusalWindow + 1)]
             /\ witness'.result = witness.result /\ witness'.age = age
      BY <3>1, <3>2, <3>3
    <3>5. refused'[witness'.result] <= witness'.age
      BY <3>1, <3>2, <3>4 DEF Tick
    <3> QED
      BY <2>2, <3>4, <3>5 DEF WitnessInv
  <2> QED
    BY <2>3, <2>4
<1> QED
  BY <1>3, <1>4, <1>5 DEF ProvidersInv

LEMMA RetryKeeps ==
    ASSUME ProvidersInv, Retry
    PROVE  ProvidersInv' /\ NoneDisabled(row, row')
<1>1. ProperRows(row)' /\ NoneDisabled(row, row')
  <2>1. \A s \in Scopes : row'[s] = NoRow
    BY DEF Retry
  <2>2. row' \in [Scopes -> RowType]
    BY NoRowProper DEF Retry, Proper
  <2> QED
    BY <2>1, <2>2, NoRowProper DEF ProperRows, NoneDisabled, NoRow, Proper, RowType
<1>2. RestType' /\ CallsInv' /\ PermitsInv' /\ WitnessInv'
  BY DEF Retry, ProvidersInv, RestType, CallsInv, PermitsInv, Sound, Unharmed, Session, Disables,
         InstanceHeld, SharedHeld, WitnessInv
<1> QED
  BY <1>1, <1>2 DEF ProvidersInv

\* The provider's side: tokens die, and no call is asking for the second time.
LEMMA RevokeKeeps ==
    ASSUME ProvidersInv, Revoke
    PROVE  ProvidersInv'
<1>1. ASSUME NEW c \in Calls
      PROVE  /\ call'[c] \in CallType /\ call'[c].pc = call[c].pc
             /\ Sound(call[c])' /\ Unharmed(call[c])'
  <2>1. call[c] \in CallType /\ Sound(call[c]) /\ Unharmed(call[c]) /\ call[c].refresh
    BY DEF ProvidersInv, CallsInv, Revoke
  <2> DEFINE t == IF call[c].token = "live" THEN "dead" ELSE call[c].token
  <2>2. call'[c] = [call[c] EXCEPT !.token = t]
    BY DEF Revoke
  <2>3. t \in {None, "live", "dead"} /\ (t = None <=> call[c].token = None)
    BY <2>1, GateAssumption DEF CallType
  <2> HIDE DEF t
  <2>4. PICK k : k = call'[c]
    OBVIOUS
  <2>5. /\ k \in CallType /\ k.pc = call[c].pc /\ k.task = call[c].task /\ k.op = call[c].op
        /\ k.refresh = call[c].refresh /\ k.token = t /\ k.answer = call[c].answer
    BY <2>1, <2>2, <2>3, <2>4 DEF CallType
  <2>6. client' = client /\ (valid' => valid)
    BY DEF Revoke
  <2> QED
    BY <2>1, <2>3, <2>4, <2>5, <2>6 DEF Sound, Unharmed, Session, Disables
<1>2. CallsInv'
  <2>1. call' = [c \in Calls |-> call'[c]]
    BY DEF Revoke
  <2> QED
    BY <1>1, <2>1 DEF CallsInv
<1>3. PermitsInv'
  <2>1. /\ {c \in Calls : InstanceHeld(call[c])} = {c \in Calls : InstanceHeld(call'[c])}
        /\ {c \in Calls : SharedHeld(call[c])} = {c \in Calls : SharedHeld(call'[c])}
    BY <1>1 DEF InstanceHeld, SharedHeld
  <2> QED
    BY <2>1 DEF ProvidersInv, PermitsInv, Revoke, InstanceHeld, SharedHeld
<1>4. RestType' /\ ProperRows(row)' /\ WitnessInv'
  <2>1. valid' \in BOOLEAN /\ client' \in Adapters
    BY DEF Revoke, ProvidersInv, RestType
  <2>2. RestType'
    BY <2>1 DEF Revoke, ProvidersInv, RestType
  <2> QED
    BY <2>2 DEF Revoke, ProvidersInv, ProperRows, Proper, RowType, WitnessInv
<1> QED
  BY <1>2, <1>3, <1>4 DEF ProvidersInv

\* No call is under way, so no permit is taken.
LEMMA AllIdle ==
    call = [c \in Calls |-> Idle] /\ instance = 0 /\ shared = 0 => CallsInv /\ PermitsInv
<1> HAVE call = [c \in Calls |-> Idle] /\ instance = 0 /\ shared = 0
<1>1. CallsInv
  BY IdleSound DEF CallsInv
<1>2. {c \in Calls : InstanceHeld(call[c])} = {} /\ {c \in Calls : SharedHeld(call[c])} = {}
  BY DEF InstanceHeld, SharedHeld, Idle
<1>3. Cardinality({}) = 0 /\ 0 <= MaxConcurrent /\ 0 <= SharedMax
  BY FS_EmptySet, GateAssumption
<1>4. PermitsInv
  BY <1>2, <1>3 DEF PermitsInv
<1> QED
  BY <1>1, <1>4

LEMMA RestartKeeps ==
    ASSUME ProvidersInv, Restart
    PROVE  ProvidersInv'
<1>1. (call = [c \in Calls |-> Idle] /\ instance = 0 /\ shared = 0)'
  BY DEF Restart, Idle, Plain, Reply, NoWindow
<1>2. CallsInv' /\ PermitsInv'
  BY <1>1, AllIdle, PTL
<1>3. valid' \in BOOLEAN
  BY DEF Restart, ProvidersInv, RestType
<1> QED
  BY <1>2, <1>3 DEF Restart, ProvidersInv, RestType, ProperRows, Proper, RowType, WitnessInv

LEMMA StutterKeeps ==
    ASSUME ProvidersInv, UNCHANGED vars
    PROVE  ProvidersInv'
BY DEF vars, ProvidersInv, RestType, ProperRows, Proper, RowType, CallsInv, PermitsInv, Sound, Unharmed,
       Session, Disables, InstanceHeld, SharedHeld, WitnessInv

LEMMA ProvidersInitial == Init => ProvidersInv
<1> HAVE Init
<1>1. CallsInv /\ PermitsInv
  BY AllIdle DEF Init
<1>2. ProperRows(row)
  BY NoRowProper DEF Init, ProperRows, Proper
<1>3. RefusalWindow + 1 \in 0..(RefusalWindow + 1)
  BY GateAssumption
<1>4. RestType /\ WitnessInv
  BY <1>3, GateAssumption DEF Init, RestType, WitnessInv
<1> QED
  BY <1>1, <1>2, <1>4 DEF ProvidersInv

LEMMA ProvidersKeeps == ProvidersInv /\ [Next]_vars => ProvidersInv'
BY WorksKeeps, TickKeeps, RetryKeeps, RevokeKeeps, RestartKeeps, StutterKeeps DEF Next

LEMMA ProvidersInvariant == Spec => []ProvidersInv
BY ProvidersInitial, ProvidersKeeps, PTL DEF Spec

-----------------------------------------------------------------------------
(* Who holds the session mutex and the shared fetch *)

\* The places of a request, from the gate to the end of its answer.
Asking == {"check", "wait", "slot", "sent", "body"}

\* The mutex is held by a call that is logging in, the fetch by one that asks
\* for what its client caches; only such a call waits for the fetch.
HoldersInv ==
    /\ \A c \in Calls : call[c].pc = "load" => Cached(call[c].task)
    /\ mu # None => call[mu].op = "auth" /\ call[mu].pc \in Asking
    /\ flight # None => Cached(call[flight].task) /\ call[flight].pc \in Asking

\* Call c became k, and what it holds it holds as HoldersInv says.
HoldStep(c, k) ==
    /\ call' = [call EXCEPT ![c] = k] /\ client' = client
    /\ k.pc = "load" => Cached(k.task)
    /\ \/ mu' = None
       \/ mu' = mu /\ mu # c
       \/ mu' = c /\ k.op = "auth" /\ k.pc \in Asking
    /\ \/ flight' = None
       \/ flight' = flight /\ flight # c
       \/ flight' = c /\ Cached(k.task) /\ k.pc \in Asking

LEMMA HoldStepKeeps ==
    ASSUME RestType, CallsInv, HoldersInv, NEW c \in Calls, NEW k, HoldStep(c, k)
    PROVE  HoldersInv'
<1>1. call'[c] = k /\ \A x \in Calls \ {c} : call'[x] = call[x]
  BY DEF HoldStep, CallsInv
<1>2. \A q : Cached(q)' <=> Cached(q)
  BY DEF HoldStep, Cached
<1>3. (\A x \in Calls : call[x].pc = "load" => Cached(call[x].task))'
  <2>1. ASSUME NEW x \in Calls, call'[x].pc = "load" PROVE Cached(call'[x].task)
    BY <1>1, <2>1 DEF HoldStep, HoldersInv
  <2> QED
    BY <1>2, <2>1 DEF Cached, HoldStep
<1>4. mu' # None => call'[mu'].op = "auth" /\ call'[mu'].pc \in Asking
  BY <1>1 DEF HoldStep, HoldersInv, RestType
<1>5. flight' # None => Cached(call'[flight'].task) /\ call'[flight'].pc \in Asking
  BY <1>1 DEF HoldStep, HoldersInv, RestType
<1> QED
  BY <1>3, <1>4, <1>5 DEF HoldersInv, Cached, HoldStep, Asking

\* A call that returns holds nothing any more.
LEMMA ReturnsHold ==
    ASSUME NEW c \in Calls, NEW i, NEW s, Returns(c, i, s), client' = client
    PROVE  HoldStep(c, Idle)
BY DEF Returns, HoldStep, Idle

\* A request that goes from one of its places to another keeps what it holds.
LEMMA MovesHold ==
    ASSUME HoldersInv, NEW c \in Calls, NEW k, call' = [call EXCEPT ![c] = k],
           k.pc \in Asking, k.op = call[c].op, k.task = call[c].task,
           UNCHANGED <<client, mu, flight>>
    PROVE  HoldStep(c, k)
<1>1. mu = c => k.op = "auth"
  BY GateAssumption DEF HoldersInv
<1>2. flight = c => Cached(k.task)
  BY GateAssumption DEF HoldersInv
<1> QED
  BY <1>1, <1>2 DEF HoldStep, Asking

LEMMA GateHolds ==
    ASSUME CallsInv, HoldersInv, NEW c \in Calls, Check(c) \/ TakeInstance(c) \/ TakeShared(c)
    PROVE  \E k : HoldStep(c, k)
<1>1. call[c] \in CallType
  BY DEF CallsInv
<1>2. client' = client
  BY DEF Check, TakeInstance, TakeShared, Rest
<1>3. CASE Returns(c, 0, 0) \/ Returns(c, 1, 0)
  BY <1>2, <1>3, ReturnsHold
<1>4. CASE /\ \E pc \in {"wait", "slot", "sent"} : call' = [call EXCEPT ![c].pc = pc]
           /\ UNCHANGED <<mu, flight>>
  <2>1. PICK pc \in {"wait", "slot", "sent"} : call' = [call EXCEPT ![c].pc = pc]
    BY <1>4
  <2> DEFINE k == [call[c] EXCEPT !.pc = pc]
  <2>2. k.pc \in Asking /\ k.op = call[c].op /\ k.task = call[c].task
    BY <1>1 DEF CallType, Asking
  <2>3. call' = [call EXCEPT ![c] = k]
    BY <2>1
  <2> HIDE DEF k
  <2> QED
    BY <1>2, <1>4, <2>2, <2>3, MovesHold
<1> QED
  BY <1>3, <1>4 DEF Check, TakeInstance, TakeShared

LEMMA AnswerHolds ==
    ASSUME CallsInv, HoldersInv, NEW c \in Calls, NEW a, Answer(c, a)
    PROVE  \E k : HoldStep(c, k)
<1>1. call[c] \in CallType /\ client' = client
  BY DEF CallsInv, Answer
<1>2. CASE Returns(c, 1, 1)
  BY <1>1, <1>2, ReturnsHold
<1>3. CASE call' = [call EXCEPT ![c].pc = "body", ![c].answer = a] /\ UNCHANGED <<mu, flight>>
  <2> DEFINE k == [call[c] EXCEPT !.pc = "body", !.answer = a]
  <2>1. k.pc \in Asking /\ k.op = call[c].op /\ k.task = call[c].task
    BY <1>1 DEF CallType, Asking
  <2>2. call' = [call EXCEPT ![c] = k]
    BY <1>3
  <2> HIDE DEF k
  <2> QED
    BY <1>1, <1>3, <2>1, <2>2, MovesHold
<1> QED
  BY <1>2, <1>3 DEF Answer

\* A call takes the fetch only when nobody has it, and the mutex likewise.
LEMMA TakesHold ==
    ASSUME RestType, CallsInv, HoldersInv, NEW c \in Calls,
           (\E task \in {"search", "download"} : Start(c, task)) \/ Load(c) \/ Login(c)
    PROVE  \E k : HoldStep(c, k)
<1>1. call[c] \in CallType
  BY DEF CallsInv
<1>2. client' = client
  BY DEF Start, Load, Login, Rest
<1>3. call[c].pc \notin Asking => mu # c /\ flight # c
  BY GateAssumption DEF HoldersInv
<1>4. CASE \E task \in {"search", "download"} : Start(c, task)
  <2>1. PICK task \in {"search", "download"} : Start(c, task)
    BY <1>4
  <2> DEFINE pc == IF Session(task) THEN "login" ELSE IF Cached(task) THEN "load" ELSE "check"
             k == [Idle EXCEPT !.task = task, !.op = task, !.pc = pc]
  <2>2. k.task = task /\ (k.pc = "load" => Cached(task))
    BY DEF Idle
  <2>3. call' = [call EXCEPT ![c] = k] /\ call[c].pc = "idle" /\ UNCHANGED <<mu, flight>>
    BY <2>1 DEF Start
  <2> HIDE DEF k
  <2>4. HoldStep(c, k)
    BY <1>2, <1>3, <2>2, <2>3 DEF HoldStep, Asking
  <2> QED
    BY <2>4
<1>5. CASE Load(c) /\ Returns(c, 0, 0)
  BY <1>2, <1>5, ReturnsHold
<1>6. CASE Load(c) /\ flight' = c /\ call' = [call EXCEPT ![c].pc = "check"] /\ mu' = mu
  <2> DEFINE k == [call[c] EXCEPT !.pc = "check"]
  <2>1. k.task = call[c].task /\ k.pc = "check"
    BY <1>1 DEF CallType
  <2>2. call' = [call EXCEPT ![c] = k] /\ call[c].pc = "load" /\ Cached(call[c].task)
    BY <1>6 DEF Load, HoldersInv
  <2> HIDE DEF k
  <2>3. HoldStep(c, k)
    BY <1>2, <1>3, <1>6, <2>1, <2>2 DEF HoldStep, Asking
  <2> QED
    BY <2>3
<1>7. CASE Login(c)
  <2>1. call[c].pc = "login" /\ flight' = flight
    BY <1>7 DEF Login
  <2>2. CASE MustLogin(c)
    <3> DEFINE k == [call[c] EXCEPT !.pc = "check", !.op = "auth"]
    <3>1. k.pc = "check" /\ k.op = "auth"
      BY <1>1 DEF CallType
    <3>2. call' = [call EXCEPT ![c] = k] /\ mu' = c
      BY <1>7, <2>2 DEF Login
    <3> HIDE DEF k
    <3>3. HoldStep(c, k)
      BY <1>2, <1>3, <2>1, <3>1, <3>2 DEF HoldStep, Asking
    <3> QED
      BY <3>3
  <2>3. CASE ~MustLogin(c)
    <3> DEFINE k == [call[c] EXCEPT !.pc = "check", !.token = token]
    <3>1. k.pc = "check"
      BY <1>1 DEF CallType
    <3>2. call' = [call EXCEPT ![c] = k] /\ mu' = mu
      BY <1>7, <2>3 DEF Login
    <3> HIDE DEF k
    <3>3. HoldStep(c, k)
      BY <1>2, <1>3, <2>1, <3>1, <3>2 DEF HoldStep, Asking
    <3> QED
      BY <3>3
  <2> QED
    BY <2>2, <2>3
<1> QED
  BY <1>4, <1>5, <1>6, <1>7 DEF Load

\* The client acts on an answer: a login that worked gives the mutex back, a
\* login that failed and every search of a cache return.
LEMMA ReadsHold ==
    ASSUME RestType, CallsInv, HoldersInv, NEW c \in Calls, Reads(c)
    PROVE  \E k : HoldStep(c, k)
<1> DEFINE task == call[c].task
           op == call[c].op
<1>1. call[c] \in CallType /\ Sound(call[c]) /\ call[c].pc = "body" /\ client' = client
  BY DEF CallsInv, Reads, Rest
<1>2. mu = c => op = "auth"
  BY GateAssumption DEF HoldersInv
<1>3. flight = c => ~Session(task) /\ task = "search" /\ client # "opensubtitles" /\ op # "auth"
  BY <1>1, GateAssumption DEF HoldersInv, Cached, Session, Sound
<1>4. CASE LoginAgain(c) /\ Refreshes(c)
  <2> DEFINE k == [call[c] EXCEPT !.pc = "login", !.refresh = FALSE, !.answer = Plain]
  <2>1. k.pc = "login"
    BY <1>1 DEF CallType
  <2>2. call' = [call EXCEPT ![c] = k] /\ UNCHANGED <<mu, flight>> /\ mu # c /\ flight # c
    BY <1>2, <1>3, <1>4 DEF LoginAgain, Refreshes
  <2> HIDE DEF k
  <2>3. HoldStep(c, k)
    BY <1>1, <2>1, <2>2 DEF HoldStep
  <2> QED
    BY <2>3
<1>5. CASE op = "auth" /\ GoesOn(c, task, TRUE)
  <2> DEFINE t == IF task = "transfer" THEN None ELSE "live"
             k == [call[c] EXCEPT !.pc = "check", !.op = task, !.answer = Plain, !.token = t]
  <2>1. k.pc = "check"
    BY <1>1 DEF CallType
  <2>2. call' = [call EXCEPT ![c] = k] /\ mu' = None /\ flight' = flight /\ flight # c
    BY <1>3, <1>5 DEF GoesOn
  <2> HIDE DEF k
  <2>3. HoldStep(c, k)
    BY <1>1, <2>1, <2>2 DEF HoldStep
  <2> QED
    BY <2>3
<1>6. CASE op = "download" /\ client = "opensubtitles" /\ GoesOn(c, "transfer", FALSE)
  <2> DEFINE k == [call[c] EXCEPT !.pc = "check", !.op = "transfer", !.answer = Plain, !.token = None]
  <2>1. k.pc = "check"
    BY <1>1 DEF CallType
  <2>2. call' = [call EXCEPT ![c] = k] /\ UNCHANGED <<mu, flight>> /\ mu # c /\ flight # c
    BY <1>2, <1>3, <1>6 DEF GoesOn
  <2> HIDE DEF k
  <2>3. HoldStep(c, k)
    BY <1>1, <2>1, <2>2 DEF HoldStep
  <2> QED
    BY <2>3
<1>7. CASE /\ task = "download" /\ op # "auth" /\ UNCHANGED <<mu, flight>>
           /\ call' = [call EXCEPT ![c].pc = "judge", ![c].answer = Plain]
  <2> DEFINE k == [call[c] EXCEPT !.pc = "judge", !.answer = Plain]
  <2>1. k.pc = "judge"
    BY <1>1 DEF CallType
  <2>2. call' = [call EXCEPT ![c] = k] /\ mu # c /\ flight # c
    BY <1>2, <1>3, <1>7
  <2> HIDE DEF k
  <2>3. HoldStep(c, k)
    BY <1>1, <1>7, <2>1, <2>2 DEF HoldStep
  <2> QED
    BY <2>3
<1>8. CASE Returns(c, 1, 1)
  BY <1>1, <1>8, ReturnsHold
<1> QED
  BY <1>4, <1>5, <1>6, <1>7, <1>8 DEF Reads

LEMMA HoldersKept ==
    ASSUME ProvidersInv, HoldersInv, [Next]_vars
    PROVE  HoldersInv'
<1> USE DEF ProvidersInv
<1>1. CASE \E c \in Calls : Works(c)
  <2>1. PICK c \in Calls : Works(c)
    BY <1>1
  <2>2. CASE \E i, s : Returns(c, i, s) /\ client' = client
    BY <2>2, ReturnsHold, HoldStepKeeps
  <2>3. Cancel(c) \/ Subtitle(c) => \E i, s : Returns(c, i, s) /\ client' = client
    BY DEF Cancel, Subtitle, Rest
  <2>4. (\E r \in Results, kind \in {"quota", "rate", "blocked"}, explicit \in BOOLEAN :
            Message(c, r, kind, explicit))
          => \E i, s : Returns(c, i, s) /\ client' = client
    BY DEF Message
  <2>5. (\E task \in {"search", "download"} : Start(c, task)) \/ Load(c) \/ Login(c) \/ Reads(c)
        \/ Check(c) \/ TakeInstance(c) \/ TakeShared(c) \/ (\E a \in Answers(c) : Answer(c, a))
          => \E k : HoldStep(c, k)
    BY TakesHold, ReadsHold, GateHolds, AnswerHolds
  <2> QED
    BY <2>1, <2>2, <2>3, <2>4, <2>5, HoldStepKeeps DEF Works, Proceeds
<1>2. CASE Tick \/ Retry \/ UNCHANGED vars
  BY <1>2 DEF Tick, Retry, vars, HoldersInv, Cached, Asking
<1>3. CASE Revoke
  <2>1. ASSUME NEW c \in Calls
        PROVE  call'[c].pc = call[c].pc /\ call'[c].task = call[c].task /\ call'[c].op = call[c].op
    <3>1. call[c] \in CallType
      BY DEF CallsInv
    <3>2. PICK t : call'[c] = [call[c] EXCEPT !.token = t]
      BY <1>3 DEF Revoke
    <3> QED
      BY <3>1, <3>2 DEF CallType
  <2>2. UNCHANGED <<client, mu, flight>>
    BY <1>3 DEF Revoke
  <2> QED
    BY <2>1, <2>2 DEF HoldersInv, Cached, Asking, RestType
<1>4. CASE Restart
  BY <1>4 DEF Restart, HoldersInv, Idle
<1> QED
  BY <1>1, <1>2, <1>3, <1>4 DEF Next

LEMMA HoldersInvariant == Spec => [](ProvidersInv /\ HoldersInv)
<1>1. Init => HoldersInv
  BY DEF Init, HoldersInv, Idle
<1> QED
  BY <1>1, HoldersKept, ProvidersInitial, ProvidersKeeps, PTL DEF Spec

-----------------------------------------------------------------------------
(* Some call can go on *)

\* The provider owes an answer to whatever it was sent.
LEMMA SentAnswered ==
    ASSUME RestType, NEW c \in Calls, call[c] \in CallType, Sound(call[c]), call[c].pc = "sent"
    PROVE  \E a \in Answers(c) : a = Plain \/ Due(c, a)
<1> DEFINE op == call[c].op
           no == Reply("401", NoWindow, "none")
           accepted == IF op = "auth" THEN valid ELSE call[c].token # "dead"
           denied == IF op = "auth" THEN ~valid
                     ELSE IF call[c].token # None THEN ~valid \/ call[c].token = "dead"
                     ELSE IF client = "subsource" THEN ~valid
                     ELSE op # "search"
<1>1. accepted => Plain \in Answers(c)
  <2>1. NoWindow \in Windows
    BY DEF Windows
  <2>2. Plain \in {Reply("ok", w, "none") : w \in Windows}
    BY <2>1 DEF Plain
  <2> QED
    BY <2>2 DEF Answers
<1>2. ~accepted => client # "subdl" /\ denied
  BY GateAssumption DEF Sound, Session, CallType
<1>3. client # "subdl" /\ denied => no \in Answers(c)
  BY DEF Answers
<1>4. ~accepted => Due(c, no)
  BY DEF Due, Reply
<1> QED
  BY <1>1, <1>2, <1>3, <1>4

\* A semaphore with no permit left has a call that holds one.
LEMMA FullIsHeld ==
    ASSUME PermitsInv
    PROVE  /\ ~(instance < MaxConcurrent) => \E c \in Calls : InstanceHeld(call[c])
           /\ ~(shared < SharedMax) => \E c \in Calls : SharedHeld(call[c])
<1> DEFINE I == {c \in Calls : InstanceHeld(call[c])}
           S == {c \in Calls : SharedHeld(call[c])}
<1>1. instance = Cardinality(I) /\ shared = Cardinality(S)
  BY DEF PermitsInv
<1>2. MaxConcurrent \in Nat \ {0} /\ SharedMax \in Nat \ {0} /\ Cardinality({}) = 0
  BY GateAssumption, FS_EmptySet
<1>3. ~(instance < MaxConcurrent) => I # {}
  BY <1>1, <1>2
<1>4. ~(shared < SharedMax) => S # {}
  BY <1>1, <1>2
<1> QED
  BY <1>3, <1>4

\* A call whose request is at the gate or beyond can go on, or waits for a
\* permit of one that can.
LEMMA AskingGoesOn ==
    ASSUME ProvidersInv, NEW c \in Calls, call[c].pc \in Asking \cup {"judge"}
    PROVE  \E x \in Calls : Able(x)
<1>1. ASSUME NEW x \in Calls, call[x].pc \in {"check", "sent", "body", "judge"} PROVE Able(x)
  BY <1>1, SentAnswered DEF Able, ProvidersInv, CallsInv
<1>2. ASSUME NEW x \in Calls, call[x].pc = "slot" PROVE \E y \in Calls : Able(y)
  <2>1. CASE shared < SharedMax
    BY <1>2, <2>1 DEF Able
  <2>2. CASE ~(shared < SharedMax)
    BY <1>1, <2>2, FullIsHeld DEF ProvidersInv, SharedHeld
  <2> QED
    BY <2>1, <2>2
<1>3. CASE call[c].pc = "wait"
  <2>1. CASE instance < MaxConcurrent
    BY <1>3, <2>1 DEF Able
  <2>2. CASE ~(instance < MaxConcurrent)
    BY <1>1, <1>2, <2>2, FullIsHeld DEF ProvidersInv, InstanceHeld
  <2> QED
    BY <2>1, <2>2
<1> QED
  BY <1>1, <1>2, <1>3 DEF Asking

LEMMA SomeCallAble ==
    ASSUME ProvidersInv, HoldersInv, NEW c \in Calls, call[c].pc # "idle"
    PROVE  \E x \in Calls : Able(x)
<1>1. call[c].pc \in {"load", "login", "judge"} \cup Asking
  BY DEF ProvidersInv, CallsInv, CallType, Asking
<1>2. CASE call[c].pc = "login"
  <2>1. CASE mu = None
    BY <1>2, <2>1 DEF Able
  <2>2. CASE mu # None
    BY <2>2, AskingGoesOn DEF ProvidersInv, RestType, HoldersInv
  <2> QED
    BY <2>1, <2>2
<1>3. CASE call[c].pc = "load"
  <2>1. CASE flight = None
    BY <1>3, <2>1 DEF Able
  <2>2. CASE flight # None
    BY <2>2, AskingGoesOn DEF ProvidersInv, RestType, HoldersInv
  <2> QED
    BY <2>1, <2>2
<1> QED
  BY <1>1, <1>2, <1>3, AskingGoesOn

-----------------------------------------------------------------------------
(* The theorems *)

\* Every stored pause stays within MaxProviderCooldown and every permit taken
\* within its semaphore, whatever the answers say and however the calls end:
\* the counters are the permits that calls under way hold (Gate.Acquire,
\* permitBody, BoundedReset).
THEOREM ProvidersTyped == Spec => []TypeOK
<1>1. ProvidersInv => TypeOK
  BY PermitsType DEF ProvidersInv, ProperRows, RowType, RestType, TypeOK
<1> QED
  BY <1>1, ProvidersInvariant, PTL

\* No answer of any client, in any order, shortens a limit that still holds or
\* re-enables a disabled provider: only time and the owner's retry do
\* (Gate.persist, RecordTransientFailure, ResetTransientFailures).
THEOREM NoAnswerLiftsALimit == Spec => LimitStands
<1>1. ProvidersInv /\ [Next]_vars =>
        [Tick \/ Retry \/ \A s \in Scopes :
           /\ row[s].disabled => row'[s].disabled
           /\ Holds(row[s]) => row'[s].disabled \/ (Holds(row'[s]) /\ row'[s].left >= row[s].left)]_vars
  <2> HAVE ProvidersInv /\ [Next]_vars
  <2>1. CASE \E c \in Calls : Works(c)
    BY <2>1, WorksKeeps DEF RowsStand, Stands
  <2>2. CASE Revoke \/ Restart
    <3>1. row' = row
      BY <2>2 DEF Revoke, Restart
    <3>2. \A s \in Scopes : Stands(row[s], row'[s])
      BY <3>1, RowsSame DEF ProvidersInv, RowsStand
    <3> QED
      BY <3>2 DEF Stands
  <2> QED
    BY <2>1, <2>2 DEF Next
<1> QED
  BY <1>1, ProvidersInvariant, PTL DEF Spec, LimitStands

\* Two results refused within the window make the count that confirms a pause.
LEMMA TwoRefused ==
    ASSUME NEW S, IsFiniteSet(S), NEW x \in S, NEW y \in S, x # y
    PROVE  Cardinality(S) >= 2
<1>1. IsFiniteSet({x}) /\ Cardinality({x}) = 1
  BY FS_Singleton
<1>2. Cardinality({x} \cup {y}) = 2
  BY <1>1, FS_AddElement
<1>3. {x} \cup {y} \subseteq S
  OBVIOUS
<1>4. Cardinality({x} \cup {y}) <= Cardinality(S) /\ Cardinality(S) \in Nat
  BY <1>3, FS_Subset, FS_CardinalityType
<1> QED
  BY <1>2, <1>4

\* A provider is put aside for a cause only: never for good while it accepts the
\* credentials, however many searches share the session that ends, and never for
\* one odd page (DisableAuthentication, login, RefusalLedger.witness).
THEOREM PutAsideForCause == Spec => OnlyForCause
<1>1. ProvidersInv /\ [Next]_vars => [valid => \A s \in Scopes : row'[s].disabled => row[s].disabled]_vars
  <2> HAVE ProvidersInv /\ [Next]_vars
  <2>1. CASE \E c \in Calls : Works(c)
    BY <2>1, WorksKeeps DEF NoneDisabled
  <2>2. CASE Tick \/ Retry
    BY <2>2, TickKeeps, RetryKeeps DEF NoneDisabled
  <2>3. CASE Revoke \/ Restart
    BY <2>3 DEF Revoke, Restart
  <2> QED
    BY <2>1, <2>2, <2>3 DEF Next
<1>2. ProvidersInv /\ [Next]_vars =>
        [(row' # row /\ <<witness', refused'>> # <<witness, refused>> /\ ~Tick)
          => Cardinality({r \in Results : refused'[r] <= RefusalWindow}) >= 2]_vars
  <2> HAVE ProvidersInv /\ [Next]_vars
  <2>1. CASE \E c \in Calls : Works(c)
    <3> DEFINE S == {r \in Results : refused'[r] <= RefusalWindow}
    <3>1. row' # row /\ <<witness', refused'>> # <<witness, refused>> =>
             \E x, y \in Results : x # y /\ refused'[x] <= RefusalWindow /\ refused'[y] <= RefusalWindow
      BY <2>1, WorksKeeps
    <3>2. IsFiniteSet(S)
      BY GateAssumption, FS_Subset
    <3>3. row' # row /\ <<witness', refused'>> # <<witness, refused>> => \E x, y \in S : x # y
      BY <3>1
    <3> HIDE DEF S
    <3>4. row' # row /\ <<witness', refused'>> # <<witness, refused>> => Cardinality(S) >= 2
      BY <3>2, <3>3, TwoRefused
    <3> QED
      BY <3>4 DEF S
  <2>2. CASE Retry \/ Revoke \/ Restart
    BY <2>2 DEF Retry, Revoke, Restart
  <2> QED
    BY <2>1, <2>2 DEF Next, vars
<1>3. Spec => NoFalseDisable
  BY <1>1, ProvidersInvariant, PTL DEF Spec, NoFalseDisable
<1>4. Spec => PauseConfirmed
  BY <1>2, ProvidersInvariant, PTL DEF Spec, PauseConfirmed
<1> QED
  BY <1>3, <1>4 DEF OnlyForCause

\* The calls under way never all wait for each other or for something a call
\* that ended still holds, for any number of calls and permits: some call's next
\* step finds its permit, the session mutex or the shared fetch free, and the
\* provider owes an answer to every request that is out (Gate.Acquire,
\* permitBody, login, TTLCache.Load).
THEOREM SomeCallGoesOn == Spec => []NoCallStuck
<1>1. ProvidersInv /\ HoldersInv => NoCallStuck
  BY SomeCallAble DEF NoCallStuck
<1> QED
  BY <1>1, HoldersInvariant, PTL
=============================================================================
