--------------------------- MODULE Notifications ---------------------------
(***************************************************************************)
(* The notification outbox (internal/store/repository.go) and its delivery *)
(* by the worker's maintenance (internal/worker/worker.go).                *)
(*                                                                         *)
(* A change of a subtitle commits an intent for each destination in the    *)
(* same transaction.  Maintenance leases the intents that are due, groups  *)
(* the ones that a single request satisfies, sends one request per group   *)
(* and completes every member with the answer.  Changes go on during all   *)
(* of it; the process may stop or die at any point.                        *)
(*                                                                         *)
(* A target is what one request covers: the directory Silo scans, or the   *)
(* series or movie Arr rescans.  The dedupe key of a coalescing target     *)
(* names the target, that of any other target the change.  A due time is   *)
(* abstracted to the order in which intents fall due, the order leases are *)
(* handed out in: <<i, j>> is in the queue when both are due, i no later   *)
(* than j.                                                                 *)
(***************************************************************************)
EXTENDS Naturals, FiniteSets

CONSTANTS
    Notices,        \* a target and a subtitle change it is to be told of
    Coalescing,     \* the targets of Arr rescans, whose key names the target
    MaxRows,        \* bound: rows of the outbox
    MaxBatch,       \* NotificationBatch: leases per maintenance tick
    MaxWorkflows,   \* requests sent at the same time
    NoRow           \* an id that no row has

\* What a request to a notifier names.
Targets == {n[1] : n \in Notices}

Changes == {n[2] : n \in Notices}

ASSUME NoticesAssumption == Notices = {<<n[1], n[2]>> : n \in Notices}

ASSUME TargetsAssumption == Coalescing \subseteq Targets

ASSUME BoundsAssumption == {MaxRows, MaxBatch, MaxWorkflows} \subseteq Nat \ {0}

VARIABLES
    rows,       \* the notifications table
    queue,      \* the due order of the unfinished rows whose due time has passed
    groups,     \* deliveries of the running maintenance
    stopping,   \* the process is shutting down, or is down
    unseen,     \* history: changes their destination was not told of since
    repeated    \* history: of these, the ones made again, with the same key,
                \* while an earlier intent was past its request

vars == <<rows, queue, groups, stopping, unseen, repeated>>

Ids == 1..MaxRows

Answers == {"success", "retry", "final"}

Row ==
    [target : Targets, change : Changes, keyed : BOOLEAN, finished : BOOLEAN,
     lease : {"none", "live", "expired"}]

Group ==
    [target : Targets, members : SUBSET Ids, covers : SUBSET Notices,
     lost : SUBSET Ids, received : BOOLEAN,
     phase : {"leased", "sent", "answered"},
     answer : Answers \cup {"none"}]

ASSUME NoRowAssumption == NoRow \notin Row

Used == {i \in Ids : rows[i] # NoRow}

Pending == {i \in Used : ~rows[i].finished}

DueRows == {i \in Ids : <<i, i>> \in queue}

\* Row i becomes the last of the due ones, or is no longer due.
FallsDue(i) == queue \cup ((DueRows \cup {i}) \X {i})

NotDue(i) == {p \in queue : p[1] # i /\ p[2] # i}

\* The rows whose lease a delivery still renews.
Renewed == UNION {g.members \ g.lost : g \in groups}

\* The request of i's group has left: what is committed from now on may be
\* missing from what the destination reads.
PastRequest(i) == \E g \in groups : g.phase # "leased" /\ i \in g.members

Init ==
    /\ rows = [i \in Ids |-> NoRow]
    /\ queue = {}
    /\ groups = {}
    /\ stopping = FALSE
    /\ unseen = {}
    /\ repeated = {}

-----------------------------------------------------------------------------
(* Queuing an intent *)

\* The row that holds the dedupe key of change c of target t.
SameKey(t, c) ==
    {i \in Used : /\ rows[i].keyed
                  /\ rows[i].target = t
                  /\ t \in Coalescing \/ rows[i].change = c}

\* BUG: a leased row absorbs the change as an unleased one does.
NeverTakenOver(t, c) == {}

\* A coalescing key is taken over from a row whose delivery may have begun.
TakenOver(t, c) ==
    IF t \in Coalescing THEN {i \in SameKey(t, c) : rows[i].lease # "none"} ELSE {}

\* BUG: an absorbed change pushes the due time back.
Postponed(t, c) ==
    /\ queue' = {p \in queue : \A j \in {p[1], p[2]} :
                                  j \notin SameKey(t, c) \/ rows[j].lease # "none"}
    /\ UNCHANGED rows

\* What an absorbed change does to the row that absorbs it: nothing, and its
\* due time stays.
Absorbed(t, c) == UNCHANGED <<rows, queue>>

\* An Arr rescan falls due after ArrRescanDelay, every other intent at once.
Insert(t, c) ==
    LET new == CHOOSE i \in Ids : i \notin Used
        row == [target |-> t, change |-> c, keyed |-> TRUE, finished |-> FALSE,
                lease |-> "none"]
        kept == [i \in Ids |-> IF i \in TakenOver(t, c)
                               THEN [rows[i] EXCEPT !.keyed = FALSE] ELSE rows[i]]
    IN  /\ Used # Ids
        /\ rows' = [kept EXCEPT ![new] = row]
        /\ queue' = IF t \in Coalescing THEN queue ELSE FallsDue(new)

\* History: the request of g has not announced what is made after it left.
MadeAgain(g, n) == [g EXCEPT !.covers = @ \ {n}]

\* enqueueNotification, in the transaction of the change itself.
Enqueue(t, c) ==
    /\ IF SameKey(t, c) \ TakenOver(t, c) # {} THEN Absorbed(t, c) ELSE Insert(t, c)
    /\ unseen' = unseen \cup {<<t, c>>}
    /\ repeated' = IF t \notin Coalescing /\ \E i \in SameKey(t, c) : PastRequest(i)
                   THEN repeated \cup {<<t, c>>} ELSE repeated \ {<<t, c>>}
    /\ groups' = {MadeAgain(g, <<t, c>>) : g \in groups}
    /\ UNCHANGED stopping

-----------------------------------------------------------------------------
(* Leases *)

\* The due time of a rescan or of a retry passes.
BecomesDue(i) ==
    /\ i \in Pending \ DueRows
    /\ queue' = FallsDue(i)
    /\ UNCHANGED <<rows, groups, stopping, unseen, repeated>>

\* A lease that nobody renews any more runs out.
LeaseExpires(i) ==
    /\ i \in Used \ Renewed /\ rows[i].lease = "live"
    /\ rows' = [rows EXCEPT ![i].lease = "expired"]
    /\ UNCHANGED <<queue, groups, stopping, unseen, repeated>>

Leasable == {i \in DueRows : rows[i].lease # "live"}

\* The first MaxBatch rows that are due and that nobody holds.
DueBatch ==
    {i \in Leasable : Cardinality({j \in Leasable : <<j, i>> \in queue}) <= MaxBatch}

NewGroup(t, members) ==
    [target |-> t, members |-> members, covers |-> {}, lost |-> {},
     received |-> FALSE, phase |-> "leased", answer |-> "none"]

\* BUG: one delivery per lease.
OnePerLease(batch) == {NewGroup(rows[i].target, {i}) : i \in batch}

\* coalesceNotifications: one group per target.
Coalesced(batch) ==
    {NewGroup(t, {i \in batch : rows[i].target = t}) :
        t \in {rows[i].target : i \in batch}}

\* The member of g that comes first in lease order: the one whose request
\* stands for all, and the next one to be completed.
Leads(g, i) == i \in g.members /\ \A j \in g.members : <<i, j>> \in queue

\* A maintenance tick; the next one starts when all its deliveries are over.
LeaseDueNotifications ==
    /\ groups = {} /\ ~stopping /\ DueBatch # {}
    /\ groups' = Coalesced(DueBatch)
    /\ rows' = [i \in Ids |-> IF i \in DueBatch
                              THEN [rows[i] EXCEPT !.lease = "live"] ELSE rows[i]]
    /\ UNCHANGED <<queue, stopping, unseen, repeated>>

-----------------------------------------------------------------------------
(* Delivery: processNotificationGroupContexts *)

Becomes(g, h) == groups' = (groups \ {g}) \cup {h}

\* The changes that the members of g announce, and with them g's request.
Covered(g) ==
    {n \in unseen : /\ n[1] = g.target
                    /\ \/ n[1] \in Coalescing
                       \/ \E i \in g.members : rows[i].change = n[2]}

\* The leader's request.  A destination that receives it reads everything
\* committed for the target so far.
Send(g, received) ==
    /\ g.phase = "leased" /\ ~stopping
    /\ Cardinality({h \in groups : h.phase # "leased"}) < MaxWorkflows
    /\ Becomes(g, [g EXCEPT !.phase = "sent", !.received = received, !.covers = Covered(g)])
    /\ unseen' = IF received THEN {n \in unseen : n[1] # g.target} ELSE unseen
    /\ repeated' = repeated \cap unseen'
    /\ UNCHANGED <<rows, queue, stopping>>

\* SubtitleChanged returns.  A request that was received may still look lost,
\* and one that was not may have been turned down for the time being, as by an
\* active scan ("retry"); skipped, refused and permanent errors give the
\* intents up ("final").
Answer(g, answer) ==
    /\ g.phase = "sent"
    /\ answer = "success" => g.received
    /\ Becomes(g, [g EXCEPT !.phase = "answered", !.answer = answer])
    /\ unseen' = IF answer = "final" THEN unseen \ g.covers ELSE unseen
    /\ repeated' = repeated \cap unseen'
    /\ UNCHANGED <<rows, queue, stopping>>

\* BUG: a finished intent keeps its key.
CompletedKeepingKey(row, answer) ==
    [row EXCEPT !.lease = "none", !.finished = (answer # "retry")]

\* CompleteNotification: a final answer releases the dedupe key, a retry keeps
\* it and sets a later due time.
CompletedRow(row, answer) ==
    IF answer = "retry" THEN [row EXCEPT !.lease = "none"]
    ELSE [row EXCEPT !.lease = "none", !.finished = TRUE, !.keyed = FALSE]

\* The members are completed one after the other; the group ends with its last.
NextMember(g, i) ==
    groups' = (groups \ {g}) \cup
        {h \in {[g EXCEPT !.members = @ \ {i}]} : h.members # {}}

CompleteNotification(g, i) ==
    /\ g.phase = "answered" /\ Leads(g, i) /\ i \notin g.lost
    /\ rows' = [rows EXCEPT ![i] = CompletedRow(@, g.answer)]
    /\ queue' = NotDue(i)
    /\ NextMember(g, i)
    /\ UNCHANGED <<stopping, unseen, repeated>>

\* The completion fails, or is left out because the member's lease was lost:
\* the row stays leased until the lease runs out.
CompletionFails(g, i) ==
    /\ g.phase = "answered" /\ Leads(g, i)
    /\ NextMember(g, i)
    /\ UNCHANGED <<rows, queue, stopping, unseen, repeated>>

\* The leader's renewal fails: the group is abandoned, its leases run out.
LeaderLost(g) ==
    /\ g.phase # "answered"
    /\ groups' = groups \ {g}
    /\ UNCHANGED <<rows, queue, stopping, unseen, repeated>>

\* A follower's renewal fails: that member alone will not be completed.
FollowerLost(g, i) ==
    /\ i \in g.members \ g.lost /\ ~Leads(g, i)
    /\ Becomes(g, [g EXCEPT !.lost = @ \cup {i}])
    /\ UNCHANGED <<rows, queue, stopping, unseen, repeated>>

-----------------------------------------------------------------------------
(* Pruning, shutdown and crash *)

Prunable(i) == rows[i].finished /\ rows[i].lease = "none"

\* pruneNotifications, at the end of a tick: the retention of row i is over.
Prune(i) ==
    /\ groups = {} /\ ~stopping
    /\ i \in Used /\ Prunable(i)
    /\ rows' = [rows EXCEPT ![i] = NoRow]
    /\ UNCHANGED <<queue, groups, stopping, unseen, repeated>>

Shutdown ==
    /\ ~stopping
    /\ stopping' = TRUE
    /\ UNCHANGED <<rows, queue, groups, unseen, repeated>>

\* Shutdown ends a delivery that waits for its turn, or, once the drain is
\* over, one whose request is under way, and gives its leases back as far as it
\* can; one that had not begun keeps them all.
Released(g, freed) ==
    /\ stopping /\ g.phase # "answered"
    /\ groups' = groups \ {g}
    /\ rows' = [i \in Ids |-> IF i \in freed
                              THEN [rows[i] EXCEPT !.lease = "none"] ELSE rows[i]]
    /\ UNCHANGED <<queue, stopping, unseen, repeated>>

\* The next start after a shutdown or a crash; leases stay in the table.
Start ==
    /\ stopping /\ groups = {}
    /\ stopping' = FALSE
    /\ UNCHANGED <<rows, queue, groups, unseen, repeated>>

Crash ==
    /\ groups # {}
    /\ groups' = {} /\ stopping' = TRUE
    /\ UNCHANGED <<rows, queue, unseen, repeated>>

-----------------------------------------------------------------------------

Deliver(g) ==
    \/ \E received \in BOOLEAN : Send(g, received)
    \/ \E answer \in Answers : Answer(g, answer)
    \/ \E i \in g.members : \/ CompleteNotification(g, i) \/ CompletionFails(g, i)
                            \/ FollowerLost(g, i)
    \/ LeaderLost(g)
    \/ \E freed \in SUBSET g.members : Released(g, freed)

Next ==
    \/ \E n \in Notices : Enqueue(n[1], n[2])
    \/ \E i \in Ids : BecomesDue(i) \/ LeaseExpires(i) \/ Prune(i)
    \/ LeaseDueNotifications
    \/ \E g \in groups : Deliver(g)
    \/ Shutdown
    \/ Start
    \/ Crash

Spec == Init /\ [][Next]_vars

-----------------------------------------------------------------------------
(* Properties *)

\* The due rows stand in one order, and only unfinished rows are due.
InDueOrder ==
    /\ queue \subseteq DueRows \X DueRows /\ DueRows \subseteq Pending
    /\ \A i, j \in DueRows : <<i, j>> \in queue \/ <<j, i>> \in queue
    /\ \A i, j \in DueRows : <<i, j>> \in queue /\ <<j, i>> \in queue => i = j
    /\ \A i, j, k \in DueRows : <<i, j>> \in queue /\ <<j, k>> \in queue => <<i, k>> \in queue

\* The table and the deliveries are well formed.  A finished row has released
\* its key and its lease, a key is held once, a row belongs to one delivery,
\* and everything leased or being delivered is due.
TypeOK ==
    /\ rows \in [Ids -> Row \cup {NoRow}]
    /\ groups \subseteq Group
    /\ stopping \in BOOLEAN
    /\ repeated \subseteq unseen /\ unseen \subseteq Notices
    /\ InDueOrder
    /\ \A i \in Used : rows[i].finished => ~rows[i].keyed /\ rows[i].lease = "none"
    /\ \A i \in Used : rows[i].lease # "none" => i \in DueRows
    /\ \A n \in Notices : \A i, j \in SameKey(n[1], n[2]) : i = j
    /\ \A g, h \in groups : g.members \cap h.members # {} => g = h

\* Row i will still bring change n to its destination: it announces n, and its
\* request has not left, or left after n was committed, was not received and
\* is not given up.
Owes(i, n) ==
    /\ rows[i].target = n[1]
    /\ n[1] \in Coalescing \/ rows[i].change = n[2]
    /\ \A g \in groups : i \in g.members =>
           \/ g.phase = "leased"
           \/ n \in g.covers /\ ~g.received /\ g.answer \in {"none", "retry"}

\* Whatever interleaving of changes, deliveries, lost leases, stops and
\* crashes: a change its destination has not been told of always has an
\* intent that will still be sent.  In particular a change that arrives while
\* an intent with its coalescing key is being delivered is not absorbed by it
\* (enqueueNotification), and dedupe keys of finished intents do not swallow a
\* subtitle published again (CompleteNotification).
NoLostNotice ==
    \A n \in unseen \ repeated : \E i \in Pending : Owes(i, n)

\* The outbox is well typed and owes every change its notice
\* (enqueueNotification, CompleteNotification).
OutboxInv == TypeOK /\ NoLostNotice

\* One destination never has two requests for the same target under way,
\* which Silo would reject as duplicates of an active scan
\* (coalesceNotifications).
OneRequestPerTarget ==
    \A g, h \in groups :
        g.phase = "sent" /\ h.phase = "sent" /\ g.target = h.target => g = h

\* Time passes, maintenance ticks, a stopped process is started again, and a
\* delivery that is under way ends; a destination that is asked again and
\* again receives a request some time, and a completion that is tried again
\* and again is recorded some time.
Fairness ==
    /\ \A i \in Ids : WF_vars(BecomesDue(i)) /\ WF_vars(LeaseExpires(i))
    /\ SF_vars(LeaseDueNotifications)
    /\ WF_vars(Start)
    /\ WF_vars(\E g \in groups : Deliver(g))
    /\ \A t \in Targets :
           /\ SF_vars(\E g \in groups : g.target = t /\ Send(g, TRUE))
           /\ SF_vars(\E g \in groups, a \in Answers : g.target = t /\ Answer(g, a))
    /\ \A i \in Ids :
           SF_vars(\E g \in groups : i \in g.members /\ CompleteNotification(g, i))

LiveSpec == Spec /\ Fairness

\* Every change is eventually brought to its destination or given up on its
\* answer, also when the changes never stop: absorbed changes cannot postpone
\* the intent that covers them, and leases left by a crash or a lost renewal
\* are taken over.
EveryChangeNotified ==
    \A n \in Notices : n \in unseen \ repeated ~> n \notin unseen \ repeated

=============================================================================
