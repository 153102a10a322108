---------------------------- MODULE ManualSlots ----------------------------
(***************************************************************************)
(* The daemon's slots for manual searches (internal/app/manual_search.go): *)
(* a counting semaphore that grants its waiters in the order they arrived. *)
(*                                                                         *)
(* Each section under the mutex is one action.  A slot is handed over by   *)
(* closing the waiter's channel, so a caller owns it from then on, awake   *)
(* or not; its context may end before it wakes, or before it takes the     *)
(* mutex to leave the queue, and the slot has to be passed on.             *)
(***************************************************************************)
EXTENDS Integers, Sequences, FiniteSets

CONSTANTS
    Callers,    \* goroutines that run manual searches
    Slots       \* manualSearchSlots

ASSUME CallersAssumption == IsFiniteSet(Callers)

ASSUME SlotsAssumption == Slots \in Nat \ {0}

VARIABLES
    free,       \* slots nobody owns
    waiters,    \* callers whose channel is in the queue, longest waiting first
    owns,       \* callers a slot was given to
    pc          \* where each caller is

slotVars == <<free, waiters, owns, pc>>

InQueue(c) == \E i \in 1..Len(waiters) : waiters[i] = c

SlotsInit ==
    /\ free = Slots
    /\ waiters = <<>>
    /\ owns = {}
    /\ pc = [c \in Callers |-> "idle"]

-----------------------------------------------------------------------------
(* Operations *)

\* acquire: a free slot is taken at once, but only when nobody waits.
Acquire(c) ==
    /\ pc[c] = "idle"
    /\ IF free > 0 /\ waiters = <<>>
       THEN /\ free' = free - 1
            /\ owns' = owns \cup {c}
            /\ pc' = [pc EXCEPT ![c] = "running"]
            /\ UNCHANGED waiters
       ELSE /\ waiters' = Append(waiters, c)
            /\ pc' = [pc EXCEPT ![c] = "waiting"]
            /\ UNCHANGED <<free, owns>>

\* The waiter finds its channel closed.
Granted(c) ==
    /\ pc[c] = "waiting" /\ c \in owns
    /\ pc' = [pc EXCEPT ![c] = "running"]
    /\ UNCHANGED <<free, waiters, owns>>

\* The waiter's context ends first, or select picks it over a closed channel.
ContextEnds(c) ==
    /\ pc[c] = "waiting"
    /\ pc' = [pc EXCEPT ![c] = "leaving"]
    /\ UNCHANGED <<free, waiters, owns>>

\* Still queued: its channel is taken out of the queue.
LeaveQueue(c) ==
    /\ pc[c] = "leaving"
    /\ \E i \in 1..Len(waiters) :
          /\ waiters[i] = c
          /\ waiters' = [j \in 1..(Len(waiters) - 1) |->
                            IF j < i THEN waiters[j] ELSE waiters[j + 1]]
    /\ pc' = [pc EXCEPT ![c] = "idle"]
    /\ UNCHANGED <<free, owns>>

\* Faulty variant: the slot becomes free although somebody waits.
FreedSlot(c) ==
    /\ free' = free + 1
    /\ owns' = owns \ {c}
    /\ UNCHANGED waiters

\* Faulty variant: the latest waiter is served first.
HandedToLatest(c) ==
    IF waiters # <<>>
    THEN /\ owns' = (owns \ {c}) \cup {waiters[Len(waiters)]}
         /\ waiters' = SubSeq(waiters, 1, Len(waiters) - 1)
         /\ UNCHANGED free
    ELSE /\ owns' = owns \ {c}
         /\ free' = free + 1
         /\ UNCHANGED waiters

\* Faulty variant: a slot handed over is counted as free as well.
HandedAndFreed(c) ==
    IF waiters # <<>>
    THEN /\ owns' = (owns \ {c}) \cup {Head(waiters)}
         /\ waiters' = Tail(waiters)
         /\ free' = free + 1
    ELSE /\ owns' = owns \ {c}
         /\ free' = free + 1
         /\ UNCHANGED waiters

\* release: the slot goes to the longest waiter, or becomes free.
Released(c) ==
    IF waiters # <<>>
    THEN /\ owns' = (owns \ {c}) \cup {Head(waiters)}
         /\ waiters' = Tail(waiters)
         /\ UNCHANGED free
    ELSE /\ owns' = owns \ {c}
         /\ free' = free + 1
         /\ UNCHANGED waiters

\* Faulty variant: a slot granted as the context ended is kept.
KeepsSlot(c) ==
    /\ pc[c] = "leaving" /\ ~InQueue(c)
    /\ pc' = [pc EXCEPT ![c] = "idle"]
    /\ UNCHANGED <<free, waiters, owns>>

\* No longer queued: the slot was granted as the context ended.
PassOn(c) ==
    /\ pc[c] = "leaving" /\ ~InQueue(c)
    /\ Released(c)
    /\ pc' = [pc EXCEPT ![c] = "idle"]

\* The search is over, or panicked: the deferred release.
Finish(c) ==
    /\ pc[c] = "running"
    /\ Released(c)
    /\ pc' = [pc EXCEPT ![c] = "idle"]

-----------------------------------------------------------------------------
(* Specification *)

SlotsNext ==
    \E c \in Callers : \/ Acquire(c) \/ Granted(c) \/ ContextEnds(c)
                       \/ LeaveQueue(c) \/ PassOn(c) \/ Finish(c)

SlotsSpec == SlotsInit /\ [][SlotsNext]_slotVars

\* A search is bounded by its time limit, and a goroutine that can run does.
SlotsFairness ==
    \A c \in Callers : /\ WF_slotVars(Granted(c)) /\ WF_slotVars(LeaveQueue(c))
                       /\ WF_slotVars(PassOn(c)) /\ WF_slotVars(Finish(c))

SlotsLiveSpec == SlotsSpec /\ SlotsFairness

-----------------------------------------------------------------------------
(* Properties *)

\* The queue holds callers, a slot is owned by a caller, and free never goes
\* below zero.
SlotsTypeOK ==
    /\ free \in Nat
    /\ waiters \in Seq(Callers)
    /\ owns \in SUBSET Callers
    /\ pc \in [Callers -> {"idle", "waiting", "leaving", "running"}]

\* No slot is lost or made up: what is free and what is owned add up to the
\* daemon's slots, also when a context ends as release closes the channel.
SlotsConserved == free + Cardinality(owns) = Slots

\* A slot is owned by a caller that will give it back, and the queue holds
\* exactly the callers that wait for one, each once.
OwnersAndWaiters ==
    /\ \A c \in Callers :
          /\ c \in owns => pc[c] # "idle"
          /\ pc[c] = "running" => c \in owns
          /\ InQueue(c) <=> pc[c] \in {"waiting", "leaving"} /\ c \notin owns
    /\ \A i, j \in 1..Len(waiters) : waiters[i] = waiters[j] => i = j

\* Every slot is free or with a caller that will give it back, and every
\* caller that waits is in the queue (acquire, release).
SlotsSound == SlotsConserved /\ OwnersAndWaiters

\* Nobody waits while a slot is free.
NoIdleSlot == free > 0 => waiters = <<>>

\* Slots are granted strictly in the order of arrival: a caller gets one only
\* once nobody is queued ahead of it, and a caller that just arrived never
\* takes one past the queue.
NoOvertaking ==
    [][\A c \in owns' \ owns : \A i \in 1..Len(waiters) :
            \E j \in 1..i : waiters[j] = c]_slotVars

\* A waiting caller gets its slot or gives up.
WaiterServed ==
    \A c \in Callers : pc[c] = "waiting" ~> pc[c] \in {"running", "idle"}

=============================================================================
