----------------------------- MODULE MCWaiting ------------------------------
(***************************************************************************)
(* Two queues in which whoever waits must be served, checked in one run:   *)
(* the slots for manual searches and the notification outbox.  They share  *)
(* no state: a behaviour moves one and leaves the other empty.             *)
(***************************************************************************)
EXTENDS ManualSlots

CONSTANTS silo, arr, c0, c1, Coalescing, MaxRows, MaxBatch, MaxWorkflows, NoRow

VARIABLES rows, queue, groups, stopping, unseen, repeated,
          topic     \* the queue that moves

\* One subtitle in a directory that Silo scans, one series that Arr rescans.
NO == INSTANCE Notifications WITH Notices <- {<<silo, c1>>, <<arr, c0>>}

outboxVars == <<rows, queue, groups, stopping, unseen, repeated>>
vars == <<slotVars, outboxVars, topic>>

Init == topic \in {"slots", "outbox"} /\ SlotsInit /\ NO!Init

Next ==
    /\ UNCHANGED topic
    /\ \/ topic = "slots" /\ SlotsNext /\ UNCHANGED outboxVars
       \/ topic = "outbox" /\ NO!Next /\ UNCHANGED slotVars

\* An empty queue has nothing that fairness would ask of it.
Spec == Init /\ [][Next]_vars /\ SlotsFairness /\ NO!Fairness

\* Every change is eventually brought to its destination or given up on its
\* answer (Notifications).
EveryChangeNotified == NO!EveryChangeNotified
=============================================================================
