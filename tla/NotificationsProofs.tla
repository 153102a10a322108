------------------------- MODULE NotificationsProofs -------------------------
(***************************************************************************)
(* TLAPS proofs about Notifications, for every set of notices, coalescing  *)
(* targets and bounds.  The inductive invariant adds to OutboxInv what ties *)
(* the deliveries to the table: a member of a delivery is a leased row of  *)
(* the delivery's target, and no two deliveries have the same target.      *)
(***************************************************************************)
EXTENDS Notifications, TLAPS

-----------------------------------------------------------------------------
(* The inductive invariant *)

\* The table: finished rows have let go of key and lease, a key is held once.
TableSound ==
  /\ rows \in [Ids -> Row \cup {NoRow}]
  /\ \A i \in Used : rows[i].finished => ~rows[i].keyed /\ rows[i].lease = "none"
  /\ \A n \in Notices : \A i, j \in SameKey(n[1], n[2]) : i = j

\* The due order: only pending rows are due, and every leased row is.
OrderSound ==
  /\ InDueOrder
  /\ \A i \in Used : rows[i].lease # "none" => i \in DueRows

\* The deliveries: their members are leased rows of their target.
MembersLeased ==
  \A g \in groups : \A i \in g.members :
    i \in Used /\ rows[i].target = g.target /\ rows[i].lease # "none"

GroupsApart == \A g, h \in groups : g.target = h.target => g = h

Unanswered == \A g \in groups : g.phase # "answered" <=> g.answer = "none"

GroupsSound == groups \subseteq Group /\ MembersLeased /\ GroupsApart /\ Unanswered

HistorySound ==
  /\ stopping \in BOOLEAN
  /\ repeated \subseteq unseen /\ unseen \subseteq Notices

DeliveryInv == TableSound /\ OrderSound /\ GroupsSound /\ HistorySound /\ NoLostNotice

\* The inductive invariant implies the two properties.
LEMMA InvImplies == DeliveryInv => OutboxInv /\ OneRequestPerTarget
<1> SUFFICES ASSUME DeliveryInv PROVE OutboxInv /\ OneRequestPerTarget
  OBVIOUS
<1> USE DEF DeliveryInv
<1>1. \A g, h \in groups : g.members \cap h.members # {} => g = h
  BY DEF GroupsSound, MembersLeased, GroupsApart
<1>2. TypeOK
  BY <1>1 DEF TypeOK, TableSound, OrderSound, GroupsSound, HistorySound
<1>3. OneRequestPerTarget
  BY DEF OneRequestPerTarget, GroupsSound, GroupsApart
<1> QED
  BY <1>2, <1>3 DEF OutboxInv

LEMMA InitInv == Init => DeliveryInv
<1> SUFFICES ASSUME Init PROVE DeliveryInv
  OBVIOUS
<1>1. Used = {} /\ DueRows = {}
  BY DEF Init, Used, DueRows
<1>2. TableSound
  BY <1>1 DEF Init, TableSound, SameKey
<1>3. OrderSound
  BY <1>1 DEF Init, OrderSound, InDueOrder
<1>4. GroupsSound
  BY DEF Init, GroupsSound, MembersLeased, GroupsApart, Unanswered
<1>5. stopping \in BOOLEAN
  BY Zenon DEF Init
<1>6. HistorySound /\ NoLostNotice
  BY <1>5 DEF Init, HistorySound, NoLostNotice
<1> QED
  BY <1>2, <1>3, <1>4, <1>6 DEF DeliveryInv

-----------------------------------------------------------------------------
(* What the parts of the state are *)

LEMMA RowType ==
  ASSUME TableSound, NEW i \in Used
  PROVE  /\ i \in Ids /\ rows[i] \in Row
         /\ rows[i].target \in Targets /\ rows[i].change \in Changes
         /\ rows[i].keyed \in BOOLEAN /\ rows[i].finished \in BOOLEAN
         /\ rows[i].lease \in {"none", "live", "expired"}
<1>1. i \in Ids /\ rows[i] \in Row
  BY DEF Used, TableSound
<1> QED
  BY <1>1 DEF Row

LEMMA GroupType ==
  ASSUME GroupsSound, NEW g \in groups
  PROVE  /\ g \in Group
         /\ g.target \in Targets /\ g.members \subseteq Ids /\ g.covers \subseteq Notices
         /\ g.lost \subseteq Ids /\ g.received \in BOOLEAN
         /\ g.phase \in {"leased", "sent", "answered"} /\ g.answer \in Answers \cup {"none"}
<1>1. g \in Group
  BY DEF GroupsSound
<1> QED
  BY <1>1 DEF Group

\* Every notice is a target and a change of its own.
LEMMA NoticeType ==
  ASSUME NEW n \in Notices
  PROVE  n = <<n[1], n[2]>> /\ n[1] \in Targets /\ n[2] \in Changes
<1>1. PICK m \in Notices : n = <<m[1], m[2]>>
  BY NoticesAssumption
<1> QED
  BY <1>1 DEF Targets, Changes

-----------------------------------------------------------------------------
(* The due order *)

\* A row that falls due becomes the last.
LEMMA FallsDueOrder ==
  ASSUME InDueOrder, NEW i \in Ids \ DueRows, queue' = FallsDue(i)
  PROVE  /\ DueRows' = DueRows \cup {i}
         /\ queue' \subseteq DueRows' \X DueRows'
         /\ \A j, k \in DueRows' : <<j, k>> \in queue' \/ <<k, j>> \in queue'
         /\ \A j, k \in DueRows' : <<j, k>> \in queue' /\ <<k, j>> \in queue' => j = k
         /\ \A j, k, l \in DueRows' :
              <<j, k>> \in queue' /\ <<k, l>> \in queue' => <<j, l>> \in queue'
<1>1. \A j, k : <<j, k>> \in queue' <=>
                  <<j, k>> \in queue \/ (k = i /\ j \in DueRows \cup {i})
  BY DEF FallsDue
<1>2. \A j, k : <<j, k>> \in queue => j \in DueRows /\ k \in DueRows
  BY DEF InDueOrder
<1>3. DueRows' = DueRows \cup {i}
  BY <1>1 DEF DueRows
<1>4. queue' \subseteq DueRows' \X DueRows'
  BY <1>3 DEF InDueOrder, FallsDue
<1> QED
  BY <1>1, <1>2, <1>3, <1>4 DEF InDueOrder

\* The others keep their order when a row is no longer due.
LEMMA NotDueOrder ==
  ASSUME InDueOrder, NEW i \in Ids, queue' = NotDue(i)
  PROVE  /\ DueRows' = DueRows \ {i}
         /\ queue' \subseteq DueRows' \X DueRows'
         /\ \A j, k \in DueRows' : <<j, k>> \in queue' \/ <<k, j>> \in queue'
         /\ \A j, k \in DueRows' : <<j, k>> \in queue' /\ <<k, j>> \in queue' => j = k
         /\ \A j, k, l \in DueRows' :
              <<j, k>> \in queue' /\ <<k, l>> \in queue' => <<j, l>> \in queue'
<1>1. \A j, k : <<j, k>> \in queue' <=> <<j, k>> \in queue /\ j # i /\ k # i
  BY DEF NotDue
<1>2. \A j, k : <<j, k>> \in queue => j \in DueRows /\ k \in DueRows
  BY DEF InDueOrder
<1>3. DueRows' = DueRows \ {i}
  BY <1>1 DEF DueRows
<1>4. queue' \subseteq DueRows' \X DueRows'
  BY <1>3 DEF InDueOrder, NotDue
<1> QED
  BY <1>1, <1>2, <1>3, <1>4 DEF InDueOrder

\* The order needs nothing else of the table than who is pending and leased.
LEMMA OrderKept ==
  ASSUME OrderSound, queue' = queue, Pending \subseteq Pending',
         \A i \in Used' : rows'[i].lease # "none" => i \in DueRows
  PROVE  OrderSound'
<1>1. DueRows' = DueRows
  BY DEF DueRows
<1> QED
  BY <1>1 DEF OrderSound, InDueOrder

\* The table that does not change.
LEMMA TableStays ==
  ASSUME TableSound, rows' = rows
  PROVE  TableSound' /\ Used' = Used /\ Pending' = Pending
<1>1. Used' = Used
  BY DEF Used
<1>2. Pending' = Pending
  BY <1>1 DEF Pending
<1>3. \A n \in Notices : SameKey(n[1], n[2])' = SameKey(n[1], n[2])
  BY <1>1 DEF SameKey
<1> QED
  BY <1>1, <1>2, <1>3 DEF TableSound

\* The table in which only leases change.
LEMMA LeasesChange ==
  ASSUME TableSound, NEW S \in SUBSET Pending, NEW l \in {"none", "live", "expired"},
         rows' = [i \in Ids |-> IF i \in S THEN [rows[i] EXCEPT !.lease = l] ELSE rows[i]]
  PROVE  /\ TableSound' /\ Used' = Used /\ Pending' = Pending
         /\ \A i \in Used : /\ rows'[i].target = rows[i].target /\ rows'[i].change = rows[i].change
                            /\ rows'[i].lease = IF i \in S THEN l ELSE rows[i].lease
<1>1. \A i \in Used : /\ rows'[i] \in Row /\ rows'[i].target = rows[i].target
                      /\ rows'[i].change = rows[i].change /\ rows'[i].keyed = rows[i].keyed
                      /\ rows'[i].finished = rows[i].finished
                      /\ rows'[i].lease = IF i \in S THEN l ELSE rows[i].lease
  <2> TAKE i \in Used
  <2>1. i \in Ids /\ rows[i] \in Row
    BY RowType
  <2>2. CASE i \in S
    <3>1. rows'[i] = [rows[i] EXCEPT !.lease = l]
      BY <2>1, <2>2
    <3> QED
      BY <2>1, <2>2, <3>1 DEF Row
  <2>3. CASE i \notin S
    BY <2>1, <2>3
  <2> QED
    BY <2>2, <2>3
<1>2. \A i \in Ids \ Used : rows'[i] = NoRow
  BY DEF Used, Pending
<1>3. Used' = Used
  BY <1>1, <1>2, NoRowAssumption DEF Used
<1>4. Pending' = Pending
  BY <1>1, <1>3 DEF Pending
<1>5. \A n \in Notices : SameKey(n[1], n[2])' = SameKey(n[1], n[2])
  BY <1>1, <1>3 DEF SameKey
<1>6. rows' \in [Ids -> Row \cup {NoRow}]
  <2>1. \A i \in Ids : rows'[i] \in Row \cup {NoRow}
    BY <1>1, <1>2 DEF Used
  <2>2. DOMAIN rows' = Ids /\ rows' = [i \in Ids |-> rows'[i]]
    OBVIOUS
  <2> QED
    BY <2>1, <2>2
<1>7. \A i \in Used' : rows'[i].finished => ~rows'[i].keyed /\ rows'[i].lease = "none"
  BY <1>1, <1>3 DEF TableSound, Pending
<1>8. TableSound'
  BY <1>5, <1>6, <1>7 DEF TableSound
<1> QED
  BY <1>1, <1>3, <1>4, <1>8

-----------------------------------------------------------------------------
(* Queuing an intent *)

\* Who owed a change still does.
LEMMA NoticesKept ==
  ASSUME NoLostNotice, unseen' \ repeated' \subseteq unseen \ repeated,
         \A n \in unseen' \ repeated' : \A i \in Pending :
            Owes(i, n) => i \in Pending' /\ Owes(i, n)'
  PROVE  NoLostNotice'
BY DEF NoLostNotice

\* A change made again is no longer covered by what was sent before.
LEMMA MadeAgainGroups ==
  ASSUME GroupsSound, NEW n, groups' = {MadeAgain(g, n) : g \in groups},
         \A i \in Used : /\ i \in Used' /\ rows'[i].target = rows[i].target
                         /\ rows'[i].lease = rows[i].lease
  PROVE  GroupsSound'
<1>1. \A g \in groups : /\ MadeAgain(g, n) \in Group
                        /\ MadeAgain(g, n).target = g.target /\ MadeAgain(g, n).members = g.members
                        /\ MadeAgain(g, n).phase = g.phase /\ MadeAgain(g, n).answer = g.answer
  BY GroupType DEF MadeAgain, Group
<1>2. \A h \in groups' : \E g \in groups : h = MadeAgain(g, n)
  OBVIOUS
<1>3. groups' \subseteq Group /\ Unanswered'
  BY <1>1, <1>2 DEF GroupsSound, Unanswered
<1>4. MembersLeased'
  BY <1>1, <1>2 DEF GroupsSound, MembersLeased
<1>5. GroupsApart'
  BY <1>1, <1>2 DEF GroupsSound, GroupsApart
<1> QED
  BY <1>3, <1>4, <1>5 DEF GroupsSound

\* What an unrelated row owed it still owes.
LEMMA MadeAgainOwes ==
  ASSUME GroupsSound, NEW m, groups' = {MadeAgain(g, m) : g \in groups},
         NEW i \in Used, NEW n, n # m, Owes(i, n),
         rows'[i].target = rows[i].target, rows'[i].change = rows[i].change
  PROVE  Owes(i, n)'
<1>1. \A g \in groups : /\ MadeAgain(g, m).members = g.members /\ MadeAgain(g, m).phase = g.phase
                        /\ MadeAgain(g, m).answer = g.answer
                        /\ MadeAgain(g, m).received = g.received
                        /\ MadeAgain(g, m).covers = g.covers \ {m}
  BY GroupType DEF MadeAgain, Group
<1>2. \A h \in groups' : \E g \in groups : h = MadeAgain(g, m)
  OBVIOUS
<1> QED
  BY <1>1, <1>2 DEF Owes

LEMMA AbsorbedInv ==
  ASSUME DeliveryInv, NEW m \in Notices, Enqueue(m[1], m[2]),
         SameKey(m[1], m[2]) \ TakenOver(m[1], m[2]) # {}
  PROVE  DeliveryInv'
<1> DEFINE t == m[1]
           c == m[2]
<1> USE DEF DeliveryInv
<1>1. /\ rows' = rows /\ queue' = queue /\ stopping' = stopping
      /\ unseen' = unseen \cup {m} /\ groups' = {MadeAgain(g, m) : g \in groups}
      /\ repeated' = IF t \notin Coalescing /\ \E i \in SameKey(t, c) : PastRequest(i)
                     THEN repeated \cup {m} ELSE repeated \ {m}
  BY NoticeType DEF Enqueue, Absorbed
<1>2. TableSound' /\ OrderSound'
  BY <1>1, TableStays, OrderKept DEF OrderSound
<1>3. GroupsSound'
  BY <1>1, MadeAgainGroups DEF Used
<1>4. HistorySound'
  BY <1>1 DEF HistorySound
<1>5. ASSUME NEW n \in unseen' \ repeated'
      PROVE  \E i \in Pending' : Owes(i, n)'
  <2>0. Pending' = Pending
    BY <1>1 DEF Pending, Used
  <2>1. CASE n # m
    <3>1. n \in unseen \ repeated
      BY <1>1, <1>5, <2>1
    <3>2. PICK i \in Pending : Owes(i, n)
      BY <3>1 DEF NoLostNotice
    <3>3. Owes(i, n)'
      BY <1>1, <2>1, <3>2, MadeAgainOwes DEF Pending
    <3> QED
      BY <2>0, <3>3
  <2>2. CASE n = m
    <3>1. PICK i \in SameKey(t, c) : i \notin TakenOver(t, c)
      OBVIOUS
    <3>2. i \in Used /\ rows[i].keyed /\ rows[i].target = t /\ (t \in Coalescing \/ rows[i].change = c)
      BY <3>1 DEF SameKey
    <3>3. i \in Pending
      BY <3>2 DEF TableSound, Pending
    <3>4. ~PastRequest(i)
      <4>1. CASE t \in Coalescing
        <5>1. rows[i].lease = "none"
          BY <3>1, <4>1 DEF TakenOver
        <5> QED
          BY <5>1 DEF PastRequest, GroupsSound, MembersLeased
      <4>2. CASE t \notin Coalescing
        BY <1>1, <1>5, <2>2, <3>1, <4>2
      <4> QED
        BY <4>1, <4>2
    <3>5. \A g \in groups : MadeAgain(g, m).members = g.members /\ MadeAgain(g, m).phase = g.phase
      BY GroupType DEF MadeAgain, Group
    <3>6. \A h \in groups' : i \in h.members => h.phase = "leased"
      BY <1>1, <3>4, <3>5 DEF PastRequest
    <3> QED
      BY <1>1, <2>0, <2>2, <3>2, <3>3, <3>6 DEF Owes
  <2> QED
    BY <2>1, <2>2
<1>6. NoLostNotice'
  BY <1>5 DEF NoLostNotice
<1> QED
  BY <1>2, <1>3, <1>4, <1>6

LEMMA InsertInv ==
  ASSUME DeliveryInv, NEW m \in Notices, Enqueue(m[1], m[2]),
         SameKey(m[1], m[2]) \ TakenOver(m[1], m[2]) = {}
  PROVE  DeliveryInv'
<1> DEFINE t == m[1]
           c == m[2]
           new == CHOOSE i \in Ids : i \notin Used
           row == [target |-> t, change |-> c, keyed |-> TRUE, finished |-> FALSE,
                   lease |-> "none"]
<1> USE DEF DeliveryInv
<1>1. /\ stopping' = stopping /\ unseen' = unseen \cup {m}
      /\ groups' = {MadeAgain(g, m) : g \in groups}
      /\ repeated' = IF t \notin Coalescing /\ \E i \in SameKey(t, c) : PastRequest(i)
                     THEN repeated \cup {m} ELSE repeated \ {m}
      /\ Insert(t, c)
  BY NoticeType DEF Enqueue
<1>2. new \in Ids \ Used
  BY <1>1 DEF Insert, Used
<1>3. /\ rows' = [[i \in Ids |-> IF i \in TakenOver(t, c)
                                 THEN [rows[i] EXCEPT !.keyed = FALSE] ELSE rows[i]]
                    EXCEPT ![new] = row]
      /\ queue' = IF t \in Coalescing THEN queue ELSE FallsDue(new)
  BY <1>1 DEF Insert
<1>4. TakenOver(t, c) \subseteq Used
  BY DEF TakenOver, SameKey
<1>5. row \in Row /\ row # NoRow
  <2>1. t \in Targets /\ c \in Changes
    BY NoticeType
  <2>2. row \in Row
    BY <2>1 DEF Row
  <2> QED
    BY <2>2, NoRowAssumption
<1> HIDE DEF new, row
<1>6. rows'[new] = row
  BY <1>2, <1>3
<1>7. \A i \in Used : rows'[i] = IF i \in TakenOver(t, c) THEN [rows[i] EXCEPT !.keyed = FALSE] ELSE rows[i]
  BY <1>2, <1>3 DEF Used
<1>8. \A i \in Used : /\ rows'[i] \in Row /\ rows'[i] # NoRow /\ rows'[i].target = rows[i].target
                      /\ rows'[i].change = rows[i].change /\ rows'[i].lease = rows[i].lease
                      /\ rows'[i].finished = rows[i].finished
                      /\ rows'[i].keyed = (rows[i].keyed /\ i \notin TakenOver(t, c))
  <2> TAKE i \in Used
  <2>1. rows[i] \in Row /\ rows[i].keyed \in BOOLEAN
    BY RowType
  <2>2. CASE i \in TakenOver(t, c)
    <3>1. rows'[i] = [rows[i] EXCEPT !.keyed = FALSE]
      BY <1>7, <2>2
    <3>2. rows'[i] \in Row
      BY <2>1, <3>1 DEF Row
    <3> QED
      BY <2>1, <2>2, <3>1, <3>2, NoRowAssumption DEF Row
  <2>3. CASE i \notin TakenOver(t, c)
    BY <1>7, <2>1, <2>3, NoRowAssumption
  <2> QED
    BY <2>2, <2>3
<1>9. \A i \in Ids \ Used : i # new => rows'[i] = NoRow
  BY <1>2, <1>3, <1>4 DEF Used
<1>10. Used' = Used \cup {new}
  BY <1>2, <1>5, <1>6, <1>8, <1>9 DEF Used
<1>11. /\ row.target = t /\ row.change = c /\ row.keyed = TRUE /\ row.finished = FALSE
       /\ row.lease = "none"
  BY DEF row
<1>12. Pending' = Pending \cup {new}
  BY <1>6, <1>8, <1>10, <1>11 DEF Pending
<1>13. SameKey(t, c)' = {new}
  BY <1>2, <1>6, <1>8, <1>10, <1>11 DEF SameKey
<1>14. TableSound'
  <2>1. rows' \in [Ids -> Row \cup {NoRow}]
    <3>1. DOMAIN rows' = Ids /\ rows' = [i \in Ids |-> rows'[i]]
      BY <1>3
    <3>2. \A i \in Ids : rows'[i] \in Row \cup {NoRow}
      BY <1>5, <1>6, <1>8, <1>9, <1>10 DEF Used
    <3> QED
      BY <3>1, <3>2
  <2>2. \A i \in Used' : rows'[i].finished => ~rows'[i].keyed /\ rows'[i].lease = "none"
    BY <1>6, <1>8, <1>10, <1>11 DEF TableSound
  <2>3. ASSUME NEW n \in Notices, NEW i \in SameKey(n[1], n[2])', NEW j \in SameKey(n[1], n[2])'
        PROVE  i = j
    <3>1. CASE i \in Used /\ j \in Used
      <4>1. i \in SameKey(n[1], n[2]) /\ j \in SameKey(n[1], n[2])
        BY <1>8, <2>3, <3>1 DEF SameKey
      <4> QED
        BY <4>1 DEF TableSound
    <3>2. CASE i = new \/ j = new
      <4>1. n[1] = t /\ (t \in Coalescing \/ n[2] = c)
        BY <1>6, <1>11, <2>3, <3>2 DEF SameKey
      <4>2. i \in SameKey(t, c)' /\ j \in SameKey(t, c)'
        BY <2>3, <4>1 DEF SameKey
      <4> QED
        BY <1>13, <4>2
    <3> QED
      BY <1>10, <2>3, <3>1, <3>2 DEF SameKey
  <2> QED
    BY <2>1, <2>2, <2>3 DEF TableSound
<1>15. OrderSound'
  <2>1. CASE t \in Coalescing
    <3>1. queue' = queue
      BY <1>3, <2>1
    <3> QED
      BY <1>6, <1>8, <1>10, <1>11, <1>12, <3>1, OrderKept DEF OrderSound
  <2>2. CASE t \notin Coalescing
    <3>1. queue' = FallsDue(new) /\ new \in Ids \ DueRows
      BY <1>2, <1>3, <2>2 DEF OrderSound, InDueOrder, Pending
    <3>2. InDueOrder'
      BY <1>12, <3>1, FallsDueOrder DEF InDueOrder, OrderSound
    <3>3. DueRows' = DueRows \cup {new}
      BY <3>1, FallsDueOrder DEF OrderSound
    <3> QED
      BY <1>6, <1>8, <1>10, <1>11, <3>2, <3>3 DEF OrderSound
  <2> QED
    BY <2>1, <2>2
<1>16. GroupsSound'
  BY <1>1, <1>8, <1>10, MadeAgainGroups
<1>17. HistorySound'
  BY <1>1 DEF HistorySound
<1>18. ASSUME NEW n \in unseen' \ repeated'
       PROVE  \E i \in Pending' : Owes(i, n)'
  <2>1. CASE n # m
    <3>1. n \in unseen \ repeated
      BY <1>1, <1>18, <2>1
    <3>2. PICK i \in Pending : Owes(i, n)
      BY <3>1 DEF NoLostNotice
    <3>3. Owes(i, n)'
      BY <1>1, <1>8, <2>1, <3>2, MadeAgainOwes DEF Pending
    <3> QED
      BY <1>12, <3>3
  <2>2. CASE n = m
    <3>1. \A h \in groups' : new \notin h.members
      <4>1. \A g \in groups : MadeAgain(g, m).members = g.members /\ new \notin g.members
        BY <1>2, GroupType DEF MadeAgain, Group, GroupsSound, MembersLeased
      <4> QED
        BY <1>1, <4>1
    <3> QED
      BY <1>6, <1>11, <1>12, <2>2, <3>1 DEF Owes
  <2> QED
    BY <2>1, <2>2
<1>19. NoLostNotice'
  BY <1>18 DEF NoLostNotice
<1> QED
  BY <1>14, <1>15, <1>16, <1>17, <1>19

-----------------------------------------------------------------------------
(* Deliveries that end, and deliveries that change *)

\* Some deliveries end; the rows of the others keep target and lease.
LEMMA GroupsEnd ==
  ASSUME GroupsSound, groups' \subseteq groups,
         \A g \in groups' : \A i \in g.members :
            i \in Used' /\ rows'[i].target = rows[i].target /\ rows'[i].lease # "none"
  PROVE  GroupsSound'
BY DEF GroupsSound, MembersLeased, GroupsApart, Unanswered

\* One delivery becomes another of the same target, with no new members.
LEMMA GroupBecomes ==
  ASSUME GroupsSound, NEW g \in groups, NEW h \in Group,
         groups' \subseteq (groups \ {g}) \cup {h},
         h.target = g.target, h.members \subseteq g.members,
         h.phase # "answered" <=> h.answer = "none",
         \A i \in (UNION {f.members : f \in groups \ {g}}) \cup h.members :
            i \in Used => i \in Used' /\ rows'[i].target = rows[i].target /\ rows'[i].lease # "none"
  PROVE  GroupsSound'
<1>1. groups' \subseteq Group /\ Unanswered'
  BY DEF GroupsSound, Unanswered
<1>2. GroupsApart'
  BY DEF GroupsSound, GroupsApart
<1>3. ASSUME NEW f \in groups', NEW i \in f.members
      PROVE  i \in Used' /\ rows'[i].target = f.target /\ rows'[i].lease # "none"
  <2>1. CASE f = h
    BY <1>3, <2>1 DEF GroupsSound, MembersLeased
  <2>2. CASE f # h
    <3>1. f \in groups \ {g}
      BY <1>3, <2>2
    <3>2. i \in Used /\ rows[i].target = f.target
      BY <1>3, <3>1 DEF GroupsSound, MembersLeased
    <3> QED
      BY <1>3, <3>1, <3>2
  <2> QED
    BY <2>1, <2>2
<1> QED
  BY <1>1, <1>2, <1>3 DEF GroupsSound, MembersLeased

\* A member of g is a pending row and in no other delivery.
LEMMA MemberType ==
  ASSUME DeliveryInv, NEW g \in groups, NEW i \in g.members
  PROVE  /\ i \in Pending /\ i \in Used /\ i \in Ids /\ i \in DueRows
         /\ rows[i].target = g.target /\ rows[i].lease # "none"
         /\ \A h \in groups : i \in h.members => h = g
<1> USE DEF DeliveryInv
<1>1. i \in Used /\ rows[i].target = g.target /\ rows[i].lease # "none"
  BY DEF GroupsSound, MembersLeased
<1>2. i \in DueRows /\ i \in Pending
  BY <1>1 DEF OrderSound, InDueOrder
<1>3. \A h \in groups : i \in h.members => h = g
  BY <1>1 DEF GroupsSound, MembersLeased, GroupsApart
<1> QED
  BY <1>1, <1>2, <1>3 DEF Used

-----------------------------------------------------------------------------
(* Time, pruning, shutdown *)

LEMMA BecomesDueInv == ASSUME DeliveryInv, NEW i \in Ids, BecomesDue(i) PROVE DeliveryInv'
<1> USE DEF DeliveryInv
<1>1. /\ i \in Pending \ DueRows /\ queue' = FallsDue(i)
      /\ rows' = rows /\ groups' = groups /\ stopping' = stopping
      /\ unseen' = unseen /\ repeated' = repeated
  BY DEF BecomesDue
<1>2. TableSound' /\ Used' = Used /\ Pending' = Pending
  BY <1>1, TableStays
<1>3. OrderSound'
  <2>1. i \in Ids \ DueRows /\ InDueOrder
    BY <1>1 DEF OrderSound
  <2>2. DueRows' = DueRows \cup {i}
    BY <1>1, <2>1, FallsDueOrder
  <2>3. InDueOrder'
    BY <1>1, <1>2, <2>1, FallsDueOrder DEF InDueOrder
  <2> QED
    BY <1>1, <1>2, <2>2, <2>3 DEF OrderSound
<1>4. GroupsSound' /\ HistorySound' /\ NoLostNotice'
  BY <1>1, <1>2 DEF GroupsSound, MembersLeased, GroupsApart, Unanswered, HistorySound, NoLostNotice, Owes
<1> QED
  BY <1>2, <1>3, <1>4

LEMMA LeaseExpiresInv == ASSUME DeliveryInv, NEW i \in Ids, LeaseExpires(i) PROVE DeliveryInv'
<1> USE DEF DeliveryInv
<1>1. /\ i \in Used /\ rows[i].lease = "live" /\ rows' = [rows EXCEPT ![i].lease = "expired"]
      /\ queue' = queue /\ groups' = groups /\ stopping' = stopping
      /\ unseen' = unseen /\ repeated' = repeated
  BY DEF LeaseExpires
<1>2. i \in Pending
  BY <1>1 DEF OrderSound, InDueOrder
<1>3. rows' = [j \in Ids |-> IF j \in {i} THEN [rows[j] EXCEPT !.lease = "expired"] ELSE rows[j]]
  BY <1>1 DEF TableSound
<1>4. /\ TableSound' /\ Used' = Used /\ Pending' = Pending
      /\ \A j \in Used : /\ rows'[j].target = rows[j].target /\ rows'[j].change = rows[j].change
                         /\ rows'[j].lease = IF j \in {i} THEN "expired" ELSE rows[j].lease
  <2>1. {i} \in SUBSET Pending /\ TableSound
    BY <1>2
  <2> QED
    BY <1>3, <2>1, LeasesChange
<1>5. OrderSound'
  BY <1>1, <1>4, OrderKept DEF OrderSound
<1>6. GroupsSound'
  BY <1>1, <1>4, GroupsEnd DEF GroupsSound, MembersLeased
<1>7. NoLostNotice'
  BY <1>1, <1>4 DEF NoLostNotice, Owes, Pending
<1> QED
  BY <1>1, <1>4, <1>5, <1>6, <1>7 DEF HistorySound

LEMMA PruneInv == ASSUME DeliveryInv, NEW i \in Ids, Prune(i) PROVE DeliveryInv'
<1> USE DEF DeliveryInv
<1>1. /\ groups = {} /\ i \in Used /\ rows[i].finished /\ rows[i].lease = "none"
      /\ rows' = [rows EXCEPT ![i] = NoRow] /\ queue' = queue /\ groups' = groups
      /\ stopping' = stopping /\ unseen' = unseen /\ repeated' = repeated
  BY DEF Prune, Prunable
<1>2. \A j \in Ids : rows'[j] = IF j = i THEN NoRow ELSE rows[j]
  BY <1>1 DEF TableSound
<1>3. Used' = Used \ {i}
  BY <1>2 DEF Used
<1>4. \A j \in Used' : j \in Used /\ rows'[j] = rows[j]
  BY <1>2, <1>3 DEF Used
<1>5. Pending' = Pending
  BY <1>1, <1>3, <1>4 DEF Pending
<1>6. TableSound'
  <2>1. rows' \in [Ids -> Row \cup {NoRow}]
    BY <1>1 DEF TableSound
  <2>2. \A n \in Notices : SameKey(n[1], n[2])' \subseteq SameKey(n[1], n[2])
    BY <1>4 DEF SameKey
  <2> QED
    BY <1>4, <2>1, <2>2 DEF TableSound
<1>7. OrderSound'
  BY <1>1, <1>4, <1>5, OrderKept DEF OrderSound
<1>8. GroupsSound'
  BY <1>1 DEF GroupsSound, MembersLeased, GroupsApart, Unanswered
<1>9. NoLostNotice'
  BY <1>1, <1>3, <1>4, <1>5 DEF NoLostNotice, Owes, Pending
<1> QED
  BY <1>1, <1>6, <1>7, <1>8, <1>9 DEF HistorySound

\* Shutdown, start and crash change no row; a crash ends every delivery.
LEMMA ProcessInv == ASSUME DeliveryInv, Shutdown \/ Start \/ Crash PROVE DeliveryInv'
<1> USE DEF DeliveryInv
<1>1. /\ rows' = rows /\ queue' = queue /\ unseen' = unseen /\ repeated' = repeated
      /\ groups' \subseteq groups
  BY DEF Shutdown, Start, Crash
<1>2. stopping' \in BOOLEAN
  BY Zenon DEF Shutdown, Start, Crash
<1>3. TableSound' /\ Used' = Used /\ Pending' = Pending
  BY <1>1, TableStays
<1>4. OrderSound'
  BY <1>1, <1>3, OrderKept DEF OrderSound
<1>5. GroupsSound'
  BY <1>1, <1>3, GroupsEnd DEF GroupsSound, MembersLeased
<1>6. NoLostNotice'
  BY <1>1, <1>3 DEF NoLostNotice, Owes
<1> QED
  BY <1>1, <1>2, <1>3, <1>4, <1>5, <1>6 DEF HistorySound

LEMMA LeaseDueInv == ASSUME DeliveryInv, LeaseDueNotifications PROVE DeliveryInv'
<1> USE DEF DeliveryInv
<1>1. /\ groups = {} /\ groups' = Coalesced(DueBatch)
      /\ rows' = [i \in Ids |-> IF i \in DueBatch
                                THEN [rows[i] EXCEPT !.lease = "live"] ELSE rows[i]]
      /\ queue' = queue /\ stopping' = stopping /\ unseen' = unseen /\ repeated' = repeated
  BY DEF LeaseDueNotifications
<1>2. DueBatch \subseteq DueRows /\ DueBatch \subseteq Pending
  BY DEF DueBatch, Leasable, OrderSound, InDueOrder
<1> HIDE DEF DueBatch
<1>3. /\ TableSound' /\ Used' = Used /\ Pending' = Pending
      /\ \A j \in Used : /\ rows'[j].target = rows[j].target /\ rows'[j].change = rows[j].change
                         /\ rows'[j].lease = IF j \in DueBatch THEN "live" ELSE rows[j].lease
  BY <1>1, <1>2, LeasesChange
<1>4. OrderSound'
  BY <1>1, <1>2, <1>3, OrderKept DEF OrderSound
<1>5. ASSUME NEW g \in groups'
      PROVE  /\ g \in Group /\ g.phase = "leased" /\ g.answer = "none"
             /\ g.members = {i \in DueBatch : rows[i].target = g.target}
             /\ g = NewGroup(g.target, g.members)
  <2>1. PICK b \in DueBatch : g = NewGroup(rows[b].target, {i \in DueBatch : rows[i].target = rows[b].target})
    BY <1>1, <1>5 DEF Coalesced
  <2>2. rows[b].target \in Targets
    BY <1>2, <2>1, RowType DEF Pending
  <2>3. DueBatch \subseteq Ids
    BY <1>2 DEF Pending, Used
  <2> DEFINE mem == {i \in DueBatch : rows[i].target = rows[b].target}
  <2>4. mem \subseteq Ids
    BY <2>3
  <2>5. g.target = rows[b].target /\ g.members = mem /\ g.phase = "leased" /\ g.answer = "none"
    BY <2>1 DEF NewGroup
  <2>6. g \in Group
    <3> HIDE DEF mem
    <3>1. g = NewGroup(rows[b].target, mem)
      BY <2>1 DEF mem
    <3> QED
      BY <3>1, <2>2, <2>4 DEF NewGroup, Group, Answers
  <2> QED
    BY <2>1, <2>5, <2>6
<1>6. GroupsSound'
  <2>1. GroupsApart'
    <3> SUFFICES ASSUME NEW g \in groups', NEW h \in groups', g.target = h.target
                 PROVE  g = h
      BY DEF GroupsApart
    <3>1. g.members = h.members
      BY <1>5
    <3> QED
      BY <1>5, <3>1
  <2>2. MembersLeased'
    BY <1>2, <1>3, <1>5 DEF MembersLeased, Pending
  <2> QED
    BY <1>5, <2>1, <2>2 DEF GroupsSound, Unanswered
<1>7. NoLostNotice'
  <2>1. \A g \in groups' : g.phase = "leased"
    BY <1>5
  <2>2. \A n \in unseen : \A i \in Pending : Owes(i, n) => Owes(i, n)'
    BY <1>3, <2>1 DEF Owes, Pending
  <2> QED
    BY <1>1, <1>3, <2>2, NoticesKept
<1> QED
  BY <1>1, <1>3, <1>4, <1>6, <1>7 DEF HistorySound

-----------------------------------------------------------------------------
(* Delivery *)

LEMMA SendInv ==
  ASSUME DeliveryInv, NEW g \in groups, NEW received \in BOOLEAN, Send(g, received)
  PROVE  DeliveryInv'
<1> DEFINE h == [g EXCEPT !.phase = "sent", !.received = received, !.covers = Covered(g)]
<1> USE DEF DeliveryInv
<1>1. /\ g.phase = "leased" /\ groups' = (groups \ {g}) \cup {h}
      /\ unseen' = IF received THEN {n \in unseen : n[1] # g.target} ELSE unseen
      /\ repeated' = repeated \cap unseen'
      /\ rows' = rows /\ queue' = queue /\ stopping' = stopping
  BY DEF Send, Becomes
<1>2. Covered(g) \subseteq Notices
  BY DEF Covered, HistorySound
<1>3. /\ h \in Group /\ h.target = g.target /\ h.members = g.members /\ h.phase = "sent"
      /\ h.answer = g.answer /\ h.received = received /\ h.covers = Covered(g) /\ g.answer = "none"
  <2>1. g \in Group /\ g.answer = "none"
    BY <1>1 DEF GroupsSound, Unanswered
  <2> HIDE DEF Covered
  <2> QED
    BY <1>2, <2>1 DEF Group
<1> HIDE DEF h
<1>4. TableSound' /\ Used' = Used /\ Pending' = Pending
  BY <1>1, TableStays
<1>5. OrderSound'
  BY <1>1, <1>4, OrderKept DEF OrderSound
<1>6. GroupsSound'
  <2>1. \A i \in (UNION {f.members : f \in groups \ {g}}) \cup h.members :
           i \in Used => i \in Used' /\ rows'[i].target = rows[i].target /\ rows'[i].lease # "none"
    BY <1>1, <1>3, <1>4, MemberType
  <2> QED
    BY <1>1, <1>3, <2>1, GroupBecomes
<1>7. HistorySound'
  BY <1>1 DEF HistorySound
<1>8. ASSUME NEW n \in unseen' \ repeated', NEW i \in Pending, Owes(i, n)
      PROVE  Owes(i, n)'
  <2>1. CASE i \in g.members
    <3>1. rows[i].target = g.target /\ \A f \in groups : i \in f.members => f = g
      BY <2>1, MemberType
    <3>2. n[1] = g.target /\ (n[1] \in Coalescing \/ rows[i].change = n[2]) /\ n \in unseen
      BY <1>1, <1>8, <3>1 DEF Owes
    <3>3. received = FALSE
      BY <1>1, <1>8, <3>2
    <3>4. n \in Covered(g)
      BY <2>1, <3>2 DEF Covered
    <3>5. \A f \in groups' : i \in f.members => f = h
      BY <1>1, <3>1
    <3> QED
      BY <1>1, <1>3, <1>8, <3>3, <3>4, <3>5 DEF Owes
  <2>2. CASE i \notin g.members
    BY <1>1, <1>3, <1>8, <2>2 DEF Owes
  <2> QED
    BY <2>1, <2>2
<1>9. NoLostNotice'
  BY <1>1, <1>4, <1>8, NoticesKept
<1> QED
  BY <1>4, <1>5, <1>6, <1>7, <1>9

LEMMA AnswerInv ==
  ASSUME DeliveryInv, NEW g \in groups, NEW answer \in Answers, Answer(g, answer)
  PROVE  DeliveryInv'
<1> DEFINE h == [g EXCEPT !.phase = "answered", !.answer = answer]
<1> USE DEF DeliveryInv
<1>1. /\ g.phase = "sent" /\ groups' = (groups \ {g}) \cup {h}
      /\ answer = "success" => g.received
      /\ unseen' = IF answer = "final" THEN unseen \ g.covers ELSE unseen
      /\ repeated' = repeated \cap unseen'
      /\ rows' = rows /\ queue' = queue /\ stopping' = stopping
  BY DEF Answer, Becomes
<1>2. /\ h \in Group /\ h.target = g.target /\ h.members = g.members /\ h.phase = "answered"
      /\ h.answer = answer /\ h.received = g.received /\ h.covers = g.covers /\ answer # "none"
  BY GroupType DEF Group, Answers
<1> HIDE DEF h
<1>4. TableSound' /\ Used' = Used /\ Pending' = Pending
  BY <1>1, TableStays
<1>5. OrderSound'
  BY <1>1, <1>4, OrderKept DEF OrderSound
<1>6. GroupsSound'
  <2>1. \A i \in (UNION {f.members : f \in groups \ {g}}) \cup h.members :
           i \in Used => i \in Used' /\ rows'[i].target = rows[i].target /\ rows'[i].lease # "none"
    BY <1>1, <1>2, <1>4, MemberType
  <2> QED
    BY <1>1, <1>2, <2>1, GroupBecomes
<1>7. HistorySound'
  BY <1>1 DEF HistorySound
<1>8. ASSUME NEW n \in unseen' \ repeated', NEW i \in Pending, Owes(i, n)
      PROVE  Owes(i, n)'
  <2>1. CASE i \in g.members
    <3>1. \A f \in groups : i \in f.members => f = g
      BY <2>1, MemberType
    <3>2. n \in g.covers /\ ~g.received
      BY <1>1, <1>8, <2>1 DEF Owes
    <3>3. answer = "retry"
      BY <1>1, <1>8, <3>2 DEF Answers
    <3>4. \A f \in groups' : i \in f.members => f = h
      BY <1>1, <3>1
    <3> QED
      BY <1>1, <1>2, <1>8, <3>2, <3>3, <3>4 DEF Owes
  <2>2. CASE i \notin g.members
    BY <1>1, <1>2, <1>8, <2>2 DEF Owes
  <2> QED
    BY <2>1, <2>2
<1>9. NoLostNotice'
  BY <1>1, <1>4, <1>8, NoticesKept
<1> QED
  BY <1>4, <1>5, <1>6, <1>7, <1>9

\* The delivery without the member that was completed.
LEMMA MemberLeaves ==
  ASSUME DeliveryInv, NEW g \in groups, NEW i \in g.members, NextMember(g, i)
  PROVE  \E h \in Group :
           /\ groups' \subseteq (groups \ {g}) \cup {h}
           /\ h.target = g.target /\ h.members = g.members \ {i} /\ h.phase = g.phase
           /\ h.answer = g.answer /\ h.received = g.received /\ h.covers = g.covers
<1> DEFINE h == [g EXCEPT !.members = @ \ {i}]
<1>1. /\ h \in Group /\ h.target = g.target /\ h.members = g.members \ {i} /\ h.phase = g.phase
      /\ h.answer = g.answer /\ h.received = g.received /\ h.covers = g.covers
  BY GroupType DEF Group, DeliveryInv
<1>2. groups' \subseteq (groups \ {g}) \cup {h}
  BY DEF NextMember
<1> HIDE DEF h
<1> QED
  BY <1>1, <1>2

LEMMA CompleteInv ==
  ASSUME DeliveryInv, NEW g \in groups, NEW i \in g.members, CompleteNotification(g, i)
  PROVE  DeliveryInv'
<1> USE DEF DeliveryInv
<1>1. /\ g.phase = "answered" /\ rows' = [rows EXCEPT ![i] = CompletedRow(rows[i], g.answer)]
      /\ queue' = NotDue(i) /\ NextMember(g, i)
      /\ stopping' = stopping /\ unseen' = unseen /\ repeated' = repeated
  BY DEF CompleteNotification
<1>2. /\ i \in Pending /\ i \in Used /\ i \in Ids /\ rows[i].target = g.target
      /\ \A h \in groups : i \in h.members => h = g
  BY MemberType
<1>3. PICK h \in Group :
           /\ groups' \subseteq (groups \ {g}) \cup {h}
           /\ h.target = g.target /\ h.members = g.members \ {i} /\ h.phase = g.phase
           /\ h.answer = g.answer /\ h.received = g.received /\ h.covers = g.covers
  BY <1>1, MemberLeaves
<1>4. /\ rows'[i] \in Row /\ rows'[i].target = rows[i].target /\ rows'[i].change = rows[i].change
      /\ rows'[i].lease = "none" /\ (rows'[i].keyed => rows[i].keyed)
      /\ rows'[i].finished => ~rows'[i].keyed
      /\ rows'[i].finished = (g.answer # "retry")
  <2>1. rows[i] \in Row /\ rows[i].finished = FALSE
    BY <1>2, RowType DEF Pending
  <2>2. rows'[i] = CompletedRow(rows[i], g.answer)
    BY <1>1, <1>2 DEF TableSound
  <2>3. CASE g.answer = "retry"
    <3>1. rows'[i] = [rows[i] EXCEPT !.lease = "none"]
      BY <2>2, <2>3 DEF CompletedRow
    <3> QED
      BY <2>1, <2>3, <3>1 DEF Row
  <2>4. CASE g.answer # "retry"
    <3>1. rows'[i] = [rows[i] EXCEPT !.lease = "none", !.finished = TRUE, !.keyed = FALSE]
      BY <2>2, <2>4 DEF CompletedRow
    <3> QED
      BY <2>1, <2>4, <3>1 DEF Row
  <2> QED
    BY <2>3, <2>4
<1>5. \A j \in Ids : j # i => rows'[j] = rows[j]
  BY <1>1 DEF TableSound
<1>6. Used' = Used
  BY <1>2, <1>4, <1>5, NoRowAssumption DEF Used
<1>7. Pending \ {i} \subseteq Pending' /\ (g.answer = "retry" => i \in Pending')
  BY <1>2, <1>4, <1>5, <1>6 DEF Pending, Used
<1>8. TableSound'
  <2>1. rows' \in [Ids -> Row \cup {NoRow}]
    <3>1. rows' \in [Ids -> Row \cup {NoRow}] <=>
            rows[i] = rows[i] /\ rows'[i] \in Row \cup {NoRow}
      BY <1>1, <1>2 DEF TableSound
    <3> QED
      BY <1>4, <3>1
  <2>2. \A j \in Used' : rows'[j].finished => ~rows'[j].keyed /\ rows'[j].lease = "none"
    BY <1>4, <1>5, <1>6 DEF TableSound, Used
  <2>3. \A n \in Notices : SameKey(n[1], n[2])' \subseteq SameKey(n[1], n[2])
    BY <1>4, <1>5, <1>6 DEF SameKey, Used
  <2> QED
    BY <2>1, <2>2, <2>3 DEF TableSound
<1>9. OrderSound'
  <2>1. DueRows' = DueRows \ {i}
    BY <1>1, <1>2, NotDueOrder DEF OrderSound
  <2>2. DueRows' \subseteq Pending'
    BY <1>7, <2>1 DEF OrderSound, InDueOrder
  <2>3. InDueOrder'
    BY <1>1, <1>2, <2>2, NotDueOrder DEF InDueOrder, OrderSound
  <2>4. \A j \in Used' : rows'[j].lease # "none" => j \in DueRows'
    BY <1>4, <1>5, <1>6, <2>1 DEF OrderSound, Used
  <2> QED
    BY <2>3, <2>4 DEF OrderSound
<1>10. GroupsSound'
  <2>1. ASSUME NEW j \in (UNION {f.members : f \in groups \ {g}}) \cup h.members
        PROVE  j \in Used => j \in Used' /\ rows'[j].target = rows[j].target /\ rows'[j].lease # "none"
    <3>1. j # i
      BY <1>2, <1>3, <2>1
    <3>2. PICK f \in groups : j \in f.members
      BY <1>3, <2>1
    <3>3. j \in Ids /\ rows[j].lease # "none"
      BY <3>2, MemberType
    <3> QED
      BY <1>5, <1>6, <3>1, <3>3
  <2>2. h.phase # "answered" <=> h.answer = "none"
    BY <1>3 DEF GroupsSound, Unanswered
  <2> QED
    BY <1>3, <2>1, <2>2, GroupBecomes
<1>11. ASSUME NEW n \in unseen' \ repeated', NEW j \in Pending, Owes(j, n)
       PROVE  j \in Pending' /\ Owes(j, n)'
  <2>1. CASE j = i
    <3>1. g.answer = "retry"
      BY <1>1, <1>11, <2>1 DEF Owes, GroupsSound, Unanswered
    <3>2. \A f \in groups' : i \notin f.members
      BY <1>2, <1>3
    <3> QED
      BY <1>4, <1>7, <1>11, <2>1, <3>1, <3>2 DEF Owes
  <2>2. CASE j # i
    <3>1. rows'[j] = rows[j] /\ j \in Pending'
      BY <1>5, <1>7, <2>2 DEF Pending, Used
    <3>2. ASSUME NEW f \in groups', j \in f.members
          PROVE  f.phase = "leased" \/ (n \in f.covers /\ ~f.received /\ f.answer \in {"none", "retry"})
      <4>1. CASE f = h
        BY <1>3, <1>11, <3>2, <4>1 DEF Owes
      <4>2. CASE f \in groups
        BY <1>11, <3>2, <4>2 DEF Owes
      <4> QED
        BY <1>3, <4>1, <4>2
    <3> QED
      BY <1>11, <3>1, <3>2 DEF Owes
  <2> QED
    BY <2>1, <2>2
<1>12. NoLostNotice'
  BY <1>1, <1>11, NoticesKept
<1>13. HistorySound'
  BY <1>1 DEF HistorySound
<1> QED
  BY <1>8, <1>9, <1>10, <1>12, <1>13

\* A delivery changes and no row does: no member is added, and what it covers
\* and how it went stay.
LEMMA SameRowsInv ==
  ASSUME DeliveryInv, NEW g \in groups, NEW h \in Group,
         groups' \subseteq (groups \ {g}) \cup {h},
         h.target = g.target, h.members \subseteq g.members, h.phase = g.phase,
         h.answer = g.answer, h.received = g.received, h.covers = g.covers,
         rows' = rows, queue' = queue, stopping' = stopping, unseen' = unseen,
         repeated' = repeated
  PROVE  DeliveryInv'
<1> USE DEF DeliveryInv
<1>1. TableSound' /\ Used' = Used /\ Pending' = Pending
  BY TableStays
<1>2. OrderSound'
  BY <1>1, OrderKept DEF OrderSound
<1>3. GroupsSound'
  <2>1. \A i \in (UNION {f.members : f \in groups \ {g}}) \cup h.members :
           i \in Used => i \in Used' /\ rows'[i].target = rows[i].target /\ rows'[i].lease # "none"
    BY <1>1, MemberType
  <2>2. h.phase # "answered" <=> h.answer = "none"
    BY DEF GroupsSound, Unanswered
  <2> QED
    BY <2>1, <2>2, GroupBecomes
<1>4. \A n \in unseen : \A i \in Pending : Owes(i, n) => Owes(i, n)'
  BY DEF Owes
<1>5. NoLostNotice'
  BY <1>1, <1>4, NoticesKept
<1> QED
  BY <1>1, <1>2, <1>3, <1>5 DEF HistorySound

LEMMA CompletionFailsInv ==
  ASSUME DeliveryInv, NEW g \in groups, NEW i \in g.members, CompletionFails(g, i)
  PROVE  DeliveryInv'
<1>1. PICK h \in Group :
           /\ groups' \subseteq (groups \ {g}) \cup {h}
           /\ h.target = g.target /\ h.members = g.members \ {i} /\ h.phase = g.phase
           /\ h.answer = g.answer /\ h.received = g.received /\ h.covers = g.covers
  BY MemberLeaves DEF CompletionFails
<1> QED
  BY <1>1, SameRowsInv DEF CompletionFails

LEMMA FollowerLostInv ==
  ASSUME DeliveryInv, NEW g \in groups, NEW i \in g.members, FollowerLost(g, i)
  PROVE  DeliveryInv'
<1> DEFINE h == [g EXCEPT !.lost = @ \cup {i}]
<1>1. groups' = (groups \ {g}) \cup {h}
  BY DEF FollowerLost, Becomes
<1>2. /\ h \in Group /\ h.target = g.target /\ h.members = g.members /\ h.phase = g.phase
      /\ h.answer = g.answer /\ h.received = g.received /\ h.covers = g.covers
  BY GroupType DEF Group, DeliveryInv
<1> HIDE DEF h
<1> QED
  BY <1>1, <1>2, SameRowsInv DEF FollowerLost

LEMMA LeaderLostInv ==
  ASSUME DeliveryInv, NEW g \in groups, LeaderLost(g)
  PROVE  DeliveryInv'
<1>1. g \in Group
  BY GroupType DEF DeliveryInv
<1> QED
  BY <1>1, SameRowsInv DEF LeaderLost

LEMMA ReleasedInv ==
  ASSUME DeliveryInv, NEW g \in groups, NEW freed \in SUBSET g.members, Released(g, freed)
  PROVE  DeliveryInv'
<1> USE DEF DeliveryInv
<1>1. /\ groups' = groups \ {g}
      /\ rows' = [i \in Ids |-> IF i \in freed THEN [rows[i] EXCEPT !.lease = "none"] ELSE rows[i]]
      /\ queue' = queue /\ stopping' = stopping /\ unseen' = unseen /\ repeated' = repeated
  BY DEF Released
<1>2. freed \in SUBSET Pending
  BY MemberType
<1>3. /\ TableSound' /\ Used' = Used /\ Pending' = Pending
      /\ \A j \in Used : /\ rows'[j].target = rows[j].target /\ rows'[j].change = rows[j].change
                         /\ rows'[j].lease = IF j \in freed THEN "none" ELSE rows[j].lease
  BY <1>1, <1>2, LeasesChange
<1>4. OrderSound'
  BY <1>1, <1>3, OrderKept DEF OrderSound
<1>5. GroupsSound'
  <2>1. ASSUME NEW h \in groups', NEW i \in h.members
        PROVE  i \in Used' /\ rows'[i].target = rows[i].target /\ rows'[i].lease # "none"
    <3>1. h \in groups /\ h # g
      BY <1>1, <2>1
    <3>2. i \notin freed /\ i \in Used /\ rows[i].lease # "none"
      BY <2>1, <3>1, MemberType
    <3> QED
      BY <1>3, <3>2
  <2> QED
    BY <1>1, <2>1, GroupsEnd
<1>6. \A n \in unseen : \A i \in Pending : Owes(i, n) => Owes(i, n)'
  BY <1>1, <1>3 DEF Owes, Pending
<1>7. NoLostNotice'
  BY <1>1, <1>3, <1>6, NoticesKept
<1> QED
  BY <1>1, <1>3, <1>4, <1>5, <1>7 DEF HistorySound

-----------------------------------------------------------------------------
(* The theorems *)

LEMMA DeliverInv ==
  ASSUME DeliveryInv, NEW g \in groups, Deliver(g)
  PROVE  DeliveryInv'
BY SendInv, AnswerInv, CompleteInv, CompletionFailsInv, FollowerLostInv, LeaderLostInv, ReleasedInv
   DEF Deliver

LEMMA NextInv == DeliveryInv /\ [Next]_vars => DeliveryInv'
<1> SUFFICES ASSUME DeliveryInv, [Next]_vars PROVE DeliveryInv'
  OBVIOUS
<1>1. CASE \E n \in Notices : Enqueue(n[1], n[2])
  BY <1>1, AbsorbedInv, InsertInv
<1>2. CASE \E i \in Ids : BecomesDue(i) \/ LeaseExpires(i) \/ Prune(i)
  BY <1>2, BecomesDueInv, LeaseExpiresInv, PruneInv
<1>3. CASE LeaseDueNotifications
  BY <1>3, LeaseDueInv
<1>4. CASE \E g \in groups : Deliver(g)
  BY <1>4, DeliverInv
<1>5. CASE Shutdown \/ Start \/ Crash
  BY <1>5, ProcessInv
<1>6. CASE UNCHANGED vars
  <2>1. /\ rows' = rows /\ queue' = queue /\ groups' = groups /\ stopping' = stopping
        /\ unseen' = unseen /\ repeated' = repeated
    BY <1>6 DEF vars
  <2>2. TableSound' /\ Used' = Used /\ Pending' = Pending
    BY <2>1, TableStays DEF DeliveryInv
  <2>3. OrderSound'
    BY <2>1, <2>2, OrderKept DEF OrderSound, DeliveryInv
  <2>4. GroupsSound' /\ HistorySound' /\ NoLostNotice'
    BY <2>1, <2>2 DEF DeliveryInv, GroupsSound, MembersLeased, GroupsApart, Unanswered,
                      HistorySound, NoLostNotice, Owes
  <2> QED
    BY <2>2, <2>3, <2>4 DEF DeliveryInv
<1> QED
  BY <1>1, <1>2, <1>3, <1>4, <1>5, <1>6 DEF Next

\* Whatever the interleaving of changes, deliveries, lost leases, stops and
\* crashes, every change its destination was not told of has an intent that
\* will still be sent (enqueueNotification, CompleteNotification).
THEOREM EveryChangeOwed == Spec => []OutboxInv
<1>1. Spec => []DeliveryInv
  BY InitInv, NextInv, PTL DEF Spec
<1> QED
  BY <1>1, InvImplies, PTL

\* No destination ever has two requests for one target under way
\* (coalesceNotifications).
THEOREM RequestsApart == Spec => []OneRequestPerTarget
<1>1. Spec => []DeliveryInv
  BY InitInv, NextInv, PTL DEF Spec
<1> QED
  BY <1>1, InvImplies, PTL

=============================================================================
