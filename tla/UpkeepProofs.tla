----------------------------- MODULE UpkeepProofs -----------------------------
(***************************************************************************)
(* Proofs about the components of MCUpkeep, for every value of the         *)
(* constants: the webhook connections, the pack cache, the schedules and   *)
(* the plan of the cue repair.                                             *)
(***************************************************************************)
EXTENDS MCUpkeep, FiniteSetTheorems, WellFoundedInduction, TLAPS

\* Every instance counts alike.
LEMMA SameCardinality ==
    ASSUME NEW S
    PROVE  /\ WC!Cardinality(S) = Cardinality(S) /\ PC!Cardinality(S) = Cardinality(S)
           /\ SD!Cardinality(S) = Cardinality(S)
  BY DEF Cardinality, WC!Cardinality, PC!Cardinality, SD!Cardinality

-----------------------------------------------------------------------------
(* Webhook connections.                                                     *)

Conns == [at : Bases \cup {OtherHost, Unrelated}, token : Tokens \cup {OtherToken}, right : BOOLEAN,
          whose : {"nobody", "us", "them", "owner"}, late : BOOLEAN]

HookType ==
    /\ conns \in [Arrs -> [WC!IDs -> Conns]]
    /\ arr \in Arrs /\ base \in Bases /\ token \in Tokens
    /\ stored \in [arr : Arrs, id : WC!IDs \cup {0}]
    /\ sync \in [pc : {"idle", "put", "post", "record"}, id : WC!IDs \cup {0}, seen : Conns]
    /\ sync.pc \in {"put", "record"} => sync.id \in WC!IDs
    /\ ~up => sync = WC!Idle

At(a, i) == [arr |-> a, id |-> i]
Mine(a) == {i \in WC!IDs : conns[a][i].whose = "us"}

\* Our address or our token tells that connection i is ours.
Told(i) == conns[arr][i].at = base \/ conns[arr][i].token = token

\* Every Arr has at most one connection of ours, and the one of the configured
\* Arr can be told.
OneTold ==
    /\ \A a \in Arrs : \A i, j \in Mine(a) : i = j
    /\ up => \A i \in Mine(arr) : Told(i) \/ stored = At(arr, i)

\* What a running sync knows of it.
SyncKnows ==
    /\ sync.pc \in {"put", "record"} => \A i \in Mine(arr) \ {sync.id} : Told(i)
    /\ sync.pc = "put" /\ sync.seen.whose = "us" => Mine(arr) \subseteq {sync.id}
    /\ sync.pc = "post" => Mine(arr) = {}

\* Another's connection has neither our address nor our token, unless it got
\* the remembered ID after a reset.
ForeignTold ==
    \A a \in Arrs, i \in WC!IDs :
        conns[a][i].whose = "them" =>
            /\ conns[a][i].late \/ (conns[a][i].at \in {OtherHost, Unrelated} /\ conns[a][i].token = OtherToken)
            /\ stored = At(a, i) => conns[a][i].late \/ ~WC!Candidate(conns[a][i])
            /\ sync.pc = "record" /\ At(arr, sync.id) = At(a, i) => conns[a][i].late \/ ~WC!Candidate(conns[a][i])

SeenLate == sync.pc = "put" /\ sync.seen.whose = "them" => sync.seen.late /\ WC!Candidate(sync.seen)

HookInv ==
    /\ HookType /\ ForeignTold /\ SeenLate
    /\ \A a \in Arrs : \A i \in Mine(a) : conns[a][i].at \in Bases
    /\ ~lostTrack => OneTold /\ SyncKnows

LEMMA HookInit == Init => HookInv
  <1> SUFFICES ASSUME Init PROVE HookInv
    OBVIOUS
  <1>1. WC!Init
    BY DEF Init
  <1>2. arr \in Arrs /\ base \in Bases /\ token \in Tokens
    BY <1>1, ConnectionAssumption DEF WC!Init
  <1>3. WC!None \in Conns /\ WC!None.whose = "nobody"
    BY DEF WC!None, Conns
  <1>4. WC!Idle.pc = "idle" /\ WC!Idle \in [pc : {"idle", "put", "post", "record"}, id : WC!IDs \cup {0}, seen : Conns]
    BY <1>3 DEF WC!Idle
  <1>5. /\ conns = [a \in Arrs |-> [i \in WC!IDs |-> WC!None]] /\ sync = WC!Idle
    BY <1>1 DEF WC!Init
  <1>6. HookType
    <2>1. stored \in [arr : Arrs, id : WC!IDs \cup {0}]
      BY <1>1, <1>2 DEF WC!Init
    <2> QED  BY <1>2, <1>3, <1>4, <1>5, <2>1 DEF HookType
  <1>7. \A a \in Arrs, i \in WC!IDs : conns[a][i].whose = "nobody"
    BY <1>3, <1>5
  <1>8. \A a \in Arrs : Mine(a) = {}
    BY <1>7 DEF Mine
  <1>9. ForeignTold /\ SeenLate /\ OneTold /\ SyncKnows
    BY <1>2, <1>4, <1>5, <1>7, <1>8 DEF ForeignTold, SeenLate, OneTold, SyncKnows
  <1> QED  BY <1>6, <1>8, <1>9 DEF HookInv

LEMMA HookConns ==
    ASSUME HookInv
    PROVE  \A a \in Arrs, i \in WC!IDs : conns[a][i] \in Conns
  BY DEF HookInv, HookType

\* Arr's other users change connections.
LEMMA OthersKeep ==
    ASSUME HookInv, conns' \in [Arrs -> [WC!IDs -> Conns]],
           UNCHANGED <<arr, base, token, stored, up, sync, lostTrack>>,
           \A a \in Arrs, i \in WC!IDs : conns'[a][i].whose = "us" =>
              /\ conns[a][i].whose = "us"
              /\ conns'[a][i].at = conns[a][i].at /\ conns'[a][i].token = conns[a][i].token,
           \A a \in Arrs, i \in WC!IDs : conns'[a][i].whose = "them" =>
              \/ /\ conns[a][i].whose = "them" /\ conns'[a][i].late = conns[a][i].late
                 /\ conns'[a][i].at = conns[a][i].at /\ conns'[a][i].token = conns[a][i].token
              \/ /\ conns'[a][i].at \in {OtherHost, Unrelated} /\ conns'[a][i].token = OtherToken
                 /\ conns'[a][i].at = Unrelated \/ conns'[a][i].late \/ At(a, i) \notin {stored, At(arr, sync.id)}
    PROVE  HookInv'
  <1>1. \A a \in Arrs : Mine(a)' \subseteq Mine(a)
    BY DEF Mine
  <1>2. HookType'
    BY DEF HookInv, HookType
  <1>3. \A i \in Mine(arr)' : Told(i)' <=> Told(i)
    BY DEF Told, Mine, HookInv, HookType
  <1>4. \A a \in Arrs : \A i \in Mine(a)' : conns'[a][i].at \in Bases
    BY <1>1 DEF Mine, HookInv
  <1>5. ForeignTold'
    <2>1. SUFFICES ASSUME NEW a \in Arrs, NEW i \in WC!IDs, conns'[a][i].whose = "them"
                   PROVE  /\ \/ conns'[a][i].late
                             \/ conns'[a][i].at \in {OtherHost, Unrelated} /\ conns'[a][i].token = OtherToken
                          /\ stored = At(a, i) => conns'[a][i].late \/ conns'[a][i].at = Unrelated
                          /\ sync.pc = "record" /\ At(arr, sync.id) = At(a, i)
                               => conns'[a][i].late \/ conns'[a][i].at = Unrelated
      BY DEF ForeignTold, WC!Candidate, At
    <2>2. CASE /\ conns[a][i].whose = "them" /\ conns'[a][i].late = conns[a][i].late
               /\ conns'[a][i].at = conns[a][i].at /\ conns'[a][i].token = conns[a][i].token
      BY <2>1, <2>2 DEF HookInv, ForeignTold, WC!Candidate
    <2>3. CASE /\ conns'[a][i].at \in {OtherHost, Unrelated} /\ conns'[a][i].token = OtherToken
               /\ conns'[a][i].at = Unrelated \/ conns'[a][i].late \/ At(a, i) \notin {stored, At(arr, sync.id)}
      BY <2>1, <2>3
    <2> QED  BY <2>1, <2>2, <2>3
  <1>6. SeenLate'
    BY DEF HookInv, SeenLate, WC!Candidate
  <1>7. ~lostTrack => OneTold' /\ SyncKnows'
    <2>1. SUFFICES ASSUME ~lostTrack PROVE OneTold' /\ SyncKnows'
      OBVIOUS
    <2>2. OneTold /\ SyncKnows /\ arr \in Arrs
      BY <2>1 DEF HookInv, HookType
    <2>3. OneTold'
      BY <1>1, <1>3, <2>2 DEF OneTold, At
    <2>4. SyncKnows'
      BY <1>1, <1>3, <2>2 DEF SyncKnows
    <2> QED  BY <2>3, <2>4
  <1> QED  BY <1>2, <1>4, <1>5, <1>6, <1>7 DEF HookInv

LEMMA AddInv ==
    ASSUME HookInv, NEW a \in Arrs, NEW c \in Conns, WC!Add(a, c),
           c.whose = "owner" \/ (c.whose = "them" /\ c.at \in {OtherHost, Unrelated} /\ c.token = OtherToken)
    PROVE  HookInv'
  <1> DEFINE i == nextID[a]
  <1>1. PICK b \in BOOLEAN : b = (At(a, i) \in {stored, At(arr, sync.id)})
    <2> DEFINE B == At(a, i) \in {stored, At(arr, sync.id)}
    <2>1. B \in BOOLEAN
      OBVIOUS
    <2> HIDE DEF B
    <2>2. \E b \in BOOLEAN : b = B
      BY <2>1
    <2> QED  BY <2>2 DEF B
  <1>2. PICK d : d = [c EXCEPT !.late = b]
    OBVIOUS
  <1>3. /\ d \in Conns /\ d.whose = c.whose /\ d.at = c.at /\ d.token = c.token
    BY <1>2 DEF Conns
  <1>4. d.late = b
    BY <1>2 DEF Conns
  <1>5. i \in WC!IDs /\ UNCHANGED <<arr, base, token, stored, up, sync, lostTrack>>
    BY DEF WC!Add
  <1>6. conns' = [conns EXCEPT ![a][i] = d]
    BY <1>1, <1>2 DEF WC!Add, WC!Recorded, At
  <1>7. conns \in [Arrs -> [WC!IDs -> Conns]]
    BY DEF HookInv, HookType
  <1> HIDE DEF i
  <1>8. conns' \in [Arrs -> [WC!IDs -> Conns]]
    BY <1>3, <1>5, <1>6, <1>7
  <1>9. \A e \in Arrs, j \in WC!IDs : conns'[e][j] = IF e = a /\ j = i THEN d ELSE conns[e][j]
    BY <1>5, <1>6, <1>7
  <1>10. d.late \/ At(a, i) \notin {stored, At(arr, sync.id)}
    BY <1>1, <1>4
  <1>11. ASSUME NEW e \in Arrs, NEW j \in WC!IDs
         PROVE  /\ conns'[e][j].whose = "us" =>
                     /\ conns[e][j].whose = "us"
                     /\ conns'[e][j].at = conns[e][j].at /\ conns'[e][j].token = conns[e][j].token
                /\ conns'[e][j].whose = "them" =>
                     \/ /\ conns[e][j].whose = "them" /\ conns'[e][j].late = conns[e][j].late
                        /\ conns'[e][j].at = conns[e][j].at /\ conns'[e][j].token = conns[e][j].token
                     \/ /\ conns'[e][j].at \in {OtherHost, Unrelated} /\ conns'[e][j].token = OtherToken
                        /\ conns'[e][j].at = Unrelated \/ conns'[e][j].late \/ At(e, j) \notin {stored, At(arr, sync.id)}
    <2>1. CASE e = a /\ j = i
      <3>1. conns'[e][j] = d
        BY <1>9, <2>1
      <3> QED  BY <1>3, <1>10, <2>1, <3>1
    <2>2. CASE ~(e = a /\ j = i)
      <3>1. conns'[e][j] = conns[e][j]
        BY <1>9, <2>2
      <3> QED  BY <3>1
    <2> QED  BY <2>1, <2>2
  <1> QED  BY <1>5, <1>8, <1>11, OthersKeep

LEMMA EditedInv ==
    ASSUME HookInv, NEW a \in Arrs, NEW i \in WC!IDs, NEW c \in Conns, WC!Edited(a, i, c),
           \/ c.whose = "nobody"
           \/ c.whose = conns[a][i].whose /\ c.at = conns[a][i].at /\ c.token = conns[a][i].token /\ c.late = conns[a][i].late
           \/ c.whose = "them" /\ c.at = Unrelated /\ c.token = OtherToken
    PROVE  HookInv'
  <1>1. conns' = [conns EXCEPT ![a][i] = c] /\ UNCHANGED <<arr, base, token, stored, up, sync, lostTrack>>
    BY DEF WC!Edited
  <1>2. conns \in [Arrs -> [WC!IDs -> Conns]]
    BY DEF HookInv, HookType
  <1>3. conns' \in [Arrs -> [WC!IDs -> Conns]]
    BY <1>1, <1>2
  <1>4. \A e \in Arrs, j \in WC!IDs : conns'[e][j] = IF e = a /\ j = i THEN c ELSE conns[e][j]
    BY <1>1, <1>2
  <1>5. ASSUME NEW e \in Arrs, NEW j \in WC!IDs
        PROVE  /\ conns'[e][j].whose = "us" =>
                    /\ conns[e][j].whose = "us"
                    /\ conns'[e][j].at = conns[e][j].at /\ conns'[e][j].token = conns[e][j].token
               /\ conns'[e][j].whose = "them" =>
                    \/ /\ conns[e][j].whose = "them" /\ conns'[e][j].late = conns[e][j].late
                       /\ conns'[e][j].at = conns[e][j].at /\ conns'[e][j].token = conns[e][j].token
                    \/ /\ conns'[e][j].at \in {OtherHost, Unrelated} /\ conns'[e][j].token = OtherToken
                       /\ conns'[e][j].at = Unrelated \/ conns'[e][j].late \/ At(e, j) \notin {stored, At(arr, sync.id)}
    <2>1. CASE e = a /\ j = i
      <3>1. conns'[e][j] = c
        BY <1>4, <2>1
      <3> QED  BY <2>1, <3>1
    <2>2. CASE ~(e = a /\ j = i)
      <3>1. conns'[e][j] = conns[e][j]
        BY <1>4, <2>2
      <3> QED  BY <3>1
    <2> QED  BY <2>1, <2>2
  <1> QED  BY <1>1, <1>3, <1>5, OthersKeep

LEMMA OthersInv ==
    ASSUME HookInv,
           \/ WC!OwnerAdds
           \/ \E a \in Arrs : \/ WC!Reset(a)
                              \/ \E at \in {OtherHost, Unrelated} : WC!OthersAdd(a, at)
                              \/ \E i \in WC!IDs : WC!OwnerDeletes(a, i) \/ WC!OwnerUnticks(a, i) \/ WC!OwnerTakes(a, i)
    PROVE  HookInv'
  <1>1. WC!None \in Conns /\ WC!None.whose = "nobody" /\ WC!None.token = OtherToken
    BY DEF WC!None, Conns
  <1>2. CASE WC!OwnerAdds
    <2>1. PICK c : c = [WC!None EXCEPT !.at = base, !.token = token, !.whose = "owner"]
      OBVIOUS
    <2>2. c \in Conns /\ c.whose = "owner" /\ arr \in Arrs
      BY <1>1, <2>1 DEF Conns, HookInv, HookType
    <2>3. WC!Add(arr, c)
      BY <1>2, <2>1 DEF WC!OwnerAdds
    <2> QED  BY <2>2, <2>3, AddInv
  <1>3. ASSUME NEW a \in Arrs, NEW at \in {OtherHost, Unrelated}, WC!OthersAdd(a, at)
        PROVE  HookInv'
    <2>1. PICK c : c = [WC!None EXCEPT !.at = at, !.right = TRUE, !.whose = "them"]
      OBVIOUS
    <2>2. c \in Conns /\ c.whose = "them" /\ c.at = at /\ c.token = OtherToken
      BY <1>1, <2>1 DEF Conns
    <2>3. WC!Add(a, c)
      BY <1>3, <2>1 DEF WC!OthersAdd
    <2> QED  BY <2>2, <2>3, AddInv
  <1>4. ASSUME NEW a \in Arrs, NEW i \in WC!IDs, WC!OwnerDeletes(a, i)
        PROVE  HookInv'
    BY <1>1, <1>4, EditedInv DEF WC!OwnerDeletes
  <1>5. ASSUME NEW a \in Arrs, NEW i \in WC!IDs, WC!OwnerUnticks(a, i)
        PROVE  HookInv'
    <2>1. PICK c : c = [conns[a][i] EXCEPT !.right = FALSE]
      OBVIOUS
    <2>2. conns[a][i] \in Conns
      BY HookConns
    <2>3. c \in Conns
      BY <2>1, <2>2 DEF Conns
    <2>4. /\ c.whose = conns[a][i].whose /\ c.at = conns[a][i].at /\ c.token = conns[a][i].token
          /\ c.late = conns[a][i].late
      BY <2>1, <2>2 DEF Conns
    <2>5. WC!Edited(a, i, c)
      BY <1>5, <2>1 DEF WC!OwnerUnticks
    <2> QED  BY <2>3, <2>4, <2>5, EditedInv
  <1>6. ASSUME NEW a \in Arrs, NEW i \in WC!IDs, WC!OwnerTakes(a, i)
        PROVE  HookInv'
    <2>1. PICK c : c = [conns[a][i] EXCEPT !.at = Unrelated, !.token = OtherToken, !.whose = "them"]
      OBVIOUS
    <2>2. conns[a][i] \in Conns
      BY HookConns
    <2>3. c \in Conns /\ c.whose = "them" /\ c.at = Unrelated /\ c.token = OtherToken
      BY <2>1, <2>2 DEF Conns
    <2>4. WC!Edited(a, i, c)
      BY <1>6, <2>1 DEF WC!OwnerTakes
    <2> QED  BY <2>3, <2>4, EditedInv
  <1>7. ASSUME NEW a \in Arrs, WC!Reset(a)
        PROVE  HookInv'
    <2>1. /\ conns' = [conns EXCEPT ![a] = [i \in WC!IDs |-> WC!None]]
          /\ UNCHANGED <<arr, base, token, stored, up, sync, lostTrack>>
      BY <1>7 DEF WC!Reset
    <2>2. conns \in [Arrs -> [WC!IDs -> Conns]]
      BY DEF HookInv, HookType
    <2>3. /\ conns' \in [Arrs -> [WC!IDs -> Conns]]
          /\ \A e \in Arrs, j \in WC!IDs : conns'[e][j] = IF e = a THEN WC!None ELSE conns[e][j]
      BY <1>1, <2>1, <2>2
    <2>4. \A e \in Arrs, j \in WC!IDs : conns'[e][j].whose = "nobody" \/ conns'[e][j] = conns[e][j]
      BY <1>1, <2>3
    <2> QED  BY <2>1, <2>3, <2>4, OthersKeep
  <1> QED  BY <1>2, <1>3, <1>4, <1>5, <1>6, <1>7

LEMMA IdleSync ==
    /\ WC!Idle \in [pc : {"idle", "put", "post", "record"}, id : WC!IDs \cup {0}, seen : Conns]
    /\ WC!Idle.pc = "idle"
  <1>1. WC!None \in Conns
    BY DEF WC!None, Conns
  <1> QED  BY <1>1 DEF WC!Idle

\* Only a connection of ours can be told, unless it is late.
LEMMA OursNotTheirs ==
    ASSUME HookInv, NEW a \in Arrs, NEW i \in WC!IDs, conns[a][i].whose = "them",
           conns[a][i].at = base \/ conns[a][i].token = token
    PROVE  conns[a][i].late
  <1>1. base \in Bases /\ token \in Tokens /\ ForeignTold
    BY DEF HookInv, HookType
  <1>2. conns[a][i].late \/ (conns[a][i].at \in {OtherHost, Unrelated} /\ conns[a][i].token = OtherToken)
    BY <1>1 DEF ForeignTold
  <1> QED  BY <1>1, <1>2, ConnectionAssumption

\* A sync that finds nothing under the remembered ID can tell its own
\* connection.
LEMMA TellsItsOwn ==
    ASSUME HookInv, up, ~lostTrack, WC!Remembered = {}, NEW j \in Mine(arr)
    PROVE  Told(j) /\ j \in WC!Matching
  <1>1. OneTold /\ arr \in Arrs /\ j \in WC!IDs /\ conns[arr][j].whose = "us" /\ conns[arr][j].at \in Bases
    BY DEF HookInv, HookType, Mine
  <1>2. j \in WC!Here /\ WC!Candidate(conns[arr][j])
    BY <1>1, ConnectionAssumption DEF WC!Here, WC!None, WC!Candidate
  <1>3. Told(j) \/ stored = At(arr, j)
    BY <1>1 DEF OneTold
  <1>4. stored # At(arr, j)
    BY <1>2 DEF WC!Remembered, At
  <1> QED  BY <1>2, <1>3, <1>4 DEF Told, WC!Matching, WC!Ours

\* The sync takes connection i for its own.
LEMMA OwnedInv ==
    ASSUME HookInv, up, sync = WC!Idle, NEW i \in WC!IDs, WC!Owned(i),
           i \in WC!Remembered \/ (WC!Remembered = {} /\ i \in WC!Matching),
           UNCHANGED <<conns, nextID, arr, base, token, stored, up, lostTrack, changes>>
    PROVE  HookInv'
  <1>1. arr \in Arrs /\ base \in Bases /\ token \in Tokens /\ conns[arr][i] \in Conns
    BY HookConns DEF HookInv, HookType
  <1>2. PICK r \in BOOLEAN : r <=> (WC!Repaired(conns[arr][i]) = conns[arr][i])
    BY Zenon
  <1>3. sync' = [pc |-> IF r THEN "record" ELSE "put", id |-> i, seen |-> conns[arr][i]]
    BY <1>2 DEF WC!Owned
  <1>4. /\ sync'.pc = (IF r THEN "record" ELSE "put") /\ sync'.id = i /\ sync'.seen = conns[arr][i]
        /\ sync' \in [pc : {"idle", "put", "post", "record"}, id : WC!IDs \cup {0}, seen : Conns]
    BY <1>1, <1>3
  <1>5. HookType'
    BY <1>4 DEF HookInv, HookType
  <1>6. conns[arr][i].whose = "them" => conns[arr][i].late \/ sync'.pc = "record" \/ i \in WC!Remembered
    BY <1>1, OursNotTheirs DEF WC!Matching, WC!Ours
  <1>7. r => conns[arr][i].at = base
    <2>1. SUFFICES ASSUME r PROVE conns[arr][i].at = base
      OBVIOUS
    <2>2. WC!Repaired(conns[arr][i]).at = base
      BY <1>1 DEF WC!Repaired, Conns
    <2> QED  BY <1>2, <2>1, <2>2
  <1>8. SeenLate'
    <2>1. SUFFICES ASSUME ~r, conns[arr][i].whose = "them" PROVE conns[arr][i].late /\ WC!Candidate(conns[arr][i])
      BY <1>4 DEF SeenLate, WC!Candidate
    <2>2. WC!Candidate(conns[arr][i])
      BY DEF WC!Remembered, WC!Matching, WC!Ours
    <2>3. CASE i \in WC!Remembered
      <3>1. stored = At(arr, i)
        BY <2>3 DEF WC!Remembered, HookInv, HookType, At
      <3> QED  BY <1>1, <2>1, <2>2, <3>1 DEF HookInv, ForeignTold
    <2>4. CASE i \notin WC!Remembered
      BY <1>4, <1>6, <2>1, <2>2, <2>4
    <2> QED  BY <2>3, <2>4
  <1>9. ForeignTold'
    <2>1. ForeignTold
      BY DEF HookInv
    <2>2. r /\ conns[arr][i].whose = "them" => conns[arr][i].late
      BY <1>1, <1>7, OursNotTheirs
    <2>3. SUFFICES ASSUME NEW a \in Arrs, NEW j \in WC!IDs, conns[a][j].whose = "them",
                          sync'.pc = "record", At(arr, sync'.id) = At(a, j)
                   PROVE  conns[a][j].late
      BY <2>1 DEF ForeignTold, WC!Candidate, At
    <2> QED  BY <1>4, <2>2, <2>3 DEF At
  <1>10. ~lostTrack => OneTold' /\ SyncKnows'
    <2>1. SUFFICES ASSUME ~lostTrack PROVE OneTold' /\ SyncKnows'
      OBVIOUS
    <2>2. OneTold
      BY <2>1 DEF HookInv
    <2>3. \A j \in Mine(arr) \ {i} : Told(j)
      <3>1. CASE i \in WC!Remembered
        BY <2>2, <3>1 DEF OneTold, WC!Remembered, At
      <3>2. CASE i \notin WC!Remembered
        BY <2>1, <3>2, TellsItsOwn
      <3> QED  BY <3>1, <3>2
    <2>4. conns[arr][i].whose = "us" => Mine(arr) \subseteq {i}
      BY <1>1, <2>2 DEF OneTold, Mine
    <2>5. OneTold'
      BY <2>2 DEF OneTold, Mine, Told, At
    <2>6. Mine(arr)' = Mine(arr) /\ \A j \in WC!IDs : Told(j)' <=> Told(j)
      BY DEF Mine, Told
    <2>7. Mine(arr) \subseteq WC!IDs
      BY DEF Mine
    <2>8. SyncKnows'
      BY <1>4, <2>3, <2>4, <2>6, <2>7 DEF SyncKnows
    <2> QED  BY <2>5, <2>8
  <1>11. \A a \in Arrs : \A j \in Mine(a)' : conns'[a][j].at \in Bases
    BY DEF HookInv, Mine
  <1> QED  BY <1>5, <1>8, <1>9, <1>10, <1>11 DEF HookInv

LEMMA BeginInv == HookInv /\ WC!Begin => HookInv'
  <1> SUFFICES ASSUME HookInv, WC!Begin PROVE HookInv'
    OBVIOUS
  <1>1. up /\ sync = WC!Idle /\ UNCHANGED <<conns, nextID, arr, base, token, stored, up, lostTrack, changes>>
    BY DEF WC!Begin
  <1>2. ASSUME NEW i \in WC!Remembered, WC!Owned(i) PROVE HookInv'
    <2>1. i \in WC!IDs
      BY DEF WC!Remembered, WC!Here
    <2> QED  BY <1>1, <1>2, <2>1, OwnedInv
  <1>3. ASSUME WC!Remembered = {}, NEW i \in WC!Matching, WC!Owned(i) PROVE HookInv'
    <2>1. i \in WC!IDs
      BY DEF WC!Matching, WC!Here
    <2> QED  BY <1>1, <1>3, <2>1, OwnedInv
  <1>4. CASE WC!Remembered = {} /\ WC!Matching = {} /\ sync' = [WC!Idle EXCEPT !.pc = "post"]
    <2>1. /\ sync' \in [pc : {"idle", "put", "post", "record"}, id : WC!IDs \cup {0}, seen : Conns]
          /\ sync'.pc = "post"
      BY <1>4, IdleSync
    <2>2. HookType' /\ SeenLate'
      BY <1>1, <2>1 DEF HookInv, HookType, SeenLate
    <2>3. ForeignTold'
      BY <1>1, <2>1 DEF HookInv, ForeignTold, WC!Candidate, At
    <2>4. ~lostTrack => OneTold' /\ SyncKnows'
      <3>1. SUFFICES ASSUME ~lostTrack PROVE OneTold' /\ SyncKnows'
        OBVIOUS
      <3>2. Mine(arr) = {}
        BY <1>1, <1>4, <3>1, TellsItsOwn
      <3>3. SyncKnows'
        BY <1>1, <2>1, <3>2 DEF SyncKnows, Mine
      <3>4. OneTold'
        BY <1>1, <3>1 DEF HookInv, OneTold, Mine, Told, At
      <3> QED  BY <3>3, <3>4
    <2>5. \A a \in Arrs : \A j \in Mine(a)' : conns'[a][j].at \in Bases
      BY <1>1 DEF HookInv, Mine
    <2> QED  BY <1>1, <2>2, <2>3, <2>4, <2>5 DEF HookInv
  <1> QED  BY <1>2, <1>3, <1>4 DEF WC!Begin

\* The sync's own writes: connection i of the configured Arr becomes c.
LEMMA WriteInv ==
    ASSUME HookInv, NEW i \in WC!IDs, NEW c \in Conns,
           sync.pc # "idle", c.at = base, c.token = token,
           c.whose = "them" => c.late,
           ~lostTrack /\ c.whose = "us" => Mine(arr) \subseteq {i},
           ~lostTrack => \A j \in Mine(arr) \ {i} : Told(j),
           conns' = [conns EXCEPT ![arr][i] = c],
           UNCHANGED <<arr, base, token, stored, up, lostTrack>>,
           sync' \in [pc : {"idle", "put", "post", "record"}, id : WC!IDs \cup {0}, seen : Conns],
           sync'.pc = "idle" \/ (sync'.pc = "record" /\ sync'.id = i)
    PROVE  HookInv'
  <1>1. conns \in [Arrs -> [WC!IDs -> Conns]] /\ arr \in Arrs /\ base \in Bases /\ up
    BY IdleSync DEF HookInv, HookType
  <1>2. conns' \in [Arrs -> [WC!IDs -> Conns]]
    BY <1>1
  <1>3. \A e \in Arrs, j \in WC!IDs : conns'[e][j] = IF e = arr /\ j = i THEN c ELSE conns[e][j]
    BY <1>1
  <1>4. HookType'
    BY <1>1, <1>2 DEF HookInv, HookType
  <1>5. SeenLate'
    BY DEF SeenLate
  <1>6. ForeignTold'
    <2>1. SUFFICES ASSUME NEW a \in Arrs, NEW j \in WC!IDs, conns'[a][j].whose = "them"
                   PROVE  /\ \/ conns'[a][j].late
                             \/ conns'[a][j].at \in {OtherHost, Unrelated} /\ conns'[a][j].token = OtherToken
                          /\ stored = At(a, j) => conns'[a][j].late \/ conns'[a][j].at = Unrelated
                          /\ sync'.pc = "record" /\ At(arr, sync'.id) = At(a, j)
                               => conns'[a][j].late \/ conns'[a][j].at = Unrelated
      BY DEF ForeignTold, WC!Candidate, At
    <2>2. CASE a = arr /\ j = i
      <3>1. conns'[a][j] = c
        BY <1>3, <2>2
      <3> QED  BY <2>1, <3>1
    <2>3. CASE ~(a = arr /\ j = i)
      <3>1. conns'[a][j] = conns[a][j]
        BY <1>3, <2>3
      <3>2. ~(sync'.pc = "record" /\ At(arr, sync'.id) = At(a, j))
        BY <2>3 DEF At
      <3> QED  BY <2>1, <3>1, <3>2 DEF HookInv, ForeignTold, WC!Candidate
    <2> QED  BY <2>2, <2>3
  <1>7. \A a \in Arrs : \A j \in Mine(a)' : conns'[a][j].at \in Bases
    <2>1. SUFFICES ASSUME NEW a \in Arrs, NEW j \in WC!IDs, conns'[a][j].whose = "us"
                   PROVE  conns'[a][j].at \in Bases
      BY DEF Mine
    <2>2. CASE a = arr /\ j = i
      BY <1>1, <1>3, <2>2
    <2>3. CASE ~(a = arr /\ j = i)
      <3>1. conns'[a][j] = conns[a][j]
        BY <1>3, <2>3
      <3> QED  BY <2>1, <3>1 DEF HookInv, Mine
    <2> QED  BY <2>2, <2>3
  <1>8. ~lostTrack => OneTold' /\ SyncKnows'
    <2>1. SUFFICES ASSUME ~lostTrack PROVE OneTold' /\ SyncKnows'
      OBVIOUS
    <2>2. OneTold
      BY <2>1 DEF HookInv
    <2>3. \A a \in Arrs \ {arr} : Mine(a)' = Mine(a)
      BY <1>3 DEF Mine
    <2>4. Mine(arr)' \subseteq Mine(arr) \cup {i} /\ (c.whose # "us" => i \notin Mine(arr)')
      BY <1>1, <1>3 DEF Mine
    <2>5. \A j, k \in Mine(arr)' : j = k
      BY <1>1, <2>1, <2>2, <2>4 DEF OneTold
    <2>6. \A j \in Mine(arr)' : Told(j)'
      <3>1. Told(i)'
        BY <1>1, <1>3 DEF Told
      <3>2. \A j \in Mine(arr) \ {i} : Told(j)'
        BY <1>1, <1>3, <2>1 DEF Told, Mine
      <3> QED  BY <2>4, <3>1, <3>2
    <2>7. OneTold'
      BY <2>2, <2>3, <2>5, <2>6 DEF OneTold
    <2>8. SyncKnows'
      BY <2>6 DEF SyncKnows
    <2> QED  BY <2>7, <2>8
  <1> QED  BY <1>4, <1>5, <1>6, <1>7, <1>8 DEF HookInv

LEMMA PutInv == HookInv /\ WC!Put => HookInv'
  <1> SUFFICES ASSUME HookInv, WC!Put PROVE HookInv'
    OBVIOUS
  <1>1. /\ sync \in [pc : {"idle", "put", "post", "record"}, id : WC!IDs \cup {0}, seen : Conns]
        /\ sync.pc = "put" /\ sync.id \in WC!IDs /\ sync.seen \in Conns
    BY DEF HookInv, HookType, WC!Put
  <1>2. PICK c : c = WC!Repaired(sync.seen)
    OBVIOUS
  <1>3. base \in Bases /\ token \in Tokens
    BY DEF HookInv, HookType
  <1>4. c \in Conns
    BY <1>1, <1>2, <1>3 DEF WC!Repaired, Conns
  <1>5. c.at = base /\ c.token = token /\ c.whose = sync.seen.whose /\ c.late = sync.seen.late
    BY <1>1, <1>2 DEF WC!Repaired, Conns
  <1>6. c.whose = "them" => c.late
    BY <1>1, <1>5 DEF HookInv, SeenLate
  <1>7. ~lostTrack => SyncKnows
    BY DEF HookInv
  <1>8. /\ ~lostTrack /\ c.whose = "us" => Mine(arr) \subseteq {sync.id}
        /\ ~lostTrack => \A j \in Mine(arr) \ {sync.id} : Told(j)
    BY <1>1, <1>5, <1>7 DEF SyncKnows
  <1>9. conns' = [conns EXCEPT ![arr][sync.id] = c] /\ UNCHANGED <<arr, base, token, stored, up, lostTrack>>
    BY <1>2 DEF WC!Put
  <1>10. /\ sync' \in [pc : {"idle", "put", "post", "record"}, id : WC!IDs \cup {0}, seen : Conns]
         /\ sync'.pc = "idle" \/ (sync'.pc = "record" /\ sync'.id = sync.id)
    <2>1. sync' = [sync EXCEPT !.pc = "record"] \/ sync' = WC!Idle
      BY DEF WC!Put
    <2> QED  BY <1>1, <2>1, IdleSync
  <1>11. sync.pc # "idle"
    BY <1>1
  <1> QED  BY <1>1, <1>4, <1>5, <1>6, <1>8, <1>9, <1>10, <1>11, WriteInv

LEMMA PostInv == HookInv /\ WC!Post => HookInv'
  <1> SUFFICES ASSUME HookInv, WC!Post PROVE HookInv'
    OBVIOUS
  <1>1. /\ sync \in [pc : {"idle", "put", "post", "record"}, id : WC!IDs \cup {0}, seen : Conns]
        /\ sync.pc = "post" /\ base \in Bases /\ token \in Tokens
    BY DEF HookInv, HookType, WC!Post
  <1>2. PICK n \in WC!IDs : n = nextID[arr]
    BY DEF WC!Post
  <1>3. PICK c : c = [at |-> base, token |-> token, right |-> TRUE, whose |-> "us", late |-> FALSE]
    OBVIOUS
  <1>4. c \in Conns /\ c.at = base /\ c.token = token /\ c.whose = "us"
    BY <1>1, <1>3 DEF Conns
  <1>5. ~lostTrack => Mine(arr) = {}
    BY <1>1 DEF HookInv, SyncKnows
  <1>6. conns' = [conns EXCEPT ![arr][n] = c] /\ UNCHANGED <<arr, base, token, stored, up, lostTrack>>
    BY <1>2, <1>3 DEF WC!Post
  <1>7. /\ sync' \in [pc : {"idle", "put", "post", "record"}, id : WC!IDs \cup {0}, seen : Conns]
        /\ sync'.pc = "idle" \/ (sync'.pc = "record" /\ sync'.id = n)
    <2>1. sync' = [sync EXCEPT !.pc = "record", !.id = n] \/ sync' = WC!Idle
      BY <1>2 DEF WC!Post
    <2> QED  BY <1>1, <2>1, IdleSync
  <1>8. sync.pc # "idle" /\ (c.whose = "them" => c.late)
    BY <1>1, <1>4
  <1>9. /\ ~lostTrack /\ c.whose = "us" => Mine(arr) \subseteq {n}
        /\ ~lostTrack => \A j \in Mine(arr) \ {n} : Told(j)
    BY <1>5
  <1> QED  BY <1>4, <1>6, <1>7, <1>8, <1>9, WriteInv

\* Refused, Record, Stop, Rotate and Start write to no connection.
LEMMA NoWriteInv ==
    ASSUME HookInv, WC!Refused \/ WC!Record \/ WC!Stop \/ WC!Rotate \/ \E a \in Arrs, b \in Bases : WC!Start(a, b)
    PROVE  HookInv'
  <1>1. ASSUME UNCHANGED conns, HookType', sync' = WC!Idle,
               \A a \in Arrs, i \in WC!IDs : conns[a][i].whose = "them" /\ stored' = At(a, i)
                  => conns[a][i].late \/ ~WC!Candidate(conns[a][i]),
               ~lostTrack' => ~lostTrack /\ (up' => \A i \in Mine(arr)' : Told(i)' \/ stored' = At(arr, i)')
        PROVE  HookInv'
    <2>1. ForeignTold' /\ SeenLate'
      BY <1>1, IdleSync DEF HookInv, ForeignTold, SeenLate, WC!Candidate, At
    <2>2. \A a \in Arrs : Mine(a)' = Mine(a)
      BY <1>1 DEF Mine
    <2>3. ~lostTrack' => OneTold' /\ SyncKnows'
      BY <1>1, <2>2, IdleSync DEF HookInv, OneTold, SyncKnows
    <2>4. \A a \in Arrs : \A j \in Mine(a)' : conns'[a][j].at \in Bases
      BY <1>1, <2>2 DEF HookInv
    <2> QED  BY <1>1, <2>1, <2>3, <2>4 DEF HookInv
  <1>2. \A a \in Arrs, i \in WC!IDs : conns[a][i].whose = "them" /\ stored = At(a, i)
           => conns[a][i].late \/ ~WC!Candidate(conns[a][i])
    BY DEF HookInv, ForeignTold
  <1>3. CASE WC!Refused \/ WC!Stop
    <2>1. /\ UNCHANGED <<conns, nextID, arr, base, token, stored, lostTrack>> /\ sync' = WC!Idle
          /\ up' => up
      BY <1>3 DEF WC!Refused, WC!Stop
    <2>2. HookType'
      BY <2>1, IdleSync DEF HookInv, HookType
    <2>3. ~lostTrack' => ~lostTrack /\ (up' => \A i \in Mine(arr)' : Told(i)' \/ stored' = At(arr, i)')
      BY <2>1 DEF HookInv, OneTold, Mine, Told, At
    <2> QED  BY <1>1, <1>2, <2>1, <2>2, <2>3
  <1>4. CASE WC!Rotate
    <2>1. UNCHANGED <<conns, nextID, arr, base, stored, up, sync, lostTrack>> /\ ~up /\ token' \in Tokens
      BY <1>4 DEF WC!Rotate
    <2>2. HookType' /\ sync' = WC!Idle
      BY <2>1 DEF HookInv, HookType, WC!Idle, WC!None
    <2>3. ~lostTrack' => ~lostTrack /\ (up' => \A i \in Mine(arr)' : Told(i)' \/ stored' = At(arr, i)')
      BY <2>1
    <2> QED  BY <1>1, <1>2, <2>1, <2>2, <2>3
  <1>5. CASE WC!Record
    <2>1. /\ UNCHANGED <<conns, nextID, arr, base, token, up, lostTrack>> /\ sync' = WC!Idle /\ sync.pc = "record"
          /\ stored' = At(arr, sync.id)
      BY <1>5 DEF WC!Record, WC!Recorded, At
    <2>2. HookType'
      <3>1. sync.id \in WC!IDs /\ arr \in Arrs
        BY <2>1 DEF HookInv, HookType
      <3>2. stored' \in [arr : Arrs, id : WC!IDs \cup {0}]
        BY <2>1, <3>1 DEF At
      <3> QED  BY <2>1, <3>2, IdleSync DEF HookInv, HookType
    <2>3. ~lostTrack' => ~lostTrack /\ (up' => \A i \in Mine(arr)' : Told(i)' \/ stored' = At(arr, i)')
      <3>1. SUFFICES ASSUME ~lostTrack PROVE \A i \in Mine(arr) : Told(i)' \/ stored' = At(arr, i)'
        BY <2>1 DEF Mine
      <3>2. \A i \in Mine(arr) \ {sync.id} : Told(i)'
        BY <2>1, <3>1 DEF HookInv, SyncKnows, Told
      <3> QED  BY <2>1, <3>2 DEF At
    <2>4. \A a \in Arrs, i \in WC!IDs : conns[a][i].whose = "them" /\ stored' = At(a, i)
             => conns[a][i].late \/ ~WC!Candidate(conns[a][i])
      BY <2>1 DEF HookInv, ForeignTold
    <2> QED  BY <1>1, <2>1, <2>2, <2>3, <2>4
  <1>6. ASSUME NEW a \in Arrs, NEW b \in Bases, WC!Start(a, b)
        PROVE  HookInv'
    <2>1. UNCHANGED <<conns, token, stored, sync>> /\ ~up /\ arr' = a /\ base' = b
      BY <1>6 DEF WC!Start
    <2>2. HookType' /\ sync' = WC!Idle
      BY <2>1 DEF HookInv, HookType, WC!Idle, WC!None
    <2>3. ~lostTrack' => ~lostTrack /\ \A i \in WC!IDs : conns[a][i].whose = "us"
                            => conns[a][i].at = b \/ conns[a][i].token = token \/ stored = At(a, i)
      <3>1. ~lostTrack' => ~(lostTrack \/ \E i \in WC!IDs :
                                /\ conns[a][i].whose = "us"
                                /\ conns[a][i].at # b /\ conns[a][i].token # token
                                /\ stored # At(a, i))
        BY <1>6, Zenon DEF WC!Start, At
      <3> QED  BY <3>1
    <2>4. ~lostTrack' => ~lostTrack /\ (up' => \A i \in Mine(arr)' : Told(i)' \/ stored' = At(arr, i)')
      BY <2>1, <2>3 DEF Mine, Told, At
    <2> QED  BY <1>1, <1>2, <2>1, <2>2, <2>4
  <1> QED  BY <1>3, <1>4, <1>5, <1>6

LEMMA HookKept == HookInv /\ [Next]_vars => HookInv'
  <1> SUFFICES ASSUME HookInv, [Next]_vars PROVE HookInv'
    OBVIOUS
  <1>1. CASE UNCHANGED hookVars
    BY <1>1 DEF HookInv, HookType, ForeignTold, SeenLate, OneTold, SyncKnows, Mine, Told, At, hookVars,
                WC!Idle, WC!None, WC!Candidate
  <1>2. CASE WC!Next
    BY <1>2, BeginInv, PutInv, PostInv, NoWriteInv, OthersInv DEF WC!Next
  <1>3. WC!Next \/ UNCHANGED hookVars
    BY DEF Next, vars, hookVars
  <1> QED  BY <1>1, <1>2, <1>3

\* subsyncd never has a second connection beside its own in any Arr, unless it
\* started with a base URL, a token and a remembered ID of which none tells the
\* one it has: whatever answers are lost and wherever the daemon dies between
\* reading, writing and remembering (Sync, rememberedConnection,
\* matchConnections).
THEOREM OneConnectionEver == Spec => []OneConnection
  <1>1. HookInv => OneConnection
    <2>1. SUFFICES ASSUME HookInv, ~lostTrack, NEW a \in Arrs PROVE Cardinality(Mine(a)) <= 1
      <3>1. \A a \in Arrs : Mine(a) = {i \in WC!IDs : conns[a][i].whose = "us"}
        BY DEF Mine
      <3>2. (~lostTrack => \A a \in Arrs : Cardinality(Mine(a)) <= 1) => OneConnection
        BY <3>1, SameCardinality DEF OneConnection, WC!OneConnection
      <3> QED  BY <3>2
    <2>2. \A i, j \in Mine(a) : i = j
      BY <2>1 DEF HookInv, OneTold
    <2>3. CASE Mine(a) = {}
      BY <2>3, FS_EmptySet
    <2>4. CASE Mine(a) # {}
      <3>1. PICK i : Mine(a) = {i}
        BY <2>2, <2>4
      <3> QED  BY <3>1, FS_Singleton
    <2> QED  BY <2>3, <2>4
  <1> QED  BY <1>1, HookInit, HookKept, PTL DEF Spec

\* A sync never writes to a connection of another deployment or program, nor to
\* one the owner turned to something else, that it did read as such: whatever
\* Arr, host, token and remembered ID have become between two runs
\* (rememberedConnection, matchConnections, repairWebhookResource).
THEOREM ForeignLeftAlone == Spec => ForeignUntouched
  <1>1. HookInv /\ [Next]_vars => [WC!ForeignLeft]_hookVars
    <2> SUFFICES ASSUME HookInv, [Next]_vars, ~(UNCHANGED hookVars), NEW i \in WC!IDs,
                        sync.pc = "put", sync' # sync,
                        conns[arr][i].whose = "them", conns[arr][i] = sync.seen,
                        ~(conns[arr][i].late /\ WC!Candidate(conns[arr][i]))
                 PROVE  conns'[arr][i] = conns[arr][i]
      BY DEF WC!ForeignLeft
    <2>1. sync.seen.late /\ WC!Candidate(sync.seen)
      BY DEF HookInv, SeenLate
    <2> QED  BY <2>1
  <1> QED  BY <1>1, HookInit, HookKept, PTL DEF Spec, ForeignUntouched

-----------------------------------------------------------------------------
(* The pack cache.                                                          *)

RowSet == {PC!NoRow} \cup [ev : Evidence, expired : BOOLEAN]
DirSet == [text : Packs \cup {NoOne}, whole : BOOLEAN]
Ops == [pc : {"free", "publish", "row", "list", "stage", "delete", "remove", "invalid"},
        pack : Packs \cup {NoOne}, ev : Evidence \cup {0}, created : BOOLEAN,
        victims : SUBSET Packs, victim : Packs \cup {NoOne}, moved : DirSet]
Reads == {PC!Nothing} \cup {[pack |-> p, dir |-> <<p, e>>] : p \in Packs, e \in Evidence}

\* What lies whole in a directory is the pack that the directory is named after.
PackData ==
    /\ rows \in [Packs -> RowSet] /\ reading \in [Searches -> Reads]
    /\ dirs \in [PC!Directories -> DirSet]
    /\ \A d \in PC!Directories : dirs[d].whole => dirs[d].text = d[1]
    /\ ~misread

\* The pack just put is the last one used.
PutLast ==
    /\ op.pack \in PC!Rows /\ ~rows[op.pack].expired
    /\ \A q \in Packs : <<op.pack, q>> \notin used

\* What an eviction knows of its victims.
Evicting ==
    /\ op.pack \in PC!Rows \ op.victims
    /\ Cardinality(PC!Rows \ op.victims) <= Capacity
    /\ op.pc # "remove" => op.victims \subseteq PC!Rows
    /\ op.pc # "stage" => op.victim \in op.victims /\ (op.moved.whole => op.moved.text = op.victim)
    /\ op.pc = "remove" => op.victim \notin PC!Rows /\ op.victims \ {op.victim} \subseteq PC!Rows

OpInv ==
    /\ op \in Ops
    /\ op.pc # "free" => op.pack \in Packs /\ op.ev \in Evidence
    /\ op.pc = "list" => PutLast
    /\ op.pc \in {"stage", "delete", "remove"} => Evicting
    /\ op.pc = "invalid" => ~settled
    /\ op.pc \notin {"delete", "remove"} => ~op.moved.whole

AtRest ==
    /\ tombs = {} /\ ~staged
    /\ \A d \in PC!Directories : dirs[d] # PC!NoDir => \E p \in PC!Rows : d = PC!ContentKey(p, rows[p].ev)
    /\ Cardinality(PC!Rows) <= Capacity

PackInv == PackData /\ OpInv /\ (settled /\ op.pc = "free" => AtRest)

LEMMA CacheFacts ==
    /\ PC!NoRow \in RowSet
    /\ PC!NoDir \in DirSet /\ ~PC!NoDir.whole
    /\ PC!Free \in Ops /\ PC!Free.pc = "free" /\ ~PC!Free.moved.whole
    /\ PC!Nothing \in Reads
    /\ \A p \in Packs, e \in Evidence : <<p, e>> \in PC!Directories
  <1>1. PC!NoDir \in DirSet /\ ~PC!NoDir.whole
    BY DEF DirSet, PC!NoDir
  <1>2. PC!Free \in Ops /\ PC!Free.pc = "free" /\ PC!Free.moved = PC!NoDir
    BY <1>1 DEF PC!Free, Ops
  <1> QED  BY <1>1, <1>2 DEF RowSet, Reads, PC!Directories

LEMMA RowFacts ==
    ASSUME PackData, NEW p \in PC!Rows
    PROVE  p \in Packs /\ rows[p] \in [ev : Evidence, expired : BOOLEAN] /\ rows[p].ev \in Evidence
  BY DEF PackData, PC!Rows, RowSet

LEMMA RowsFinite == IsFiniteSet(PC!Rows) /\ PC!Rows \subseteq Packs
  <1>1. PC!Rows \subseteq Packs
    BY DEF PC!Rows
  <1> QED  BY <1>1, FS_Subset, CacheAssumption

LEMMA PackInit == Init => PackInv
  <1> SUFFICES ASSUME Init PROVE PackInv
    OBVIOUS
  <1>1. /\ rows = [p \in Packs |-> PC!NoRow] /\ dirs = [d \in PC!Directories |-> PC!NoDir]
        /\ op = PC!Free /\ reading = [s \in Searches |-> PC!Nothing] /\ tombs = {}
    BY DEF Init, PC!Init
  <1>2. ~staged /\ ~misread
    BY DEF Init, PC!Init
  <1>3. PackData
    BY <1>1, <1>2, CacheFacts DEF PackData
  <1>4. OpInv
    BY <1>1, CacheFacts DEF OpInv
  <1>5. AtRest
    <2>1. PC!Rows = {}
      BY <1>1 DEF PC!Rows
    <2> QED  BY <1>1, <1>2, <2>1, FS_EmptySet, CacheAssumption DEF AtRest
  <1> QED  BY <1>3, <1>4, <1>5 DEF PackInv

\* An operation that ends without having tidied up.
LEMMA Fails ==
    ASSUME PackData', op' = PC!Free, ~settled'
    PROVE  PackInv'
  BY CacheFacts DEF PackInv, OpInv

\* One directory changes.
LEMMA DirWritten ==
    ASSUME PackData, NEW d \in PC!Directories, NEW x \in DirSet, x.whole => x.text = d[1],
           dirs' = [dirs EXCEPT ![d] = x], UNCHANGED <<rows, reading, misread>>
    PROVE  PackData'
  <1>1. dirs \in [PC!Directories -> DirSet]
    BY DEF PackData
  <1>2. /\ dirs' \in [PC!Directories -> DirSet]
        /\ \A e \in PC!Directories : dirs'[e] = IF e = d THEN x ELSE dirs[e]
    BY <1>1
  <1>3. \A e \in PC!Directories : dirs'[e].whole => dirs'[e].text = e[1]
    BY <1>2 DEF PackData
  <1> QED  BY <1>2, <1>3 DEF PackData

\* One row changes.
LEMMA RowWritten ==
    ASSUME PackData, NEW p \in Packs, NEW x \in RowSet,
           rows' = [rows EXCEPT ![p] = x], UNCHANGED <<dirs, reading, misread>>
    PROVE  /\ PackData'
           /\ rows'[p] = x /\ \A q \in Packs \ {p} : rows'[q] = rows[q]
           /\ PC!Rows' = IF x = PC!NoRow THEN PC!Rows \ {p} ELSE PC!Rows \cup {p}
  <1>1. rows \in [Packs -> RowSet]
    BY DEF PackData
  <1>2. /\ rows' \in [Packs -> RowSet]
        /\ \A q \in Packs : rows'[q] = IF q = p THEN x ELSE rows[q]
    BY <1>1
  <1>3. PC!Rows' = {q \in Packs : rows'[q] # PC!NoRow}
    BY DEF PC!Rows, PC!NoRow
  <1>4. PC!Rows' = IF x = PC!NoRow THEN PC!Rows \ {p} ELSE PC!Rows \cup {p}
    BY <1>2, <1>3 DEF PC!Rows
  <1> QED  BY <1>2, <1>4 DEF PackData

\* The steps of a Put up to its row.
LEMMA PutStepInv ==
    ASSUME PackInv,
           \/ \E s \in Searches, p \in Packs, e \in Evidence : PC!BeginPut(s, p, e)
           \/ PC!Publish \/ PC!PutRow \/ PC!PutRowFails
    PROVE  PackInv'
  <1>1. PackData /\ OpInv /\ op \in Ops
    BY DEF PackInv, OpInv
  <1>2. ASSUME NEW s \in Searches, NEW p \in Packs, NEW e \in Evidence, PC!BeginPut(s, p, e)
        PROVE  PackInv'
    <2>1. op' = [PC!Free EXCEPT !.pc = "publish", !.pack = p, !.ev = e] /\ UNCHANGED <<rows, dirs, reading, misread>>
      BY <1>2 DEF PC!BeginPut
    <2>2. op' \in Ops /\ op'.pc = "publish" /\ op'.pack = p /\ op'.ev = e /\ op'.moved = PC!Free.moved
      BY <2>1, CacheFacts DEF Ops
    <2>3. PackData'
      BY <1>1, <2>1 DEF PackData
    <2> QED  BY <2>2, <2>3, CacheFacts DEF PackInv, OpInv
  <1>3. CASE PC!Publish
    <2>1. op.pc = "publish" /\ op.pack \in Packs /\ op.ev \in Evidence /\ UNCHANGED <<rows, reading, misread>>
      BY <1>1, <1>3 DEF PC!Publish, PC!At, OpInv
    <2> DEFINE d == <<op.pack, op.ev>>
    <2>2. d \in PC!Directories /\ d[1] = op.pack
      BY <2>1, CacheFacts
    <2>3. CASE /\ dirs' = [dirs EXCEPT ![d] = [text |-> op.pack, whole |-> TRUE]]
               /\ op' = [op EXCEPT !.pc = "row", !.created = TRUE]
      <3>1. PICK x : x = [text |-> op.pack, whole |-> TRUE]
        OBVIOUS
      <3>2. x \in DirSet /\ x.text = op.pack
        BY <2>1, <3>1 DEF DirSet
      <3>3. PackData'
        <4>1. dirs' = [dirs EXCEPT ![d] = x] /\ (x.whole => x.text = d[1])
          BY <2>2, <2>3, <3>1, <3>2
        <4> HIDE DEF d
        <4> QED  BY <1>1, <2>1, <2>2, <3>2, <4>1, DirWritten
      <3>4. op' \in Ops /\ op'.pc = "row" /\ op'.pack = op.pack /\ op'.ev = op.ev /\ op'.moved = op.moved
        BY <1>1, <2>3 DEF Ops
      <3> QED  BY <1>1, <2>1, <3>3, <3>4 DEF PackInv, OpInv
    <2>4. CASE op' = [op EXCEPT !.pc = "row"] /\ UNCHANGED dirs
      <3>1. PackData'
        BY <1>1, <2>1, <2>4 DEF PackData
      <3>2. op' \in Ops /\ op'.pc = "row" /\ op'.pack = op.pack /\ op'.ev = op.ev /\ op'.moved = op.moved
        BY <1>1, <2>4 DEF Ops
      <3> QED  BY <1>1, <2>1, <3>1, <3>2 DEF PackInv, OpInv
    <2>5. CASE op' = PC!Free /\ settled' = FALSE /\ UNCHANGED dirs
      <3>1. PackData'
        BY <1>1, <2>1, <2>5 DEF PackData
      <3> QED  BY <2>5, <3>1, Fails
    <2> QED  BY <1>3, <2>3, <2>4, <2>5 DEF PC!Publish, PC!ContentKey, PC!Goto
  <1>4. CASE PC!PutRow
    <2>1. /\ op.pc = "row" /\ op.pack \in Packs /\ op.ev \in Evidence /\ UNCHANGED <<dirs, reading, misread>>
          /\ op' = [op EXCEPT !.pc = "list"] /\ used' = PC!Touched(op.pack)
      BY <1>1, <1>4 DEF PC!PutRow, PC!At, PC!Goto, OpInv
    <2>2. PICK x : x = [ev |-> op.ev, expired |-> FALSE]
      OBVIOUS
    <2>3. x \in [ev : Evidence, expired : BOOLEAN] /\ x \in RowSet /\ x.ev = op.ev /\ x.ev # 0
      BY <2>1, <2>2, CacheAssumption DEF RowSet
    <2>4. x # PC!NoRow
      BY <2>3 DEF PC!NoRow
    <2>5. rows' = [rows EXCEPT ![op.pack] = x]
      BY <1>4, <2>2 DEF PC!PutRow
    <2>6. PackData' /\ rows'[op.pack] = x /\ PC!Rows' = PC!Rows \cup {op.pack}
      BY <1>1, <2>1, <2>3, <2>4, <2>5, RowWritten
    <2>7. op' \in Ops /\ op'.pc = "list" /\ op'.pack = op.pack /\ op'.ev = op.ev /\ op'.moved = op.moved
      BY <1>1, <2>1 DEF Ops
    <2>8. ~x.expired
      BY <2>2
    <2>9. \A q \in Packs : <<op.pack, q>> \notin used'
      BY <2>1 DEF PC!Touched, PC!Without
    <2>10. PutLast'
      <3>1. op'.pack \in PC!Rows' /\ ~rows'[op'.pack].expired /\ \A q \in Packs : <<op'.pack, q>> \notin used'
        BY <2>6, <2>7, <2>8, <2>9
      <3> QED  BY <3>1 DEF PutLast
    <2> QED  BY <1>1, <2>1, <2>6, <2>7, <2>10 DEF PackInv, OpInv
  <1>5. CASE PC!PutRowFails
    <2>1. /\ op.pack \in Packs /\ op.ev \in Evidence /\ UNCHANGED <<rows, reading, misread>>
          /\ op' = PC!Free /\ settled' = FALSE
      BY <1>1, <1>5 DEF PC!PutRowFails, PC!At, OpInv
    <2>2. dirs' = [dirs EXCEPT ![<<op.pack, op.ev>>] = PC!NoDir] \/ UNCHANGED dirs
      BY <1>5 DEF PC!PutRowFails, PC!ContentKey
    <2>3. PackData'
      <3>1. CASE UNCHANGED dirs
        BY <1>1, <2>1, <3>1 DEF PackData
      <3>2. CASE dirs' = [dirs EXCEPT ![<<op.pack, op.ev>>] = PC!NoDir]
        BY <1>1, <2>1, <3>2, DirWritten, CacheFacts
      <3> QED  BY <2>2, <3>1, <3>2
    <2> QED  BY <2>1, <2>3, Fails
  <1> QED  BY <1>2, <1>3, <1>4, <1>5

\* The victims never include the pack just put, and without them the rest fits.
LEMMA VictimsLeave ==
    ASSUME PackData, PutLast, NEW ps \in PC!Victims
    PROVE  ps \subseteq PC!Rows /\ op.pack \notin ps /\ Cardinality(PC!Rows \ ps) <= Capacity
  <1> DEFINE n == Cardinality(PC!Rows)
             k == Cardinality(PC!Expired)
  <1>1. /\ ps \subseteq PC!Rows /\ PC!Expired \subseteq PC!Rows \ {op.pack}
        /\ \A p \in ps, q \in PC!Rows \ ps : PC!Before(p, q)
    BY DEF PC!Victims, PC!Expired, PutLast
  <1>2. /\ IsFiniteSet(ps) /\ IsFiniteSet(PC!Expired) /\ IsFiniteSet(PC!Rows)
        /\ n \in Nat /\ k \in Nat /\ Cardinality(ps) \in Nat
    <2>1. IsFiniteSet(PC!Rows)
      BY RowsFinite
    <2>2. IsFiniteSet(ps) /\ IsFiniteSet(PC!Expired)
      BY <1>1, <2>1, FS_Subset
    <2> QED  BY <2>1, <2>2, FS_CardinalityType
  <1>3. k < n
    <2>1. op.pack \in PC!Rows
      BY DEF PutLast
    <2>2. IsFiniteSet(PC!Rows \ {op.pack}) /\ Cardinality(PC!Rows \ {op.pack}) = n - 1
      BY <1>2, <2>1, FS_RemoveElement
    <2>3. k <= Cardinality(PC!Rows \ {op.pack})
      BY <1>1, <2>2, FS_Subset
    <2> QED  BY <1>2, <2>2, <2>3
  <1>4. PC!Excess(n) = IF n > Capacity THEN n - Capacity ELSE 0
    BY DEF PC!Excess
  <1>5. Cardinality(ps) = IF k > PC!Excess(n) THEN k ELSE PC!Excess(n)
    BY SameCardinality DEF PC!Victims
  <1> HIDE DEF n, k
  <1>6. Capacity \in Nat \ {0}
    BY CacheAssumption
  <1>7. Cardinality(ps) < n /\ n - Cardinality(ps) <= Capacity
    BY <1>2, <1>3, <1>4, <1>5, <1>6
  <1>8. Cardinality(PC!Rows \ ps) = n - Cardinality(ps)
    <2>1. PC!Rows \cap ps = ps
      BY <1>1
    <2> QED  BY <1>2, <2>1, FS_Difference DEF n
  <1>9. ps # PC!Rows
    BY <1>2, <1>7 DEF n
  <1>10. PICK q \in PC!Rows : q \notin ps
    BY <1>1, <1>9
  <1>11. q \in Packs
    BY <1>10, RowsFinite
  <1>12. ~PC!Before(op.pack, q)
    BY <1>11 DEF PutLast, PC!Before
  <1> QED  BY <1>1, <1>7, <1>8, <1>10, <1>12

LEMMA EvictInv ==
    ASSUME PackInv,
           PC!ListVictims \/ PC!Stage \/ PC!Delete \/ PC!DeleteFails \/ PC!RemoveTombstone \/ PC!Sweep
    PROVE  PackInv'
  <1>1. PackData /\ OpInv /\ op \in Ops
    BY DEF PackInv, OpInv
  <1>2. CASE PC!ListVictims
    <2>1. op.pc = "list" /\ PutLast /\ op.pack \in Packs /\ op.ev \in Evidence /\ UNCHANGED <<rows, dirs, reading, misread>>
      BY <1>1, <1>2 DEF PC!ListVictims, PC!At, OpInv
    <2>2. PICK ps \in PC!Victims : op' = [op EXCEPT !.pc = "stage", !.victims = ps]
      BY <1>2 DEF PC!ListVictims
    <2>3. ps \subseteq PC!Rows /\ op.pack \in PC!Rows \ ps /\ Cardinality(PC!Rows \ ps) <= Capacity
      BY <1>1, <2>1, VictimsLeave DEF PutLast
    <2>4. op' \in Ops /\ op'.pc = "stage" /\ op'.pack = op.pack /\ op'.ev = op.ev /\ op'.victims = ps /\ op'.moved = op.moved
      BY <1>1, <2>2, <2>3, RowsFinite DEF Ops
    <2>5. PackData' /\ PC!Rows' = PC!Rows
      BY <1>1, <2>1 DEF PackData, PC!Rows, PC!NoRow
    <2>6. Evicting'
      BY <2>3, <2>4, <2>5 DEF Evicting
    <2> QED  BY <1>1, <2>1, <2>4, <2>5, <2>6 DEF PackInv, OpInv
  <1>3. CASE PC!Stage
    <2>1. /\ op.pc = "stage" /\ Evicting /\ op.pack \in Packs /\ op.ev \in Evidence /\ ~op.moved.whole
          /\ UNCHANGED <<rows, reading, misread>>
      BY <1>1, <1>3 DEF PC!Stage, PC!At, OpInv
    <2>2. PC!Rows' = PC!Rows
      BY <2>1 DEF PC!Rows, PC!NoRow
    <2>3. PICK p \in op.victims :
            \/ /\ op' = [op EXCEPT !.pc = "delete", !.victim = p] /\ UNCHANGED <<dirs, tombs, staged, settled>>
               /\ dirs[<<p, rows[p].ev>>] = PC!NoDir
            \/ op' = PC!Free /\ settled' = FALSE /\ UNCHANGED <<dirs, tombs>>
            \/ /\ dirs' = [dirs EXCEPT ![<<p, rows[p].ev>>] = PC!NoDir]
               /\ op' = [op EXCEPT !.pc = "delete", !.victim = p, !.moved = dirs[<<p, rows[p].ev>>]]
      BY <1>3 DEF PC!Stage, PC!ContentKey
    <2>4. p \in PC!Rows /\ p \in Packs /\ rows[p].ev \in Evidence
      BY <1>1, <2>1, <2>3, RowFacts DEF Evicting
    <2> DEFINE d == <<p, rows[p].ev>>
    <2>5. d \in PC!Directories /\ d[1] = p
      BY <2>4, CacheFacts
    <2>6. dirs[d] \in DirSet /\ (dirs[d].whole => dirs[d].text = p)
      BY <1>1, <2>5 DEF PackData
    <2>7. CASE op' = PC!Free /\ settled' = FALSE /\ UNCHANGED <<dirs, tombs>>
      <3>1. PackData'
        BY <1>1, <2>1, <2>7 DEF PackData
      <3> QED  BY <2>7, <3>1, Fails
    <2>8. CASE /\ dirs' = [dirs EXCEPT ![d] = PC!NoDir]
               /\ op' = [op EXCEPT !.pc = "delete", !.victim = p, !.moved = dirs[d]]
      <3> HIDE DEF d
      <3>1. PackData'
        BY <1>1, <2>1, <2>5, <2>8, DirWritten, CacheFacts
      <3>2. /\ op' \in Ops /\ op'.pc = "delete" /\ op'.pack = op.pack /\ op'.ev = op.ev /\ op'.victims = op.victims
            /\ op'.victim = p /\ op'.moved = dirs[d]
        BY <1>1, <2>4, <2>6, <2>8 DEF Ops
      <3>3. Evicting'
        BY <2>1, <2>2, <2>3, <2>6, <3>2 DEF Evicting
      <3> QED  BY <2>1, <3>1, <3>2, <3>3 DEF PackInv, OpInv
    <2>9. CASE op' = [op EXCEPT !.pc = "delete", !.victim = p] /\ UNCHANGED <<dirs, tombs, staged, settled>>
      <3>1. PackData'
        BY <1>1, <2>1, <2>9 DEF PackData
      <3>2. /\ op' \in Ops /\ op'.pc = "delete" /\ op'.pack = op.pack /\ op'.ev = op.ev /\ op'.victims = op.victims
            /\ op'.victim = p /\ op'.moved = op.moved
        BY <1>1, <2>4, <2>9 DEF Ops
      <3>3. Evicting'
        BY <2>1, <2>2, <2>3, <3>2 DEF Evicting
      <3> QED  BY <2>1, <3>1, <3>2, <3>3 DEF PackInv, OpInv
    <2> QED  BY <2>3, <2>7, <2>8, <2>9
  <1>4. CASE PC!Delete
    <2>1. /\ op.pc = "delete" /\ Evicting /\ op.pack \in Packs /\ op.ev \in Evidence
          /\ UNCHANGED <<dirs, reading, misread>>
          /\ rows' = [rows EXCEPT ![op.victim] = PC!NoRow] /\ op' = [op EXCEPT !.pc = "remove"]
      BY <1>1, <1>4 DEF PC!Delete, PC!At, PC!Goto, OpInv
    <2>2. op.victim \in Packs /\ op.victim \in op.victims /\ op.pack # op.victim
      BY <2>1, RowsFinite DEF Evicting
    <2>3. PackData' /\ PC!Rows' = PC!Rows \ {op.victim}
      BY <1>1, <2>1, <2>2, RowWritten, CacheFacts
    <2>4. /\ op' \in Ops /\ op'.pc = "remove" /\ op'.pack = op.pack /\ op'.ev = op.ev /\ op'.victims = op.victims
          /\ op'.victim = op.victim /\ op'.moved = op.moved
      BY <1>1, <2>1 DEF Ops
    <2>5. PC!Rows' \ op'.victims = PC!Rows \ op.victims
      BY <2>2, <2>3, <2>4
    <2>6. Evicting'
      BY <2>1, <2>2, <2>3, <2>4, <2>5 DEF Evicting
    <2> QED  BY <2>1, <2>3, <2>4, <2>6 DEF PackInv, OpInv
  <1>5. CASE PC!DeleteFails
    <2>1. /\ op.pc = "delete" /\ Evicting /\ UNCHANGED <<rows, reading, misread>>
          /\ op' = PC!Free /\ settled' = FALSE
      BY <1>1, <1>5 DEF PC!DeleteFails, PC!At, OpInv
    <2>2. op.victim \in PC!Rows /\ (op.moved.whole => op.moved.text = op.victim) /\ op.moved \in DirSet
      BY <1>1, <2>1 DEF Evicting, Ops
    <2>3. op.victim \in Packs /\ rows[op.victim].ev \in Evidence
      BY <1>1, <2>2, RowFacts
    <2> DEFINE d == <<op.victim, rows[op.victim].ev>>
    <2>4. d \in PC!Directories /\ d[1] = op.victim
      BY <2>3, CacheFacts
    <2>5. dirs' = [dirs EXCEPT ![d] = op.moved] \/ UNCHANGED dirs
      BY <1>5 DEF PC!DeleteFails, PC!ContentKey
    <2> HIDE DEF d
    <2>6. PackData'
      <3>1. CASE UNCHANGED dirs
        BY <1>1, <2>1, <3>1 DEF PackData
      <3>2. CASE dirs' = [dirs EXCEPT ![d] = op.moved]
        BY <1>1, <2>1, <2>2, <2>4, <3>2, DirWritten
      <3> QED  BY <2>5, <3>1, <3>2
    <2> QED  BY <2>1, <2>6, Fails
  <1>6. CASE PC!RemoveTombstone
    <2>1. /\ op.pc = "remove" /\ Evicting /\ op.pack \in Packs /\ op.ev \in Evidence
          /\ UNCHANGED <<rows, dirs, reading, misread>>
          /\ op' = [op EXCEPT !.pc = "stage", !.victims = @ \ {op.victim}, !.victim = NoOne, !.moved = PC!NoDir]
      BY <1>1, <1>6 DEF PC!RemoveTombstone, PC!At, OpInv
    <2>2. /\ op' \in Ops /\ op'.pc = "stage" /\ op'.pack = op.pack /\ op'.ev = op.ev
          /\ op'.victims = op.victims \ {op.victim} /\ op'.moved = PC!NoDir
      BY <1>1, <2>1, CacheFacts DEF Ops
    <2>3. PackData' /\ PC!Rows' = PC!Rows
      BY <1>1, <2>1 DEF PackData, PC!Rows, PC!NoRow
    <2>4. op.victim \notin PC!Rows /\ op.pack \in PC!Rows \ op.victims /\ Cardinality(PC!Rows \ op.victims) <= Capacity
      BY <2>1 DEF Evicting
    <2>5. PC!Rows' \ op'.victims = PC!Rows \ op.victims
      BY <2>2, <2>3, <2>4
    <2>6. op'.victims \subseteq PC!Rows'
      BY <2>1, <2>2, <2>3 DEF Evicting
    <2>7. Evicting'
      BY <2>2, <2>3, <2>4, <2>5, <2>6 DEF Evicting
    <2> QED  BY <2>1, <2>2, <2>3, <2>7, CacheFacts DEF PackInv, OpInv
  <1>7. CASE PC!Sweep
    <2>1. /\ op.pc = "stage" /\ Evicting /\ op.victims = {} /\ UNCHANGED <<rows, reading, misread>>
          /\ dirs' = PC!Swept /\ op' = PC!Free /\ tombs' = {}
      BY <1>1, <1>7 DEF PC!Sweep, PC!At, OpInv
    <2>2. ~staged'
      BY <1>7 DEF PC!Sweep
    <2>3. PC!Rows' = PC!Rows
      BY <2>1 DEF PC!Rows, PC!NoRow
    <2>4. \A d \in PC!Directories :
             dirs'[d] = IF \E p \in PC!Rows : d = PC!ContentKey(p, rows[p].ev) THEN dirs[d] ELSE PC!NoDir
      BY <2>1 DEF PC!Swept
    <2>5. dirs' \in [PC!Directories -> DirSet]
      BY <1>1, <2>1, CacheFacts DEF PC!Swept, PackData
    <2>6. \A d \in PC!Directories : dirs'[d].whole => dirs'[d].text = d[1]
      BY <1>1, <2>4, CacheFacts DEF PackData
    <2>7. PackData'
      BY <1>1, <2>1, <2>5, <2>6 DEF PackData
    <2>8. Cardinality(PC!Rows) <= Capacity
      <3>1. PC!Rows \ op.victims = PC!Rows
        BY <2>1
      <3> QED  BY <2>1, <3>1 DEF Evicting
    <2>9. \A d \in PC!Directories : dirs'[d] # PC!NoDir => \E p \in PC!Rows : d = PC!ContentKey(p, rows[p].ev)
      BY <2>4
    <2>10. AtRest'
      BY <2>1, <2>2, <2>3, <2>8, <2>9 DEF AtRest, PC!NoDir, PC!ContentKey
    <2>11. OpInv'
      BY <2>1, CacheFacts DEF OpInv
    <2> QED  BY <2>7, <2>10, <2>11 DEF PackInv
  <1> QED  BY <1>2, <1>3, <1>4, <1>5, <1>6, <1>7

LEMMA LookupInv ==
    ASSUME PackInv,
           \/ \E s \in Searches : PC!Read(s) \/ \E p \in Packs : PC!Find(s, p) \/ PC!Invalidate(s, p)
           \/ PC!RemoveInvalid
    PROVE  PackInv'
  <1>1. PackData /\ OpInv /\ op \in Ops
    BY DEF PackInv, OpInv
  <1>2. ASSUME UNCHANGED <<rows, dirs, tombs, staged, op, settled>>, PackData',
               op.pc = "free" \/ UNCHANGED used
        PROVE  PackInv'
    <2>1. PC!Rows' = PC!Rows
      BY <1>2 DEF PC!Rows, PC!NoRow
    <2>2. Evicting' <=> Evicting
      BY <1>2, <2>1 DEF Evicting
    <2>3. AtRest' <=> AtRest
      BY <1>2, <2>1 DEF AtRest, PC!NoDir, PC!ContentKey
    <2>4. op.pc = "list" => (PutLast' <=> PutLast)
      BY <1>2, <2>1 DEF PutLast
    <2>5. OpInv'
      BY <1>1, <1>2, <2>2, <2>4 DEF OpInv
    <2>6. settled' /\ op'.pc = "free" => AtRest'
      BY <1>2, <2>3 DEF PackInv
    <2> QED  BY <1>2, <2>5, <2>6 DEF PackInv
  <1>3. ASSUME NEW s \in Searches, PC!Read(s) PROVE PackInv'
    <2>1. /\ reading[s] # PC!Nothing /\ reading' = [reading EXCEPT ![s] = PC!Nothing]
          /\ UNCHANGED <<rows, used, dirs, tombs, staged, op, settled>>
      BY <1>3 DEF PC!Read
    <2>2. reading[s] \in Reads
      BY <1>1 DEF PackData
    <2>3. PICK p \in Packs, e \in Evidence : reading[s] = [pack |-> p, dir |-> <<p, e>>]
      BY <2>1, <2>2 DEF Reads
    <2>4. reading[s].pack = p /\ reading[s].dir = <<p, e>> /\ <<p, e>> \in PC!Directories
      BY <2>3, CacheFacts
    <2>5. dirs[reading[s].dir].whole => dirs[reading[s].dir].text = reading[s].pack
      BY <1>1, <2>4 DEF PackData
    <2>6. misread' <=> (misread \/ (dirs[reading[s].dir].whole /\ dirs[reading[s].dir].text # reading[s].pack))
      BY <1>3, Zenon DEF PC!Read
    <2>7. ~misread'
      BY <1>1, <2>5, <2>6 DEF PackData
    <2>8. reading' \in [Searches -> Reads]
      BY <1>1, <2>1, CacheFacts DEF PackData
    <2>9. PackData'
      BY <1>1, <2>1, <2>7, <2>8 DEF PackData
    <2> QED  BY <1>2, <2>1, <2>9
  <1>4. ASSUME NEW s \in Searches, NEW p \in Packs, PC!Find(s, p) PROVE PackInv'
    <2>1. /\ op = PC!Free /\ p \in PC!Rows
          /\ reading' = [reading EXCEPT ![s] = [pack |-> p, dir |-> <<p, rows[p].ev>>]]
          /\ UNCHANGED <<rows, dirs, tombs, staged, op, misread, settled>>
      BY <1>4 DEF PC!Find, PC!ContentKey
    <2>2. rows[p].ev \in Evidence
      BY <1>1, <2>1, RowFacts
    <2>3. PICK x \in Reads : x = [pack |-> p, dir |-> <<p, rows[p].ev>>]
      <3>1. PICK e \in Evidence : e = rows[p].ev
        BY <2>2
      <3>2. [pack |-> p, dir |-> <<p, e>>] \in {[pack |-> r, dir |-> <<r, f>>] : r \in Packs, f \in Evidence}
        <4> DEFINE R(r, f) == [pack |-> r, dir |-> <<r, f>>]
        <4> HIDE DEF R
        <4>1. R(p, e) \in {R(r, f) : r \in Packs, f \in Evidence}
          OBVIOUS
        <4> QED  BY <4>1 DEF R
      <3> QED  BY <3>1, <3>2 DEF Reads
    <2>4. reading' \in [Searches -> Reads]
      BY <1>1, <2>1, <2>3 DEF PackData
    <2>5. PackData'
      BY <1>1, <2>1, <2>4 DEF PackData
    <2> QED  BY <1>2, <2>1, <2>5, CacheFacts
  <1>5. ASSUME NEW s \in Searches, NEW p \in Packs, PC!Invalidate(s, p) PROVE PackInv'
    <2>1. /\ p \in PC!Rows /\ rows' = [rows EXCEPT ![p] = PC!NoRow] /\ settled' = FALSE
          /\ op' = [PC!Free EXCEPT !.pc = "invalid", !.pack = p, !.ev = rows[p].ev]
          /\ UNCHANGED <<dirs, reading, misread>>
      BY <1>5 DEF PC!Invalidate
    <2>2. rows[p].ev \in Evidence
      BY <1>1, <2>1, RowFacts
    <2>3. /\ op' \in Ops /\ op'.pc = "invalid" /\ op'.pack = p /\ op'.ev = rows[p].ev
          /\ op'.moved = PC!Free.moved
      BY <2>1, <2>2, CacheFacts DEF Ops
    <2>4. PackData'
      BY <1>1, <2>1, RowWritten, CacheFacts
    <2>5. ~settled'
      BY <2>1
    <2> QED  BY <2>2, <2>3, <2>4, <2>5, CacheFacts DEF PackInv, OpInv
  <1>6. CASE PC!RemoveInvalid
    <2>1. /\ op.pc = "invalid" /\ op.pack \in Packs /\ op.ev \in Evidence /\ ~settled /\ op' = PC!Free
          /\ dirs' = [dirs EXCEPT ![<<op.pack, op.ev>>] = PC!NoDir]
          /\ UNCHANGED <<rows, reading, misread, settled>>
      BY <1>1, <1>6 DEF PC!RemoveInvalid, PC!At, PC!ContentKey, OpInv
    <2>2. PackData'
      BY <1>1, <2>1, DirWritten, CacheFacts
    <2> QED  BY <2>1, <2>2, Fails
  <1> QED  BY <1>3, <1>4, <1>5, <1>6

LEMMA WorldInv ==
    ASSUME PackInv,
           PC!Crash \/ (\E p \in Packs : PC!Expires(p)) \/ (\E d \in PC!Directories : PC!Damage(d))
    PROVE  PackInv'
  <1>1. PackData /\ OpInv /\ op \in Ops
    BY DEF PackInv, OpInv
  <1>2. ASSUME NEW d \in PC!Directories PROVE dirs[d] \in DirSet
    BY <1>1 DEF PackData
  <1>3. ASSUME NEW d \in PC!Directories, dirs' = [dirs EXCEPT ![d].whole = FALSE],
               rows' = rows, misread' = misread, reading' \in [Searches -> Reads]
        PROVE  PackData'
    <2>1. PICK x : x = [dirs[d] EXCEPT !.whole = FALSE]
      OBVIOUS
    <2>2. dirs[d] \in DirSet
      BY <1>2
    <2>3. x \in DirSet
      BY <2>1, <2>2 DEF DirSet
    <2>4. ~x.whole
      BY <2>1, <2>2 DEF DirSet
    <2>5. dirs' = [dirs EXCEPT ![d] = x] /\ dirs \in [PC!Directories -> DirSet]
      BY <1>1, <1>3, <2>1 DEF PackData
    <2>6. /\ dirs' \in [PC!Directories -> DirSet]
          /\ \A e \in PC!Directories : dirs'[e] = IF e = d THEN x ELSE dirs[e]
      BY <2>3, <2>5
    <2>7. \A e \in PC!Directories : dirs'[e].whole => dirs'[e].text = e[1]
      BY <1>1, <2>4, <2>6 DEF PackData
    <2> QED  BY <1>1, <1>3, <2>6, <2>7 DEF PackData
  <1>4. ASSUME NEW p \in Packs, PC!Expires(p) PROVE PackInv'
    <2>1. /\ op = PC!Free /\ p \in PC!Rows /\ rows' = [rows EXCEPT ![p].expired = TRUE] /\ settled' = FALSE
          /\ UNCHANGED <<dirs, op, reading, misread>>
      BY <1>4 DEF PC!Expires
    <2>2. rows[p] \in [ev : Evidence, expired : BOOLEAN]
      BY <1>1, <2>1, RowFacts
    <2>3. PICK x : x = [rows[p] EXCEPT !.expired = TRUE]
      OBVIOUS
    <2>4. x \in RowSet
      BY <2>2, <2>3 DEF RowSet
    <2>5. rows' = [rows EXCEPT ![p] = x]
      BY <1>1, <2>1, <2>3 DEF PackData
    <2>6. PackData'
      BY <1>1, <2>1, <2>4, <2>5, RowWritten
    <2> QED  BY <2>1, <2>6, Fails
  <1>5. ASSUME NEW d \in PC!Directories, PC!Damage(d) PROVE PackInv'
    <2>1. /\ dirs' = [dirs EXCEPT ![d].whole = FALSE] /\ settled' = FALSE
          /\ UNCHANGED <<rows, used, tombs, staged, op, reading, misread>>
      BY <1>5 DEF PC!Damage
    <2>2. PackData'
      BY <1>1, <1>3, <2>1 DEF PackData
    <2>3. PC!Rows' = PC!Rows
      BY <2>1 DEF PC!Rows, PC!NoRow
    <2>4. (Evicting' <=> Evicting) /\ (PutLast' <=> PutLast)
      BY <2>1, <2>3 DEF Evicting, PutLast
    <2>5. ~settled'
      BY <2>1
    <2>6. OpInv'
      BY <1>1, <2>1, <2>4, <2>5 DEF OpInv
    <2> QED  BY <2>2, <2>5, <2>6 DEF PackInv
  <1>6. CASE PC!Crash
    <2>1. /\ op' = PC!Free /\ settled' = FALSE /\ reading' = [s \in Searches |-> PC!Nothing]
          /\ rows' = rows /\ misread' = misread
          /\ \/ UNCHANGED dirs
             \/ op.pc = "invalid" /\ dirs' = [dirs EXCEPT ![<<op.pack, op.ev>>].whole = FALSE]
      BY <1>6 DEF PC!Crash, PC!At, PC!ContentKey
    <2>2. reading' \in [Searches -> Reads]
      BY <2>1, CacheFacts
    <2>3. PackData'
      <3>1. CASE UNCHANGED dirs
        BY <1>1, <2>1, <2>2, <3>1 DEF PackData
      <3>2. CASE op.pc = "invalid" /\ dirs' = [dirs EXCEPT ![<<op.pack, op.ev>>].whole = FALSE]
        <4>1. <<op.pack, op.ev>> \in PC!Directories
          BY <1>1, <3>2, CacheFacts DEF OpInv
        <4> QED  BY <1>3, <2>1, <2>2, <3>2, <4>1
      <3> QED  BY <2>1, <3>1, <3>2
    <2> QED  BY <2>1, <2>3, Fails
  <1> QED  BY <1>4, <1>5, <1>6

LEMMA PackKept == PackInv /\ [Next]_vars => PackInv'
  <1> SUFFICES ASSUME PackInv, [Next]_vars PROVE PackInv'
    OBVIOUS
  <1>1. CASE UNCHANGED packVars
    <2>1. PC!Rows' = PC!Rows
      BY <1>1 DEF PC!Rows, PC!NoRow, packVars
    <2>2. /\ PackData' <=> PackData
          /\ Evicting' <=> Evicting
          /\ PutLast' <=> PutLast
          /\ AtRest' <=> AtRest
      BY <1>1, <2>1 DEF PackData, Evicting, PutLast, AtRest, packVars, PC!NoDir, PC!ContentKey
    <2>3. op' = op /\ (settled' <=> settled)
      BY <1>1 DEF packVars
    <2>4. OpInv' <=> OpInv
      BY <2>2, <2>3 DEF OpInv
    <2> QED  BY <2>2, <2>3, <2>4 DEF PackInv
  <1>2. CASE PC!Next
    BY <1>2, PutStepInv, EvictInv, LookupInv, WorldInv DEF PC!Next
  <1>3. PC!Next \/ UNCHANGED packVars
    BY DEF Next, vars, packVars
  <1> QED  BY <1>1, <1>2, <1>3

\* For any number of packs, searches, crashes and damaged files: no search
\* takes another pack's text for the one it found, a Put keeps what it stored
\* while it evicts, and once one has completed the disk agrees with the rows
\* and is within the limit (cacheContentKey, ListPacksForEviction, evictLocked).
THEOREM CacheStaysSound == Spec => []CacheSound
  <1>1. PackInv => CacheSound
    <2> SUFFICES ASSUME PackInv PROVE CacheSound
      OBVIOUS
    <2>1. PC!TextAsFound
      BY DEF PackInv, PackData, PC!TextAsFound
    <2>2. PC!PutKeeps
      BY DEF PackInv, OpInv, Evicting, PC!PutKeeps, PC!At
    <2>3. PC!DiskSettled
      <3>1. PC!Cardinality(PC!Rows) = Cardinality(PC!Rows)
        BY SameCardinality
      <3>2. settled /\ op = PC!Free => AtRest
        BY CacheFacts DEF PackInv
      <3> QED  BY <3>1, <3>2 DEF PC!DiskSettled, AtRest
    <2> QED  BY <2>1, <2>2, <2>3 DEF CacheSound, PC!CacheSound
  <1> QED  BY <1>1, PackInit, PackKept, PTL DEF Spec

-----------------------------------------------------------------------------
(* The schedules.                                                           *)

Installations == [base : SD!BaseIntervals, fallback : BOOLEAN, recent : BOOLEAN]

SchedType ==
    /\ prio \in {"missing", "upgrade"} /\ next \in Nat \cup {-1} /\ age \in Nat \cup {-1}
    /\ attempt \in Nat /\ failures \in Nat /\ misses \in Nat /\ waited \in Nat /\ checks \in Nat
    /\ installed \in Installations \cup {SD!Nothing}

\* While a release is young the attempt counts the searches without result,
\* and between upgrade checks it never runs ahead of them.
Counted ==
    /\ misses = 0 => waited = 0
    /\ prio = "missing" /\ ~SD!Aged(age) => attempt = misses
    /\ installed # SD!Nothing => misses = 0
    /\ prio = "upgrade" => attempt <= checks

SchedInv == SchedType /\ Counted /\ SD!OnTime

\* missingIntervals, in minutes.
LEMMA Intervals ==
    ASSUME NEW n \in Nat \ {0}, NEW d, d = SD!DelayAt(n, SD!MissingIntervals)
    PROVE  /\ n = 1 => d = 360
           /\ n = 2 => d = 360
           /\ n = 3 => d = 720
           /\ n = 4 => d = 2880
           /\ n = 5 => d = 5760
           /\ n = 6 => d = 10080
           /\ n >= 7 => d = 20160
  <1>1. SD!Hour = 60
    BY DEF SD!Hour
  <1>2. SD!MissingIntervals = <<0, 360, 360, 720, 2880, 5760, 10080, 20160>>
    BY <1>1 DEF SD!MissingIntervals
  <1>3. d = <<0, 360, 360, 720, 2880, 5760, 10080, 20160>>[SD!Smaller(n, 7) + 1]
    BY <1>2 DEF SD!DelayAt
  <1>4. SD!Smaller(n, 7) = IF n < 7 THEN n ELSE 7
    BY DEF SD!Smaller
  <1> QED  BY <1>3, <1>4

\* Jitter only delays, by at most a fifth.
LEMMA Jittered ==
    ASSUME NEW n \in Nat \ {0}, NEW unit \in SD!Units, NEW d, d = SD!DelayAt(n, SD!MissingIntervals),
           NEW x, x = SD!MissingDelay(n, unit)
    PROVE  d \in Nat /\ x \in Nat /\ d >= 360 /\ x >= d /\ 5 * x <= 6 * d
  <1>1. d \in {360, 720, 2880, 5760, 10080, 20160}
    <2>1. n = 1 \/ n = 2 \/ n = 3 \/ n = 4 \/ n = 5 \/ n = 6 \/ n >= 7
      OBVIOUS
    <2> QED  BY <2>1, Intervals
  <1>2. x = d + (unit * d) \div 5
    BY DEF SD!MissingDelay
  <1>3. unit = 0 \/ unit = 1
    BY DEF SD!Units
  <1>4. CASE unit = 0
    BY <1>1, <1>2, <1>4
  <1>5. CASE unit = 1
    BY <1>1, <1>2, <1>5
  <1> QED  BY <1>3, <1>4, <1>5

\* workflowFailureDelay.
LEMMA FailureDelays ==
    ASSUME NEW n \in Nat
    PROVE  SD!WorkflowFailureDelay(n) \in Nat \ {0}
  <1>1. SD!Hour = 60
    BY DEF SD!Hour
  <1>2. SD!WorkflowFailureDelay(n) = <<1, 5, 15, 60, 360, 1440>>[SD!Smaller(n, 5) + 1]
    BY <1>1 DEF SD!WorkflowFailureDelay, SD!DelayAt
  <1>3. SD!Smaller(n, 5) + 1 \in 1 .. 6
    BY DEF SD!Smaller
  <1> QED  BY <1>2, <1>3

LEMMA Throttles ==
    ASSUME NEW r \in Int, NEW unit \in SD!Units, NEW x, x = SD!ThrottleRetryAt(r, unit)
    PROVE  x \in Nat /\ x >= 1 /\ x >= r
  <1>1. SD!Hour = 60 /\ (unit = 0 \/ unit = 1)
    BY DEF SD!Hour, SD!Units
  <1>2. CASE unit = 0
    BY <1>1, <1>2 DEF SD!ThrottleRetryAt
  <1>3. CASE unit = 1
    BY <1>1, <1>3 DEF SD!ThrottleRetryAt
  <1> QED  BY <1>1, <1>2, <1>3

\* An interval lengthened for unchanged checks is the base or one of the steps.
LEMMA LengthenedTo ==
    ASSUME NEW b \in Nat, NEW n \in Nat
    PROVE  SD!Lengthened(b, n) \in {b, 20160, 43200, 86400, 129600}
  <1> DEFINE steps == <<14 * SD!Day, 30 * SD!Day, 60 * SD!Day, 90 * SD!Day>>
             passed == Cardinality({j \in 1 .. 4 : steps[j] <= b})
  <1>1. SD!Day = 1440
    BY DEF SD!Day, SD!Hour
  <1>2. passed \in Nat
    <2>1. IsFiniteSet({j \in 1 .. 4 : steps[j] <= b})
      <3> DEFINE S == {j \in 1 .. 4 : steps[j] <= b}
      <3>1. S \subseteq 1 .. 4
        OBVIOUS
      <3>2. IsFiniteSet(1 .. 4)
        BY 1 \in Int, 4 \in Int, FS_Interval
      <3> HIDE DEF S
      <3>3. IsFiniteSet(S)
        BY <3>1, <3>2, FS_Subset
      <3> QED  BY <3>3 DEF S
    <2> QED  BY <2>1, FS_CardinalityType
  <1>3. SD!Lengthened(b, n) = IF n = 0 \/ steps[4] <= b THEN b ELSE steps[SD!Smaller(passed + n, 4)]
    BY SameCardinality DEF SD!Lengthened
  <1>4. CASE n = 0
    BY <1>3, <1>4
  <1>5. CASE n # 0
    <2> HIDE DEF passed
    <2>1. SD!Smaller(passed + n, 4) \in 1 .. 4
      BY <1>2, <1>5 DEF SD!Smaller
    <2>2. \A k \in 1 .. 4 : steps[k] \in {20160, 43200, 86400, 129600}
      BY <1>1
    <2> HIDE DEF steps
    <2> QED  BY <1>3, <2>1, <2>2
  <1> QED  BY <1>4, <1>5

\* What NextCheck may return.
LEMMA CheckTimes ==
    ASSUME NEW i \in Installations, NEW n \in Nat, NEW r \in Int, NEW a, NEW unit \in SD!Units,
           NEW x, x = SD!NextCheck(i, n, r, a, unit)
    PROVE  /\ x \in Nat \cup {-1}
           /\ x = -1 => i.base = 0 \/ (~i.fallback /\ MaxUpgradeChecks > 0 /\ n >= MaxUpgradeChecks)
           /\ r <= 0 /\ x # -1 => x >= 360
           /\ i.base # 0 /\ r > 0 /\ r < i.base => x # -1 /\ x <= r
  <1>1. SD!Day = 1440
    BY DEF SD!Day, SD!Hour
  <1>2. i.base \in {0, 10080, 43200, 129600}
    BY <1>1 DEF Installations, SD!BaseIntervals
  <1>3. PICK early : early = SD!MissingDelay(n + 1, unit)
    OBVIOUS
  <1>4. early \in Nat /\ early >= 360
    <2>1. n + 1 \in Nat \ {0}
      OBVIOUS
    <2>2. PICK d : d = SD!DelayAt(n + 1, SD!MissingIntervals)
      OBVIOUS
    <2>3. d \in Nat /\ early \in Nat /\ d >= 360 /\ early >= d
      BY <1>3, <2>1, <2>2, Jittered
    <2> QED  BY <2>3
  <1>5. PICK m : m = IF i.fallback /\ i.recent THEN SD!Larger(0, n - SD!RecentFallbackChecks) ELSE n
    OBVIOUS
  <1>6. m \in Nat /\ (~i.fallback => m = n)
    BY <1>5 DEF SD!Larger, SD!RecentFallbackChecks
  <1>7. PICK b : b = SD!Lengthened(i.base, m)
    OBVIOUS
  <1>8. b \in {i.base, 20160, 43200, 86400, 129600}
    <2>1. i.base \in Nat
      BY <1>2
    <2> QED  BY <1>6, <1>7, <2>1, LengthenedTo
  <1>9. PICK y : y = b + ((2 * unit - 1) * b) \div 10
    OBVIOUS
  <1>10. i.base # 0 => y \in Nat /\ y >= 360
    <2>1. CASE unit = 0
      BY <1>2, <1>8, <1>9, <2>1
    <2>2. CASE unit = 1
      BY <1>2, <1>8, <1>9, <2>2
    <2> QED  BY <2>1, <2>2 DEF SD!Units
  <1>11. x = IF i.base = 0 THEN SD!Never
             ELSE IF i.fallback /\ SD!Recent(a) /\ n < SD!RecentFallbackChecks
               THEN IF r > 0 /\ r < i.base THEN SD!Smaller(early, r) ELSE early
             ELSE IF r > 0 /\ r < i.base THEN r
             ELSE IF SD!ChecksEnd(i, m) THEN SD!Never
             ELSE y
    BY <1>3, <1>5, <1>7, <1>9 DEF SD!NextCheck
  <1>12. SD!ChecksEnd(i, m) => ~i.fallback /\ MaxUpgradeChecks > 0 /\ n >= MaxUpgradeChecks
    BY <1>6 DEF SD!ChecksEnd
  <1>13. SD!Never = -1
    BY DEF SD!Never
  <1>14. CASE i.base = 0
    BY <1>11, <1>13, <1>14
  <1>15. CASE i.base # 0 /\ r > 0 /\ r < i.base
    BY <1>2, <1>4, <1>11, <1>15 DEF SD!Smaller
  <1>16. CASE i.base # 0 /\ ~(r > 0 /\ r < i.base)
    BY <1>4, <1>10, <1>11, <1>12, <1>13, <1>16
  <1> QED  BY <1>14, <1>15, <1>16

\* Milestones, of m searches without result and w minutes scheduled.
Met(m, w) ==
    LET at == <<6 * SD!Hour, 12 * SD!Hour, 24 * SD!Hour, 3 * SD!Day, 7 * SD!Day, 14 * SD!Day, 28 * SD!Day, 42 * SD!Day>>
    IN  m \in DOMAIN at => at[m] <= w /\ 5 * w <= 6 * at[m]

LEMMA MetInMinutes ==
    ASSUME NEW m \in Nat, NEW w \in Nat
    PROVE  Met(m, w) <=>
             /\ m = 1 => 360 <= w /\ 5 * w <= 6 * 360
             /\ m = 2 => 720 <= w /\ 5 * w <= 6 * 720
             /\ m = 3 => 1440 <= w /\ 5 * w <= 6 * 1440
             /\ m = 4 => 4320 <= w /\ 5 * w <= 6 * 4320
             /\ m = 5 => 10080 <= w /\ 5 * w <= 6 * 10080
             /\ m = 6 => 20160 <= w /\ 5 * w <= 6 * 20160
             /\ m = 7 => 40320 <= w /\ 5 * w <= 6 * 40320
             /\ m = 8 => 60480 <= w /\ 5 * w <= 6 * 60480
  <1>1. SD!Hour = 60 /\ SD!Day = 1440
    BY DEF SD!Day, SD!Hour
  <1> DEFINE at == <<360, 720, 1440, 4320, 10080, 20160, 40320, 60480>>
  <1>2. Met(m, w) <=> (m \in DOMAIN at => at[m] <= w /\ 5 * w <= 6 * at[m])
    BY <1>1 DEF Met
  <1>3. DOMAIN at = 1 .. 8
    OBVIOUS
  <1>4. m = 1 \/ m = 2 \/ m = 3 \/ m = 4 \/ m = 5 \/ m = 6 \/ m = 7 \/ m = 8 \/ m \notin 1 .. 8
    OBVIOUS
  <1> QED  BY <1>2, <1>3, <1>4

\* One more search without result meets the next milestone.
LEMMA NextMilestone ==
    ASSUME NEW m \in Nat, NEW w \in Nat, Met(m, w), m = 0 => w = 0,
           NEW unit \in SD!Units, NEW x, x = SD!MissingDelay(m + 1, unit)
    PROVE  x \in Nat /\ w + x \in Nat /\ Met(m + 1, w + x)
  <1>1. PICK d : d = SD!DelayAt(m + 1, SD!MissingIntervals)
    OBVIOUS
  <1>2. m + 1 \in Nat \ {0}
    OBVIOUS
  <1>3. d \in Nat /\ x \in Nat /\ x >= d /\ 5 * x <= 6 * d
    BY <1>1, <1>2, Jittered
  <1>4. /\ m = 0 => d = 360
        /\ m = 1 => d = 360
        /\ m = 2 => d = 720
        /\ m = 3 => d = 2880
        /\ m = 4 => d = 5760
        /\ m = 5 => d = 10080
        /\ m = 6 => d = 20160
        /\ m = 7 => d = 20160
    <2>1. /\ m + 1 = 1 => d = 360
          /\ m + 1 = 2 => d = 360
          /\ m + 1 = 3 => d = 720
          /\ m + 1 = 4 => d = 2880
          /\ m + 1 = 5 => d = 5760
          /\ m + 1 = 6 => d = 10080
          /\ m + 1 >= 7 => d = 20160
      BY <1>1, <1>2, Intervals
    <2> QED  BY <2>1
  <1>5. /\ m = 1 => 360 <= w /\ 5 * w <= 6 * 360
        /\ m = 2 => 720 <= w /\ 5 * w <= 6 * 720
        /\ m = 3 => 1440 <= w /\ 5 * w <= 6 * 1440
        /\ m = 4 => 4320 <= w /\ 5 * w <= 6 * 4320
        /\ m = 5 => 10080 <= w /\ 5 * w <= 6 * 10080
        /\ m = 6 => 20160 <= w /\ 5 * w <= 6 * 20160
        /\ m = 7 => 40320 <= w /\ 5 * w <= 6 * 40320
    BY MetInMinutes
  <1>6. /\ m + 1 = 1 => 360 <= w + x /\ 5 * (w + x) <= 6 * 360
        /\ m + 1 = 2 => 720 <= w + x /\ 5 * (w + x) <= 6 * 720
        /\ m + 1 = 3 => 1440 <= w + x /\ 5 * (w + x) <= 6 * 1440
        /\ m + 1 = 4 => 4320 <= w + x /\ 5 * (w + x) <= 6 * 4320
        /\ m + 1 = 5 => 10080 <= w + x /\ 5 * (w + x) <= 6 * 10080
        /\ m + 1 = 6 => 20160 <= w + x /\ 5 * (w + x) <= 6 * 20160
        /\ m + 1 = 7 => 40320 <= w + x /\ 5 * (w + x) <= 6 * 40320
        /\ m + 1 = 8 => 60480 <= w + x /\ 5 * (w + x) <= 6 * 60480
    BY <1>3, <1>4, <1>5
  <1> QED  BY <1>3, <1>6, MetInMinutes

LEMMA NoMilestone == Met(0, 0)
  BY MetInMinutes

\* A release that is aged when a search is due stays so.
LEMMA DueAge ==
    ASSUME SchedType, NEW late \in Delays, SD!Due(late)
    PROVE  age' \in Nat \cup {-1} /\ (SD!Aged(age) => SD!Aged(age'))
  <1>1. next \in Nat /\ late \in Nat /\ AgedAfter \in Nat
    BY ScheduleAssumption DEF SchedType, SD!Due, SD!Never
  <1>2. age' = IF age = -1 THEN age
               ELSE IF age + next + late < (IF AgedAfter > 1 THEN AgedAfter ELSE 1) THEN age + next + late
               ELSE IF AgedAfter > 1 THEN AgedAfter ELSE 1
    BY DEF SD!Due, SD!AgeAfter, SD!Smaller, SD!Larger, SD!Unknown
  <1>3. age \in Nat \cup {-1}
    BY DEF SchedType
  <1> QED  BY <1>1, <1>2, <1>3 DEF SD!Aged, SD!Unknown

LEMMA SchedInit == Init => SchedInv
  <1> SUFFICES ASSUME Init PROVE SchedInv
    OBVIOUS
  <1>1. /\ prio = "missing" /\ attempt = 0 /\ failures = 0 /\ next = 0 /\ age \in Ages
        /\ installed = SD!Nothing /\ why = "new" /\ misses = 0 /\ waited = 0 /\ checks = 0
    BY DEF Init, SD!Init
  <1>2. SchedType /\ Counted
    BY <1>1, ScheduleAssumption DEF SchedType, Counted
  <1>3. SD!Milestones
    BY <1>1, NoMilestone DEF SD!Milestones, Met
  <1>4. SD!NotTooSoon /\ SD!ChecksGoOn /\ SD!RecoveryInTime
    BY <1>1 DEF SD!NotTooSoon, SD!ChecksGoOn, SD!RecoveryInTime, SD!Never
  <1> QED  BY <1>2, <1>3, <1>4 DEF SchedInv, SD!OnTime

\* A throttled or failed search leaves all but its time as it was.
LEMMA RetryInv ==
    ASSUME SchedInv, NEW late \in Delays,
           SD!Failed(late) \/ \E r \in Resets, unit \in SD!Units : SD!Throttled(late, r, unit)
    PROVE  SchedInv'
  <1>1. SchedType /\ Counted /\ SD!Milestones
    BY DEF SchedInv, SD!OnTime
  <1>2. /\ SD!Due(late) /\ UNCHANGED <<prio, attempt, installed, misses, waited, checks>>
        /\ why' \in {"failed", "throttled"}
    BY DEF SD!Failed, SD!Throttled
  <1>3. age' \in Nat \cup {-1} /\ (SD!Aged(age) => SD!Aged(age'))
    BY <1>1, <1>2, DueAge
  <1>4. next' \in Nat /\ failures' \in Nat /\ (why' = "throttled" => next' >= 1 /\ next' >= reset')
    <2>1. CASE SD!Failed(late)
      <3>1. next' = SD!WorkflowFailureDelay(failures) /\ failures' = failures + 1 /\ why' = "failed" /\ failures \in Nat
        BY <1>1, <2>1 DEF SD!Failed, SchedType
      <3> QED  BY <3>1, FailureDelays
    <2>2. ASSUME NEW r \in Resets, NEW unit \in SD!Units, SD!Throttled(late, r, unit)
          PROVE  next' \in Nat /\ failures' \in Nat /\ next' >= 1 /\ next' >= reset'
      <3>1. next' = SD!ThrottleRetryAt(r, unit) /\ reset' = r /\ failures' = failures /\ r \in Int
        BY <2>2, ScheduleAssumption DEF SD!Throttled
      <3>2. failures \in Nat
        BY <1>1 DEF SchedType
      <3> QED  BY <3>1, <3>2, Throttles
    <2> QED  BY <2>1, <2>2
  <1>5. SchedType'
    BY <1>1, <1>2, <1>3, <1>4 DEF SchedType, Installations, SD!Nothing, SD!BaseIntervals, SD!Day, SD!Hour
  <1>6. Counted'
    BY <1>1, <1>2, <1>3 DEF Counted, SD!Nothing, SD!Aged, SD!Unknown
  <1>7. SD!Milestones'
    <2>1. Met(misses', waited')
      BY <1>1, <1>2 DEF SD!Milestones, Met
    <2> QED  BY <2>1 DEF SD!Milestones, Met, SD!Hour, SD!Day
  <1>8. SD!NotTooSoon' /\ SD!ChecksGoOn' /\ SD!RecoveryInTime'
    BY <1>2, <1>4 DEF SD!NotTooSoon, SD!ChecksGoOn, SD!RecoveryInTime, SD!Never
  <1> QED  BY <1>5, <1>6, <1>7, <1>8 DEF SchedInv, SD!OnTime

LEMMA MissedInv ==
    ASSUME SchedInv, NEW late \in Delays, NEW unit \in SD!Units, SD!Missed(late, unit)
    PROVE  SchedInv'
  <1>1. SchedType /\ Counted /\ SD!Milestones
    BY DEF SchedInv, SD!OnTime
  <1>2. /\ SD!Due(late) /\ prio' = "missing" /\ failures' = 0 /\ installed' = SD!Nothing
        /\ why' = "missing" /\ checks' = 0
    BY DEF SD!Missed
  <1>3. age' \in Nat \cup {-1} /\ (SD!Aged(age) => SD!Aged(age'))
    BY <1>1, <1>2, DueAge
  <1>4. PICK k : k = SD!MissingAttempt
    OBVIOUS
  <1>5. k \in Nat \ {0} /\ (prio = "upgrade" => k = 1) /\ (prio # "upgrade" => k = attempt + 1)
    BY <1>1, <1>4 DEF SD!MissingAttempt, SchedType
  <1>6. PICK n \in Nat \ {0} : next' = SD!MissingDelay(n, unit) /\ (~SD!Aged(age') => n = k)
    <2>1. PICK n : n = IF SD!Aged(age') THEN SD!Larger(k, SD!AgedMissingAttempt) ELSE k
      OBVIOUS
    <2>2. next' = SD!MissingDelay(n, unit)
      BY <1>4, <2>1 DEF SD!Missed
    <2>3. n \in Nat \ {0} /\ (~SD!Aged(age') => n = k)
      BY <1>5, <2>1 DEF SD!Larger, SD!AgedMissingAttempt
    <2> QED  BY <2>2, <2>3
  <1>7. next' \in Nat /\ next' >= 360
    <2>1. PICK d : d = SD!DelayAt(n, SD!MissingIntervals)
      OBVIOUS
    <2>2. d \in Nat /\ next' \in Nat /\ d >= 360 /\ next' >= d
      BY <1>6, <2>1, Jittered
    <2> QED  BY <2>2
  <1>8. attempt' \in Nat /\ (~SD!Aged(age') => attempt' = k)
    <2>1. attempt' = SD!Larger(k, IF SD!Aged(age') /\ k < SD!AgedMissingAttempt THEN SD!AgedMissingAttempt ELSE 0)
      BY <1>4 DEF SD!Missed, SD!MissingAttempt
    <2> QED  BY <1>5, <2>1 DEF SD!Larger, SD!AgedMissingAttempt
  <1>9. /\ misses' \in Nat /\ waited' \in Nat /\ Met(misses', waited') /\ (misses' = 0 => waited' = 0)
        /\ ~SD!Aged(age') => misses' = k
    <2>1. CASE SD!Aged(age')
      <3>1. misses' = 0 /\ waited' = 0
        BY <2>1 DEF SD!Missed
      <3> QED  BY <2>1, <3>1, NoMilestone
    <2>2. CASE ~SD!Aged(age')
      <3>1. PICK m, w : /\ m = (IF prio = "upgrade" THEN 0 ELSE misses)
                        /\ w = (IF prio = "upgrade" THEN 0 ELSE waited)
        OBVIOUS
      <3>2. misses' = m + 1 /\ waited' = w + next'
        BY <2>2, <3>1 DEF SD!Missed
      <3>3. m \in Nat /\ w \in Nat /\ (m = 0 => w = 0)
        BY <1>1, <3>1 DEF SchedType, Counted
      <3>4. k = m + 1
        BY <1>1, <1>3, <1>5, <2>2, <3>1 DEF SchedType, Counted
      <3>5. Met(m, w)
        <4>1. CASE prio = "upgrade"
          BY <3>1, <4>1, NoMilestone
        <4>2. CASE prio # "upgrade"
          BY <1>1, <3>1, <4>2 DEF SD!Milestones, Met
        <4> QED  BY <4>1, <4>2
      <3>6. next' = SD!MissingDelay(m + 1, unit)
        BY <1>6, <2>2, <3>4
      <3>7. next' \in Nat /\ w + next' \in Nat /\ Met(m + 1, w + next')
        BY <3>3, <3>5, <3>6, NextMilestone
      <3>8. Met(misses', waited')
        BY <3>2, <3>7
      <3>9. misses' \in Nat /\ waited' \in Nat /\ misses' # 0 /\ misses' = k
        <4>1. misses' = k /\ k \in Nat \ {0}
          BY <1>5, <3>2, <3>4
        <4>2. waited' \in Nat
          BY <3>2, <3>7
        <4> QED  BY <4>1, <4>2
      <3> QED  BY <3>8, <3>9
    <2> QED  BY <2>1, <2>2
  <1>10. SchedType'
    BY <1>2, <1>3, <1>7, <1>8, <1>9 DEF SchedType, SD!Nothing
  <1>11. Counted'
    BY <1>2, <1>3, <1>8, <1>9 DEF Counted, SD!Nothing, SD!Aged, SD!Unknown
  <1>12. SD!Milestones'
    BY <1>9 DEF SD!Milestones, Met, SD!Hour, SD!Day
  <1>13. SD!NotTooSoon' /\ SD!ChecksGoOn' /\ SD!RecoveryInTime'
    BY <1>2, <1>7 DEF SD!NotTooSoon, SD!ChecksGoOn, SD!RecoveryInTime, SD!Never, SD!SearchCache, SD!Hour
  <1> QED  BY <1>10, <1>11, <1>12, <1>13 DEF SchedInv, SD!OnTime

LEMMA InstallsInv ==
    ASSUME SchedInv, NEW late \in Delays, NEW b \in SD!BaseIntervals, NEW fallback \in BOOLEAN,
           NEW r \in Resets, NEW unit \in SD!Units, SD!Installs(late, b, fallback, r, unit)
    PROVE  SchedInv'
  <1>1. SchedType
    BY DEF SchedInv
  <1>2. /\ SD!Due(late) /\ attempt' = 0 /\ failures' = 0 /\ checks' = 0 /\ misses' = 0 /\ waited' = 0
        /\ why' = (IF r > 0 THEN "recovery" ELSE "check") /\ reset' = r /\ (IF fallback THEN b = 7 * SD!Day ELSE r = 0)
        /\ prio' = IF next' = SD!Never THEN prio ELSE "upgrade"
    BY DEF SD!Installs
  <1>3. age' \in Nat \cup {-1}
    BY <1>1, <1>2, DueAge
  <1>4. SD!Day = 1440 /\ SD!Hour = 60 /\ SD!Never = -1 /\ r \in Int
    BY ScheduleAssumption DEF SD!Day, SD!Hour, SD!Never
  <1>5. PICK recent \in BOOLEAN : recent = SD!Recent(age')
    <2>1. SD!Recent(age') \in BOOLEAN
      BY DEF SD!Recent
    <2> QED  BY <2>1
  <1>6. PICK i : i = [base |-> b, fallback |-> fallback, recent |-> recent]
    OBVIOUS
  <1>8. i \in Installations
    BY <1>6 DEF Installations
  <1>9. fallback => i.base = 10080
    BY <1>2, <1>4, <1>6
  <1>10. installed' = i /\ next' = SD!NextCheck(i, 0, r, age', unit)
    BY <1>5, <1>6 DEF SD!Installs
  <1>11. i # SD!Nothing
    BY <1>4, <1>8 DEF Installations, SD!BaseIntervals, SD!Nothing
  <1>12. /\ next' \in Nat \cup {-1}
         /\ next' = -1 => i.base = 0 \/ (~i.fallback /\ MaxUpgradeChecks > 0 /\ 0 >= MaxUpgradeChecks)
         /\ r <= 0 /\ next' # -1 => next' >= 360
         /\ i.base # 0 /\ r > 0 /\ r < i.base => next' # -1 /\ next' <= r
    BY <1>4, <1>8, <1>10, CheckTimes
  <1>13. SchedType'
    <2>1. prio' \in {"missing", "upgrade"}
      BY <1>1, <1>2 DEF SchedType
    <2>2. installed' \in Installations
      BY <1>8, <1>10
    <2> QED  BY <1>2, <1>3, <1>12, <2>1, <2>2 DEF SchedType, Installations, SD!BaseIntervals, SD!Day, SD!Hour
  <1>14. Counted'
    BY <1>2 DEF Counted
  <1>15. SD!Milestones'
    <2>1. Met(misses', waited')
      BY <1>2, NoMilestone
    <2> QED  BY <2>1 DEF SD!Milestones, Met, SD!Hour, SD!Day
  <1>16. SD!NotTooSoon'
    BY <1>2, <1>4, <1>12 DEF SD!NotTooSoon, SD!Never, SD!SearchCache, SD!Hour
  <1>17. SD!ChecksGoOn'
    <2>1. MaxUpgradeChecks \in Nat
      BY ScheduleAssumption
    <2>2. next' = -1 => installed' # SD!Nothing /\ installed'.base = 0
      BY <1>10, <1>11, <1>12, <2>1
    <2> QED  BY <2>2 DEF SD!ChecksGoOn, SD!Never, SD!Nothing
  <1>18. SD!RecoveryInTime'
    BY <1>2, <1>4, <1>9, <1>12 DEF SD!RecoveryInTime, SD!Never, SD!Day, SD!Hour
  <1> QED  BY <1>13, <1>14, <1>15, <1>16, <1>17, <1>18 DEF SchedInv, SD!OnTime

LEMMA UnchangedInv ==
    ASSUME SchedInv, NEW late \in Delays, NEW unit \in SD!Units, SD!Unchanged(late, unit)
    PROVE  SchedInv'
  <1>1. SchedType /\ Counted /\ SD!Milestones
    BY DEF SchedInv, SD!OnTime
  <1>2. /\ SD!Due(late) /\ installed # SD!Nothing /\ failures' = 0 /\ why' = "check" /\ reset' = 0
        /\ UNCHANGED <<installed, misses, waited>>
        /\ prio' = IF next' = SD!Never THEN prio ELSE "upgrade"
        /\ attempt' = IF prio = "upgrade" /\ next' # SD!Never THEN attempt + 1 ELSE 0
    BY DEF SD!Unchanged
  <1>3. age' \in Nat \cup {-1}
    BY <1>1, <1>2, DueAge
  <1>4. SD!Never = -1 /\ SD!SearchCache = 360 /\ misses = 0 /\ installed \in Installations
    BY <1>1, <1>2 DEF SD!Never, SD!SearchCache, SD!Hour, Counted, SchedType
  <1>5. PICK n : n = IF prio = "upgrade" THEN attempt + 1 ELSE 0
    OBVIOUS
  <1>6. n \in Nat
    BY <1>1, <1>5 DEF SchedType
  <1>7. next' = SD!NextCheck(installed, n, 0, age', unit)
    BY <1>5 DEF SD!Unchanged
  <1>8. /\ next' \in Nat \cup {-1}
        /\ next' = -1 => installed.base = 0 \/ (~installed.fallback /\ MaxUpgradeChecks > 0 /\ n >= MaxUpgradeChecks)
        /\ 0 <= 0 /\ next' # -1 => next' >= 360
    BY <1>4, <1>6, <1>7, 0 \in Int, CheckTimes
  <1>9. checks' \in Nat /\ checks' >= n /\ (prio = "upgrade" => checks' = checks + 1) /\ (prio # "upgrade" => checks' = 0)
    BY <1>1, <1>5 DEF SD!Unchanged, SchedType, Counted
  <1>10. SchedType'
    <2>1. prio' \in {"missing", "upgrade"} /\ attempt' \in Nat
      BY <1>1, <1>2 DEF SchedType
    <2> QED  BY <1>1, <1>2, <1>3, <1>4, <1>8, <1>9, <2>1 DEF SchedType, Installations, SD!BaseIntervals, SD!Day, SD!Hour
  <1>11. Counted'
    <2>1. prio' = "upgrade" => attempt' <= checks'
      BY <1>1, <1>2, <1>9 DEF SchedType, Counted
    <2>2. prio' = "missing" => attempt' = 0
      BY <1>1, <1>2 DEF SchedType
    <2> QED  BY <1>1, <1>2, <1>4, <2>1, <2>2 DEF Counted
  <1>12. SD!Milestones'
    <2>1. Met(misses', waited')
      BY <1>1, <1>2 DEF SD!Milestones, Met
    <2> QED  BY <2>1 DEF SD!Milestones, Met, SD!Hour, SD!Day
  <1>13. SD!NotTooSoon' /\ SD!RecoveryInTime'
    BY <1>2, <1>8 DEF SD!NotTooSoon, SD!RecoveryInTime, SD!Never, SD!SearchCache, SD!Hour
  <1>14. SD!ChecksGoOn'
    <2>1. MaxUpgradeChecks \in Nat
      BY ScheduleAssumption
    <2>2. next' = -1 => installed.base = 0 \/ (~installed.fallback /\ checks' >= MaxUpgradeChecks /\ MaxUpgradeChecks > 0)
      BY <1>6, <1>8, <1>9, <2>1
    <2> QED  BY <1>2, <2>2 DEF SD!ChecksGoOn, SD!Never, SD!Nothing
  <1> QED  BY <1>10, <1>11, <1>12, <1>13, <1>14 DEF SchedInv, SD!OnTime

LEMMA RequestedInv == SchedInv /\ SD!Requested => SchedInv'
  <1> SUFFICES ASSUME SchedInv, SD!Requested PROVE SchedInv'
    OBVIOUS
  <1>1. /\ prio' = "missing" /\ attempt' = 0 /\ failures' = 0 /\ next' = 0 /\ misses' = 0 /\ waited' = 0
        /\ checks' = 0 /\ why' = "new" /\ UNCHANGED <<age, installed>>
    BY DEF SD!Requested
  <1>2. SchedType' /\ Counted'
    BY <1>1 DEF SchedInv, SchedType, Counted, Installations, SD!Nothing, SD!BaseIntervals, SD!Day, SD!Hour
  <1>3. SD!Milestones'
    <2>1. Met(misses', waited')
      BY <1>1, NoMilestone
    <2> QED  BY <2>1 DEF SD!Milestones, Met, SD!Hour, SD!Day
  <1>4. SD!NotTooSoon' /\ SD!ChecksGoOn' /\ SD!RecoveryInTime'
    BY <1>1 DEF SD!NotTooSoon, SD!ChecksGoOn, SD!RecoveryInTime, SD!Never
  <1> QED  BY <1>2, <1>3, <1>4 DEF SchedInv, SD!OnTime

LEMMA SchedKept == SchedInv /\ [Next]_vars => SchedInv'
  <1> SUFFICES ASSUME SchedInv, [Next]_vars PROVE SchedInv'
    OBVIOUS
  <1>1. CASE UNCHANGED schedVars
    <2>1. SchedType' /\ Counted'
      BY <1>1 DEF SchedInv, SchedType, Counted, schedVars, Installations, SD!Nothing, SD!BaseIntervals, SD!Day,
                  SD!Hour, SD!Aged, SD!Unknown
    <2>2. SD!OnTime'
      BY <1>1 DEF SchedInv, SD!OnTime, schedVars, SD!NotTooSoon, SD!Milestones, SD!ChecksGoOn, SD!RecoveryInTime,
                  SD!Never, SD!Nothing, SD!SearchCache, SD!Day, SD!Hour
    <2> QED  BY <2>1, <2>2 DEF SchedInv
  <1>2. CASE SD!Next
    BY <1>2, MissedInv, RetryInv, InstallsInv, UnchangedInv, RequestedInv DEF SD!Next
  <1>3. SD!Next \/ UNCHANGED schedVars
    BY DEF Next, vars, schedVars
  <1> QED  BY <1>1, <1>2, <1>3

\* Whatever the limits, ages, resets and delays: no search is repeated within
\* the providers' cache or before a reset, a missing subtitle is searched at
\* the milestones although throttles and failures come between, upgrade checks
\* end only where they may, and a fallback is checked again by the preferred
\* provider's reset (internal/schedule, workflowCompletion, scheduleUpgrade).
THEOREM SchedulesOnTime == Spec => []OnTime
  <1>1. SchedInv => OnTime
    BY DEF SchedInv, OnTime
  <1> QED  BY <1>1, SchedInit, SchedKept, PTL DEF Spec

-----------------------------------------------------------------------------
(* Cue repair.                                                              *)

\* Induction over the natural numbers, for a set: WFMin takes a set where the
\* library's induction theorems take an operator.
LEMMA NatSet ==
    ASSUME NEW S \in SUBSET Nat, 0 \in S, \A n \in S : n + 1 \in S
    PROVE  S = Nat
  <1> DEFINE Less == {ss \in Nat \X Nat : ss[1] < ss[2]}
  <1>1. SUFFICES ASSUME Nat \ S # {} PROVE FALSE
    OBVIOUS
  <1>2. IsWellFoundedOn(Less, Nat)
    BY NatLessThanWellFounded, Zenon DEF OpToRel
  <1>3. PICK x \in Nat \ S : \A y \in Nat \ S : ~(<<y, x>> \in Less)
    <2> HIDE DEF Less
    <2> QED  BY <1>1, <1>2, WFMin, Zenon
  <1>4. x # 0 /\ x - 1 \in Nat /\ <<x - 1, x>> \in Less
    BY <1>3
  <1>5. x - 1 \in S
    BY <1>3, <1>4
  <1> QED  BY <1>3, <1>4, <1>5

\* Times after a given one have a first among them.
LEMMA FirstAfter ==
    ASSUME NEW S \in SUBSET Int, S # {}, NEW b \in Int, \A t \in S : t > b
    PROVE  \E t \in S : \A u \in S : t <= u
  <1> DEFINE Less == {ss \in Nat \X Nat : ss[1] < ss[2]}
             D == {n \in Nat : b + n \in S}
  <1>1. IsWellFoundedOn(Less, Nat)
    BY NatLessThanWellFounded, Zenon DEF OpToRel
  <1>2. \A t \in S : t - b \in D
    OBVIOUS
  <1>3. D # {} /\ D \subseteq Nat
    BY <1>2
  <1>4. PICK x \in D : \A y \in D : ~(<<y, x>> \in Less)
    <2> HIDE DEF Less, D
    <2> QED  BY <1>1, <1>3, WFMin, Zenon
  <1>5. ASSUME NEW y \in D PROVE x <= y
    <2>1. x \in Nat /\ y \in Nat
      OBVIOUS
    <2>2. ~(<<y, x>> \in Less)
      BY <1>4
    <2> QED  BY <2>1, <2>2
  <1>6. b + x \in S /\ \A u \in S : b + x <= u
    BY <1>2, <1>5
  <1> QED  BY <1>6

\* A list of cues, whatever their times.
IsCues(cs) ==
    /\ Len(cs) \in Nat /\ DOMAIN cs = 1 .. Len(cs)
    /\ \A i \in 1 .. Len(cs) :
         /\ cs[i].start \in Int /\ cs[i].end \in Int
         /\ cs[i].text # "" => ReadingTime[cs[i].text] \in Nat

LEMMA CueAt ==
    ASSUME NEW cs, IsCues(cs), NEW i \in 1 .. Len(cs)
    PROVE  /\ cs[i].start \in Int /\ cs[i].end \in Int
           /\ cs[i].text # "" => ReadingTime[cs[i].text] \in Nat
  BY DEF IsCues

LEMMA CueCount ==
    ASSUME NEW cs, IsCues(cs)
    PROVE  Len(cs) \in Nat /\ DOMAIN cs = 1 .. Len(cs)
  BY Zenon DEF IsCues

LEMMA OneMore ==
    ASSUME NEW s \in Seq(Int), NEW x \in Int
    PROVE  /\ Append(s, x) \in Seq(Int) /\ Len(Append(s, x)) = Len(s) + 1
           /\ Append(s, x)[Len(s) + 1] = x
           /\ \A j \in 1 .. Len(s) : Append(s, x)[j] = s[j]
  OBVIOUS

Kept(cs, i) == ~CR!Dropped(cs, i)

Forward(cs) == \A j \in 1 .. Len(cs) : cs[j].start <= cs[j].end

\* What the first pass may make of the start of a cue.
Fit(cs, j, s) ==
    \/ s = cs[j].start
    \/ /\ s < cs[j].end /\ cs[j].end - s >= ReadingTime[cs[j].text]
       /\ Forward(cs) => s > cs[j].start

\* The first pass after n cues.
PassSound(cs, p, n) ==
    /\ p.start \in Seq(Int) /\ Len(p.start) = n
    /\ p.leader \in 0 .. n /\ (p.leader > 0 => Kept(cs, p.leader))
    /\ \A j \in 1 .. n : Kept(cs, j) => Fit(cs, j, p.start[j])

FirstPass == [start |-> <<>>, leader |-> 0]

LEMMA PassStep ==
    ASSUME NEW cs, IsCues(cs), NEW n \in Nat, n + 1 <= Len(cs), NEW p, PassSound(cs, p, n)
    PROVE  PassSound(cs, CR!WithStart(cs, p, n + 1), n + 1)
  <1> DEFINE i == n + 1
             typo == p.leader > 0 /\ CR!MistypedStart(cs[i], p.start[p.leader], cs[p.leader].end)
             start == IF typo THEN cs[p.leader].end ELSE cs[i].start
             q == CR!WithStart(cs, p, i)
  <1>0. Len(cs) \in Nat /\ i \in 1 .. Len(cs) /\ i \in Nat /\ i - 1 = n
    BY CueCount
  <1>1. cs[i].start \in Int /\ cs[i].end \in Int
    BY <1>0, CueAt
  <1>2. ASSUME p.leader > 0
        PROVE  /\ p.leader \in 1 .. n /\ p.leader \in 1 .. Len(cs)
               /\ cs[p.leader].end \in Int /\ cs[p.leader].start \in Int
               /\ p.start[p.leader] \in Int /\ Kept(cs, p.leader)
               /\ Fit(cs, p.leader, p.start[p.leader])
    <2>1. p.leader \in 0 .. n /\ Kept(cs, p.leader) /\ p.start \in Seq(Int) /\ Len(p.start) = n
      BY <1>2 DEF PassSound
    <2>2. p.leader \in 1 .. n /\ p.leader \in 1 .. Len(cs)
      BY <1>0, <1>2, <2>1
    <2>3. Fit(cs, p.leader, p.start[p.leader])
      BY <2>1, <2>2 DEF PassSound
    <2>4. p.start[p.leader] \in Int
      BY <2>1, <2>2
    <2> QED  BY <2>1, <2>2, <2>3, <2>4, CueAt
  <1>3. CASE CR!Dropped(cs, i)
    <2>1. q = [start |-> Append(p.start, cs[i].start), leader |-> p.leader]
      BY <1>3 DEF CR!WithStart
    <2>2. q.start \in Seq(Int) /\ Len(q.start) = n + 1 /\ \A j \in 1 .. n : q.start[j] = p.start[j]
      <3>1. p.start \in Seq(Int) /\ Len(p.start) = n
        BY DEF PassSound
      <3>2. q.start = Append(p.start, cs[i].start)
        BY <2>1
      <3> HIDE DEF q
      <3> QED  BY <1>1, <3>1, <3>2, OneMore
    <2>3. ASSUME NEW j \in 1 .. i, Kept(cs, j) PROVE Fit(cs, j, q.start[j])
      BY <1>3, <2>2, <2>3 DEF PassSound, Kept
    <2>4. q.leader \in 0 .. i /\ (q.leader > 0 => Kept(cs, q.leader))
      BY <2>1 DEF PassSound
    <2> QED  BY <2>2, <2>3, <2>4 DEF PassSound
  <1>4. CASE Kept(cs, i)
    <2> DEFINE leader == IF p.leader = 0 \/ start >= p.start[p.leader] THEN i ELSE p.leader
    <2>1. q = [start |-> Append(p.start, start), leader |-> leader]
      BY <1>4, Zenon DEF CR!WithStart, Kept
    <2>2. start \in Int /\ Fit(cs, i, start)
      <3>1. CASE ~typo
        <4>1. start = cs[i].start
          BY <3>1
        <4> QED  BY <1>1, <4>1 DEF Fit
      <3>2. CASE typo
        <4>1. start = cs[p.leader].end /\ p.leader > 0
          BY <3>2
        <4>2. /\ cs[i].start < p.start[p.leader] - 20
              /\ start < cs[i].end /\ cs[i].end - start >= ReadingTime[cs[i].text]
          BY <3>2, <4>1 DEF CR!MistypedStart, CR!TypoDisorder
        <4>3. ReadingTime[cs[p.leader].text] \in Nat
          BY <1>2, <4>1 DEF Kept, CR!Dropped, IsCues
        <4>4. Forward(cs) => p.start[p.leader] <= cs[p.leader].end
          BY <1>2, <4>1, <4>3 DEF Fit, Forward
        <4> HIDE DEF start, typo
        <4>5. Forward(cs) => start > cs[i].start
          BY <1>1, <1>2, <4>1, <4>2, <4>4
        <4>6. start \in Int
          BY <1>2, <4>1
        <4> QED  BY <4>2, <4>5, <4>6 DEF Fit
      <3> QED  BY <3>1, <3>2
    <2> HIDE DEF start, typo
    <2>3. /\ q.start \in Seq(Int) /\ Len(q.start) = n + 1 /\ q.start[i] = start
          /\ \A j \in 1 .. n : q.start[j] = p.start[j]
      <3>1. p.start \in Seq(Int) /\ Len(p.start) = n
        BY DEF PassSound
      <3>2. q.start = Append(p.start, start)
        BY <2>1
      <3> HIDE DEF q
      <3> QED  BY <2>2, <3>1, <3>2, OneMore
    <2>4. q.leader \in 0 .. i /\ (q.leader > 0 => Kept(cs, q.leader))
      BY <1>4, <2>1 DEF PassSound
    <2>5. ASSUME NEW j \in 1 .. i, Kept(cs, j) PROVE Fit(cs, j, q.start[j])
      BY <2>2, <2>3, <2>5 DEF PassSound
    <2> QED  BY <2>3, <2>4, <2>5 DEF PassSound
  <1> QED  BY <1>3, <1>4 DEF Kept

\* The first pass gives every kept cue a start that fits it.
LEMMA StartsFit ==
    ASSUME NEW cs, IsCues(cs)
    PROVE  \A i \in 1 .. Len(cs) : CR!Starts(cs)[i] \in Int /\ (Kept(cs, i) => Fit(cs, i, CR!Starts(cs)[i]))
  <1> DEFINE N == Len(cs)
             Upto(f, n) == f = [i \in 0 .. n |-> IF i = 0 THEN FirstPass ELSE CR!WithStart(cs, f[i - 1], i)]
             Done == {n \in Nat : \E f : Upto(f, n)}
  <1>1. N \in Nat
    BY CueCount
  <1>2. 0 \in Done
    <2>1. Upto([i \in 0 .. 0 |-> FirstPass], 0)
      OBVIOUS
    <2> QED  BY <2>1
  <1>3. ASSUME NEW n \in Done PROVE n + 1 \in Done
    <2>1. PICK f : Upto(f, n)
      BY <1>3
    <2> DEFINE last == CR!WithStart(cs, f[n], n + 1)
               g == [i \in 0 .. (n + 1) |-> IF i = n + 1 THEN last ELSE f[i]]
    <2> HIDE DEF last
    <2>2. ASSUME NEW i \in 0 .. (n + 1)
          PROVE  g[i] = IF i = 0 THEN FirstPass ELSE CR!WithStart(cs, g[i - 1], i)
      <3>1. CASE i = n + 1
        <4>1. g[i] = last /\ g[i - 1] = f[n] /\ i # 0
          BY <3>1
        <4> QED  BY <3>1, <4>1 DEF last
      <3>2. CASE i # n + 1
        <4>1. i \in 0 .. n /\ g[i] = f[i] /\ (i # 0 => g[i - 1] = f[i - 1])
          BY <3>2
        <4>2. f[i] = IF i = 0 THEN FirstPass ELSE CR!WithStart(cs, f[i - 1], i)
          BY <2>1, <4>1
        <4> QED  BY <4>1, <4>2
      <3> QED  BY <3>1, <3>2
    <2>3. Upto(g, n + 1)
      BY <2>2
    <2>4. n + 1 \in Nat
      OBVIOUS
    <2> HIDE DEF g, Upto
    <2> QED  BY <2>3, <2>4
  <1>4. \E f : Upto(f, N)
    <2>1. Done = Nat
      <3> HIDE DEF Done
      <3>1. Done \subseteq Nat
        BY DEF Done
      <3> QED  BY <1>2, <1>3, <3>1, NatSet
    <2> HIDE DEF Upto, N
    <2> QED  BY <1>1, <2>1
  <1> DEFINE f == CHOOSE g : Upto(g, N)
  <1>5. Upto(f, N)
    <2> HIDE DEF Upto, N
    <2> QED  BY <1>4
  <1>6. CR!Starts(cs) = f[N].start
    BY Zenon DEF CR!Starts, FirstPass
  <1> HIDE DEF f
  <1> DEFINE Good == {n \in Nat : n <= N => PassSound(cs, f[n], n)}
  <1>7. 0 \in Good
    <2>1. f[0] = FirstPass
      BY <1>1, <1>5
    <2>2. f[0].start = <<>> /\ f[0].leader = 0
      BY <2>1 DEF FirstPass
    <2>3. <<>> \in Seq(Int) /\ Len(<<>>) = 0
      OBVIOUS
    <2>4. PassSound(cs, f[0], 0)
      BY <2>2, <2>3 DEF PassSound
    <2> QED  BY <2>4
  <1>8. ASSUME NEW n \in Good, n + 1 <= N PROVE PassSound(cs, f[n + 1], n + 1)
    <2>1. n \in Nat /\ PassSound(cs, f[n], n)
      BY <1>1, <1>8
    <2>2. n + 1 \in 0 .. N /\ (n + 1) - 1 = n /\ n + 1 # 0
      BY <1>1, <1>8, <2>1
    <2>3. f[n + 1] = CR!WithStart(cs, f[(n + 1) - 1], n + 1)
      BY <1>5, <2>2
    <2> QED  BY <1>8, <2>1, <2>2, <2>3, PassStep
  <1>9. N \in Good
    <2>1. \A n \in Good : n + 1 \in Good
      BY <1>8
    <2>2. Good \subseteq Nat
      OBVIOUS
    <2> HIDE DEF Good
    <2> QED  BY <1>1, <1>7, <2>1, <2>2, NatSet
  <1>10. PassSound(cs, f[N], N)
    BY <1>1, <1>9
  <1> HIDE DEF Upto
  <1> QED  BY <1>6, <1>10 DEF PassSound

\* A kept cue ends after it starts, and lasts if its start was moved.
LEMMA EndFits ==
    ASSUME NEW c, NEW s \in Int, c.start \in Int, c.end \in Int, ReadingTime[c.text] \in Nat,
           NEW later \in SUBSET Int, \A t \in later : t > s,
           s = c.start \/ (s < c.end /\ c.end - s >= ReadingTime[c.text])
    PROVE  /\ s <= CR!RepairedEnd(c, s, later)
           /\ s # c.start => CR!RepairedEnd(c, s, later) - s >= ReadingTime[c.text]
  <1> DEFINE next0 == CHOOSE t \in later : \A u \in later : t <= u
             r == ReadingTime[c.text]
             e == CR!RepairedEnd(c, s, later)
  <1>1. later # {} => next0 \in Int /\ next0 > s
    BY FirstAfter
  <1> HIDE DEF next0
  <1>2. e = IF c.end < s
              THEN IF later # {} /\ next0 < s + r THEN CR!Larger(next0, s + 1) ELSE s + r
            ELSE IF /\ later # {} /\ c.end > next0 + 20
                    /\ c.end - s > 3 * r /\ c.end - s > 30
                    /\ ~c.held
              THEN CR!Larger(next0, s + r)
            ELSE c.end
    BY Zenon DEF CR!RepairedEnd, CR!TypoDisorder, CR!MistypedEnd, next0
  <1> HIDE DEF e, r
  <1>3. r \in Nat
    BY DEF r
  <1>4. s = c.start \/ (s < c.end /\ c.end - s >= r)
    BY DEF r
  <1>5. s <= e /\ (s # c.start => e - s >= r)
    BY <1>1, <1>2, <1>3, <1>4 DEF CR!Larger
  <1> QED  BY <1>5 DEF e, r

\* What PlanSane says of the plan of a list of cues.
PlannedSane(cs, done) ==
    \A i \in DOMAIN done : ~done[i].drop =>
        /\ done[i].start <= done[i].end
        /\ done[i].start # cs[i].start =>
             /\ done[i].end - done[i].start >= ReadingTime[cs[i].text]
             /\ (\A j \in DOMAIN cs : cs[j].start <= cs[j].end) => done[i].start > cs[i].start

LEMMA PlanFits ==
    ASSUME NEW cs, IsCues(cs)
    PROVE  PlannedSane(cs, CR!Planned(cs))
  <1> DEFINE starts == CR!Starts(cs)
             kept == {i \in DOMAIN cs : ~CR!Dropped(cs, i)}
             Later(i) == {starts[j] : j \in {k \in kept : starts[k] > starts[i]}}
  <1>1. CR!Planned(cs) = [i \in DOMAIN cs |->
           [start |-> starts[i],
            end |-> IF i \in kept THEN CR!RepairedEnd(cs[i], starts[i], Later(i)) ELSE cs[i].end,
            drop |-> i \notin kept]]
    BY Zenon DEF CR!Planned
  <1>2. DOMAIN cs = 1 .. Len(cs)
    BY CueCount
  <1> HIDE DEF starts
  <1>3. \A i \in DOMAIN cs : starts[i] \in Int /\ (Kept(cs, i) => Fit(cs, i, starts[i]))
    BY <1>2, StartsFit DEF starts
  <1>4. SUFFICES ASSUME NEW i \in DOMAIN cs, i \in kept
                 PROVE  LET e == CR!RepairedEnd(cs[i], starts[i], Later(i))
                        IN  /\ starts[i] <= e
                            /\ starts[i] # cs[i].start =>
                                 /\ e - starts[i] >= ReadingTime[cs[i].text]
                                 /\ Forward(cs) => starts[i] > cs[i].start
    <2> DEFINE done == CR!Planned(cs)
    <2>1. DOMAIN done = DOMAIN cs
      BY <1>1
    <2>2. ASSUME NEW i \in DOMAIN cs
          PROVE  /\ done[i].start = starts[i] /\ (~done[i].drop => i \in kept)
                 /\ i \in kept => done[i].end = CR!RepairedEnd(cs[i], starts[i], Later(i))
      <3> DEFINE end == IF i \in kept THEN CR!RepairedEnd(cs[i], starts[i], Later(i)) ELSE cs[i].end
      <3>1. done[i] = [start |-> starts[i], end |-> end, drop |-> i \notin kept]
        BY <1>1, Zenon
      <3>2. i \in kept => end = CR!RepairedEnd(cs[i], starts[i], Later(i))
        OBVIOUS
      <3> HIDE DEF kept, end, done
      <3>3. done[i].start = starts[i] /\ done[i].end = end /\ done[i].drop = (i \notin kept)
        BY <3>1
      <3> QED  BY <3>2, <3>3
    <2>3. Forward(cs) <=> \A j \in DOMAIN cs : cs[j].start <= cs[j].end
      BY <1>2 DEF Forward
    <2> HIDE DEF done, kept, Later
    <2>4. PlannedSane(cs, done)
      BY <1>4, <2>1, <2>2, <2>3 DEF PlannedSane
    <2> QED  BY <2>4 DEF done
  <1>5. /\ cs[i].start \in Int /\ cs[i].end \in Int
        /\ ReadingTime[cs[i].text] \in Nat
    BY <1>2, <1>4, CueAt DEF CR!Dropped
  <1>6. Later(i) \in SUBSET Int /\ \A t \in Later(i) : t > starts[i]
    BY <1>3
  <1>7. Fit(cs, i, starts[i]) /\ starts[i] \in Int
    BY <1>3, <1>4 DEF Kept
  <1> HIDE DEF Later
  <1>8. starts[i] # cs[i].start /\ Forward(cs) => starts[i] > cs[i].start
    BY <1>7 DEF Fit
  <1> QED  BY <1>5, <1>6, <1>7, <1>8, EndFits DEF Fit

\* The plan is the one of the cues.
CueInv ==
    /\ cues # <<>> => cues \in CueLists
    /\ plan # <<>> => cues \in CueLists /\ plan = CR!Planned(cues)

LEMMA CueInit == Init => CueInv
  BY DEF Init, CueInv, CR!Init

LEMMA CueKept == CueInv /\ [Next]_vars => CueInv'
  <1> SUFFICES ASSUME CueInv, [Next]_vars PROVE CueInv'
    OBVIOUS
  <1>1. CASE UNCHANGED cueVars
    BY <1>1 DEF CueInv, cueVars
  <1>2. CASE CR!Next
    BY <1>2 DEF CR!Next, CR!Rewrite, CR!Plan, CR!PlanRepairs, CueInv
  <1> QED  BY <1>1, <1>2 DEF Next, vars, cueVars

\* However many cues a subtitle has and however wrong its times are, after the
\* plan no cue ends before it starts, and one that was given a new start lasts
\* its reading time and did not move back, if no cue of the file ended before
\* it started (planRepairs).
THEOREM PlansStaySane == Spec => []CR!PlanSane
  <1>1. CueInv => CR!PlanSane
    <2> SUFFICES ASSUME CueInv PROVE CR!PlanSane
      OBVIOUS
    <2>1. CASE plan = <<>>
      BY <2>1 DEF CR!PlanSane
    <2>2. CASE plan # <<>>
      <3>1. cues \in CueLists /\ plan = CR!Planned(cues)
        BY <2>2 DEF CueInv
      <3>2. IsCues(cues)
        <4> DEFINE Cue == [start : Int, end : Int, text : STRING, held : BOOLEAN]
        <4>0. cues \in Seq(Cue)
          BY <3>1, CueAssumption
        <4>1. \A i \in DOMAIN cues : cues[i].text # "" => ReadingTime[cues[i].text] \in Nat
          BY <3>1, CueAssumption
        <4>2. \A c \in Cue : c.start \in Int /\ c.end \in Int
          OBVIOUS
        <4> HIDE DEF Cue
        <4>3. /\ Len(cues) \in Nat /\ DOMAIN cues = 1 .. Len(cues)
              /\ \A i \in 1 .. Len(cues) : cues[i] \in Cue
          BY <4>0
        <4> QED  BY <4>1, <4>2, <4>3 DEF IsCues
      <3>3. PlannedSane(cues, plan)
        BY <3>1, <3>2, PlanFits
      <3> QED  BY <3>3 DEF PlannedSane, CR!PlanSane
    <2> QED  BY <2>1, <2>2
  <1> QED  BY <1>1, CueInit, CueKept, PTL DEF Spec
=============================================================================
