------------------------- MODULE WebhookConnections --------------------------
(***************************************************************************)
(* The webhook connection that subsyncd keeps in Sonarr or Radarr for one  *)
(* instance (internal/catalog/webhook_connection.go and its maintainer,    *)
(* internal/store/webhook_token.go).  A sync reads Arr's connections and   *)
(* the remembered ID, then adopts, repairs or creates one and remembers    *)
(* it; requests fail or lose their answers, the daemon may die between two *)
(* steps, and between two runs its base URL, its token or the Arr may be   *)
(* others.  Meanwhile the owner and other deployments change connections.  *)
(*                                                                         *)
(* Where a connection points is one of Bases (our path at that base URL),  *)
(* OtherHost (the instance's path at another deployment) or Unrelated (not *)
(* the instance's path).  right stands for the method and the event flags. *)
(* A request takes effect before the sync that sent it ends; the names     *)
(* that create tries, and failed reads, are among the refusals.  The wait  *)
(* between two syncs is left open.                                         *)
(***************************************************************************)
EXTENDS Naturals, FiniteSets

CONSTANTS Arrs, Bases, Tokens, OtherHost, Unrelated, OtherToken,
          MaxID,       \* bound: connections an Arr ever numbers
          MaxChanges   \* bound: faults and outside changes

VARIABLES
    conns,      \* Arr -> ID -> connection, or None
    nextID,     \* Arr -> the next ID
    arr, base, token,   \* the configuration and the stored token
    stored,     \* the remembered connection: its Arr and ID
    up,         \* the daemon runs
    sync,       \* the running Sync: where it is, the connection it chose
    lostTrack,  \* history: our own connection carried neither base, token nor
                \* remembered ID at a start
    changes

hookVars == <<conns, nextID, arr, base, token, stored, up, sync, lostTrack, changes>>

IDs == 1..MaxID
\* late: numbered after a reset with the ID that is remembered, or about to be.
None == [at |-> Unrelated, token |-> OtherToken, right |-> FALSE, whose |-> "nobody", late |-> FALSE]
Idle == [pc |-> "idle", id |-> 0, seen |-> None]

Init ==
    /\ conns = [a \in Arrs |-> [i \in IDs |-> None]]
    /\ nextID = [a \in Arrs |-> 1]
    /\ arr = (CHOOSE a \in Arrs : TRUE)      \* any one: they are alike
    /\ base = (CHOOSE b \in Bases : TRUE)
    /\ token = (CHOOSE t \in Tokens : TRUE)
    /\ stored = [arr |-> arr, id |-> 0]
    /\ up = TRUE /\ sync = Idle /\ lostTrack = FALSE /\ changes = 0

Here == {i \in IDs : conns[arr][i] # None}
Change == changes < MaxChanges /\ changes' = changes + 1

-----------------------------------------------------------------------------
(* Sync.                                                                    *)

\* webhookCandidateURL: a webhook at the instance's path.
Candidate(c) == c.at # Unrelated

\* Mutant: the remembered ID is taken whatever it names now.
RememberedAnyURL == {i \in Here : stored.arr = arr /\ i = stored.id}

\* rememberedConnection.
Remembered == {i \in Here : stored.arr = arr /\ i = stored.id /\ Candidate(conns[arr][i])}

\* Mutant: only the token tells whose a connection is.
OursByToken(c) == Candidate(c) /\ c.token = token

\* matchConnections: at exactly our address, or with our token.
Ours(c) == Candidate(c) /\ (c.at = base \/ c.token = token)

Matching == {i \in Here : Ours(conns[arr][i])}

\* repairWebhookResource.
Repaired(c) == [c EXCEPT !.at = base, !.token = token, !.right = TRUE]

Owned(i) ==
    sync' = [pc |-> IF Repaired(conns[arr][i]) = conns[arr][i] THEN "record" ELSE "put",
             id |-> i, seen |-> conns[arr][i]]

\* Sync reads Arr's connections and the remembered one, and chooses.
Begin ==
    /\ up /\ sync = Idle
    /\ \/ \E i \in Remembered : Owned(i)
       \/ Remembered = {} /\ Cardinality(Matching) = 1 /\ \E i \in Matching : Owned(i)
       \/ Remembered = {} /\ Matching = {} /\ sync' = [Idle EXCEPT !.pc = "post"]
    /\ UNCHANGED <<conns, nextID, arr, base, token, stored, up, lostTrack, changes>>

\* More than one match and none remembered: Sync only warns.
Ambiguous == Remembered = {} /\ Cardinality(Matching) > 1

\* The PUT, with every key of the connection as it was read.
Put ==
    /\ sync.pc = "put"
    /\ conns[arr][sync.id] # None
    /\ conns' = [conns EXCEPT ![arr][sync.id] = Repaired(sync.seen)]
    /\ \/ sync' = [sync EXCEPT !.pc = "record"] /\ UNCHANGED changes
       \/ Change /\ sync' = Idle                        \* the answer is lost
    /\ UNCHANGED <<nextID, arr, base, token, stored, up, lostTrack>>

\* create.
Post ==
    /\ sync.pc = "post"
    /\ nextID[arr] \in IDs
    /\ conns' = [conns EXCEPT ![arr][nextID[arr]] =
                   [at |-> base, token |-> token, right |-> TRUE, whose |-> "us", late |-> FALSE]]
    /\ nextID' = [nextID EXCEPT ![arr] = @ + 1]
    /\ \/ sync' = [sync EXCEPT !.pc = "record", !.id = nextID[arr]] /\ UNCHANGED changes
       \/ Change /\ sync' = Idle
    /\ UNCHANGED <<arr, base, token, stored, up, lostTrack>>

\* Arr does not save it: its own test failed, the connection is gone, or every
\* name is taken.  The maintainer tries again later.
Refused ==
    /\ sync.pc \in {"put", "post"}
    /\ (sync.pc = "put" /\ conns[arr][sync.id] = None /\ UNCHANGED changes) \/ Change
    /\ sync' = Idle
    /\ UNCHANGED <<conns, nextID, arr, base, token, stored, up, lostTrack>>

\* RecordWebhookConnection.
Recorded == [arr |-> arr, id |-> sync.id]

Record ==
    /\ sync.pc = "record"
    /\ stored' = Recorded /\ sync' = Idle
    /\ UNCHANGED <<conns, nextID, arr, base, token, up, lostTrack, changes>>

-----------------------------------------------------------------------------
(* The daemon's life.                                                       *)

Stop ==
    /\ up /\ Change
    /\ up' = FALSE /\ sync' = Idle
    /\ UNCHANGED <<conns, nextID, arr, base, token, stored, lostTrack>>

\* RotateWebhookToken holds the mutation lock: no daemon runs.
Rotate ==
    /\ ~up /\ Change
    /\ token' \in Tokens \ {token}
    /\ UNCHANGED <<conns, nextID, arr, base, stored, up, sync, lostTrack>>

\* A start, with whatever the configuration now says.
Start(a, b) ==
    /\ ~up /\ up' = TRUE
    /\ arr' = a /\ base' = b
    /\ \/ <<a, b>> = <<arr, base>> /\ UNCHANGED changes
       \/ <<a, b>> # <<arr, base>> /\ Change
    /\ lostTrack' = (lostTrack \/ \E i \in IDs :
                        /\ conns[a][i].whose = "us"
                        /\ conns[a][i].at # b /\ conns[a][i].token # token
                        /\ stored # [arr |-> a, id |-> i])
    /\ UNCHANGED <<conns, nextID, token, stored, sync>>

-----------------------------------------------------------------------------
(* Arr's other users.                                                       *)

Add(a, c) ==
    /\ Change /\ nextID[a] \in IDs
    /\ conns' = [conns EXCEPT ![a][nextID[a]] =
                   [c EXCEPT !.late = [arr |-> a, id |-> nextID[a]] \in {stored, Recorded}]]
    /\ nextID' = [nextID EXCEPT ![a] = @ + 1]
    /\ UNCHANGED <<arr, base, token, stored, up, sync, lostTrack>>

\* Another deployment's connection, or one for another program.
OthersAdd(a, at) == Add(a, [None EXCEPT !.at = at, !.right = TRUE, !.whose = "them"])

\* The owner enters the URL that WebhookURL shows.
OwnerAdds == Add(arr, [None EXCEPT !.at = base, !.token = token, !.whose = "owner"])

Edited(a, i, c) ==
    /\ Change /\ conns[a][i] # None
    /\ conns' = [conns EXCEPT ![a][i] = c]
    /\ UNCHANGED <<nextID, arr, base, token, stored, up, sync, lostTrack>>

OwnerDeletes(a, i) == Edited(a, i, None)
OwnerUnticks(a, i) == conns[a][i].right /\ Edited(a, i, [conns[a][i] EXCEPT !.right = FALSE])
\* The owner uses our connection for something else.
OwnerTakes(a, i) == Edited(a, i, [conns[a][i] EXCEPT !.at = Unrelated, !.token = OtherToken, !.whose = "them"])

\* Arr's database is new: IDs start again.
Reset(a) ==
    /\ Change
    /\ conns' = [conns EXCEPT ![a] = [i \in IDs |-> None]]
    /\ nextID' = [nextID EXCEPT ![a] = 1]
    /\ UNCHANGED <<arr, base, token, stored, up, sync, lostTrack>>

Next ==
    \/ Begin \/ Put \/ Post \/ Refused \/ Record
    \/ Stop \/ Rotate \/ OwnerAdds
    \/ \E a \in Arrs : \/ Reset(a)
                       \/ \E b \in Bases : Start(a, b)
                       \/ \E at \in {OtherHost, Unrelated} : OthersAdd(a, at)
                       \/ \E i \in IDs : OwnerDeletes(a, i) \/ OwnerUnticks(a, i) \/ OwnerTakes(a, i)

-----------------------------------------------------------------------------
\* A sync never writes to a connection of another deployment, of another
\* program, or one the owner has turned to something else, whatever the Arr,
\* the host, the token or the remembered ID have become.  Excepted: a
\* connection that was changed after the sync had read it (Arr has no
\* conditional PUT), and another deployment's that got the remembered ID when
\* Arr's database was reset.
ForeignLeft ==
    \A i \in IDs :
        /\ sync.pc = "put" /\ sync' # sync
        /\ conns[arr][i].whose = "them" /\ conns[arr][i] = sync.seen
        /\ ~(conns[arr][i].late /\ Candidate(conns[arr][i]))
        => conns'[arr][i] = conns[arr][i]

ForeignUntouched == [][ForeignLeft]_hookVars

\* subsyncd never creates a second connection beside its own: not after a lost
\* answer, a crash before the ID was stored, a new token, a new base URL or a
\* return to an Arr it left, as long as the old one can be told by one of
\* them (rememberedConnection, matchConnections).
OneConnection ==
    ~lostTrack => \A a \in Arrs : Cardinality({i \in IDs : conns[a][i].whose = "us"}) <= 1
=============================================================================
