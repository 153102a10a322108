------------------------------ MODULE PackCache ------------------------------
(***************************************************************************)
(* The cache of downloaded subtitle packs (internal/pack/cache.go): a row  *)
(* per pack in the database and a directory with its members on disk.      *)
(* Every operation holds Cache.mu, but a search goes on reading the member *)
(* it found after the lookup returned, while others publish and evict; and *)
(* a crash may come between any two file system calls.                     *)
(*                                                                         *)
(* A row stands for a pack's provider, result, language and checksum; the  *)
(* directory's name also holds the evidence version under which the pack   *)
(* was interpreted.  Packs have the same size and fit the limit, so        *)
(* Capacity counts them.                                                   *)
(* Whether a pack has a member for the episode is left open: Find may skip *)
(* it.  Paths outside the cache root and symbolic links are not modelled.  *)
(***************************************************************************)
EXTENDS Naturals, FiniteSets

CONSTANTS Packs, Evidence, Searches, Capacity, NoOne,
          MaxFaults   \* bound: crashes, failed statements and damaged files

VARIABLES
    rows,       \* pack -> [ev, expired], or NoRow
    used,       \* <<p, q>>: pack p was last used before pack q
    dirs,       \* directory -> [text, whole], or NoDir
    tombs,      \* the packs whose directory was renamed to .evict-<id>
    staged,     \* a .publish- directory is on disk
    op,         \* the operation that holds the lock
    reading,    \* search -> [pack, dir] of the cached member it works on, or Nothing
    misread,    \* history: a search took another pack's text for the one it found
    settled,    \* history: since the last completed eviction nothing failed,
                \* crashed, expired or was damaged
    faults

packVars == <<rows, used, dirs, tombs, staged, op, reading, misread, settled, faults>>

NoRow == [ev |-> 0, expired |-> FALSE]
NoDir == [text |-> NoOne, whole |-> FALSE]
Nothing == [pack |-> NoOne, dir |-> <<NoOne, 0>>]
Free == [pc |-> "free", pack |-> NoOne, ev |-> 0, created |-> FALSE,
         victims |-> {}, victim |-> NoOne, moved |-> NoDir]
Rows == {p \in Packs : rows[p] # NoRow}

\* Mutant: the directory is named after the provider's result only.
ResultKey(p, e) == <<NoOne, e>>

\* cacheContentKey.
ContentKey(p, e) == <<p, e>>

Directories == (Packs \cup {NoOne}) \X Evidence

Init ==
    /\ rows = [p \in Packs |-> NoRow] /\ used = {}
    /\ dirs = [d \in Directories |-> NoDir]
    /\ tombs = {} /\ staged = FALSE
    /\ op = Free /\ reading = [s \in Searches |-> Nothing]
    /\ misread = FALSE /\ settled = TRUE /\ faults = 0

Fault == faults < MaxFaults /\ faults' = faults + 1
At(pc) == op.pc = pc
Goto(pc) == op' = [op EXCEPT !.pc = pc]

\* last_access_at_ns: p's row goes, or is the last one used.
Without(p) == {u \in used : p \notin {u[1], u[2]}}
Touched(p) == Without(p) \cup ((Rows \ {p}) \X {p})

-----------------------------------------------------------------------------
(* Put.                                                                     *)

\* The members are copied into a staging directory.
BeginPut(s, p, e) ==
    /\ op = Free /\ reading[s] = Nothing
    /\ op' = [Free EXCEPT !.pc = "publish", !.pack = p, !.ev = e]
    /\ staged' = TRUE
    /\ UNCHANGED <<rows, used, dirs, tombs, reading, misread, settled, faults>>

\* The staging directory becomes the pack's, or the members of an existing one
\* are verified.  Only its manifest may be damaged, which nothing verifies here.
Publish ==
    LET d == ContentKey(op.pack, op.ev) IN
    /\ At("publish")
    /\ IF dirs[d] = NoDir
         THEN /\ dirs' = [dirs EXCEPT ![d] = [text |-> op.pack, whole |-> TRUE]]
              /\ staged' = FALSE
              /\ op' = [op EXCEPT !.pc = "row", !.created = TRUE]
              /\ UNCHANGED settled
       ELSE \/ dirs[d].text = op.pack /\ Goto("row") /\ UNCHANGED <<dirs, staged, settled>>
            \/ /\ dirs[d] # [text |-> op.pack, whole |-> TRUE]
               /\ op' = Free /\ staged' = FALSE /\ settled' = FALSE /\ UNCHANGED dirs
    /\ UNCHANGED <<rows, used, tombs, reading, misread, faults>>

\* PutPack; when it fails a directory created for it goes again.
PutRow ==
    /\ At("row")
    /\ rows' = [rows EXCEPT ![op.pack] = [ev |-> op.ev, expired |-> FALSE]]
    /\ used' = Touched(op.pack)
    /\ Goto("list")
    /\ UNCHANGED <<dirs, tombs, staged, reading, misread, settled, faults>>

PutRowFails ==
    /\ At("row") /\ Fault
    /\ dirs' = IF op.created THEN [dirs EXCEPT ![ContentKey(op.pack, op.ev)] = NoDir] ELSE dirs
    /\ op' = Free /\ staged' = FALSE /\ settled' = FALSE
    /\ UNCHANGED <<rows, used, tombs, reading, misread>>

-----------------------------------------------------------------------------
(* evictLocked.                                                             *)

\* Mutant: the most recently used packs go first.
NewestFirst(p, q) ==
    \/ rows[p].expired /\ ~rows[q].expired
    \/ (rows[p].expired <=> rows[q].expired) /\ <<q, p>> \in used

\* ListPacksForEviction: expired packs, then the least recently used ones.
Before(p, q) ==
    \/ rows[p].expired /\ ~rows[q].expired
    \/ (rows[p].expired <=> rows[q].expired) /\ <<p, q>> \in used

Expired == {p \in Rows : rows[p].expired}
Excess(n) == IF n > Capacity THEN n - Capacity ELSE 0

\* The expired packs, and more while the total is over the limit.
Victims ==
    {ps \in SUBSET Rows :
        /\ Expired \subseteq ps
        /\ Cardinality(ps) = IF Cardinality(Expired) > Excess(Cardinality(Rows)) THEN Cardinality(Expired)
                             ELSE Excess(Cardinality(Rows))
        /\ \A p \in ps, q \in Rows \ ps : Before(p, q)}

ListVictims ==
    /\ At("list")
    /\ \E ps \in Victims : op' = [op EXCEPT !.pc = "stage", !.victims = ps]
    /\ UNCHANGED <<rows, used, dirs, tombs, staged, reading, misread, settled, faults>>

\* A victim's directory, if there is one, is renamed to its tombstone; the
\* rename fails on a tombstone that a crash left.
Stage ==
    /\ At("stage")
    /\ \E p \in op.victims :
         LET d == ContentKey(p, rows[p].ev) IN
         /\ \A q \in op.victims \ {p} : Before(p, q)
         /\ IF dirs[d] = NoDir
              THEN op' = [op EXCEPT !.pc = "delete", !.victim = p] /\ UNCHANGED <<dirs, tombs, staged, settled>>
            ELSE IF p \in tombs
              THEN op' = Free /\ staged' = FALSE /\ settled' = FALSE /\ UNCHANGED <<dirs, tombs>>
            ELSE /\ dirs' = [dirs EXCEPT ![d] = NoDir]
                 /\ tombs' = tombs \cup {p}
                 /\ op' = [op EXCEPT !.pc = "delete", !.victim = p, !.moved = dirs[d]]
                 /\ UNCHANGED <<staged, settled>>
    /\ UNCHANGED <<rows, used, reading, misread, faults>>

\* DeletePack, then the tombstone; a failure renames it back.
Delete ==
    /\ At("delete")
    /\ rows' = [rows EXCEPT ![op.victim] = NoRow]
    /\ used' = Without(op.victim)
    /\ Goto("remove")
    /\ UNCHANGED <<dirs, tombs, staged, reading, misread, settled, faults>>

DeleteFails ==
    /\ At("delete") /\ Fault
    /\ IF op.moved # NoDir
         THEN /\ dirs' = [dirs EXCEPT ![ContentKey(op.victim, rows[op.victim].ev)] = op.moved]
              /\ tombs' = tombs \ {op.victim}
         ELSE UNCHANGED <<dirs, tombs>>
    /\ op' = Free /\ staged' = FALSE /\ settled' = FALSE
    /\ UNCHANGED <<rows, used, reading, misread>>

RemoveTombstone ==
    /\ At("remove")
    /\ tombs' = IF op.moved # NoDir THEN tombs \ {op.victim} ELSE tombs
    /\ op' = [op EXCEPT !.pc = "stage", !.victims = @ \ {op.victim}, !.victim = NoOne, !.moved = NoDir]
    /\ UNCHANGED <<rows, used, dirs, staged, reading, misread, settled, faults>>

\* Mutant: the sweep trusts the directories.
SweepsTombstonesOnly == dirs

\* What no row names goes: superseded and orphaned directories.
Swept == [d \in Directories |->
            IF \E p \in Rows : d = ContentKey(p, rows[p].ev) THEN dirs[d] ELSE NoDir]

\* The sweep of the cache's root ends the Put.
Sweep ==
    /\ At("stage") /\ op.victims = {}
    /\ dirs' = Swept
    /\ tombs' = {} /\ staged' = FALSE
    /\ op' = Free /\ settled' = TRUE
    /\ UNCHANGED <<rows, used, reading, misread, faults>>

-----------------------------------------------------------------------------
(* FindEligible.                                                            *)

Whole(p) == dirs[ContentKey(p, rows[p].ev)] = [text |-> p, whole |-> TRUE]

\* The first pack with an acceptable member is marked used and its path
\* returned.
Find(s, p) ==
    /\ op = Free /\ reading[s] = Nothing
    /\ p \in Rows /\ ~rows[p].expired /\ Whole(p)
    /\ used' = Touched(p)
    /\ reading' = [reading EXCEPT ![s] = [pack |-> p, dir |-> ContentKey(p, rows[p].ev)]]
    /\ UNCHANGED <<rows, dirs, tombs, staged, op, misread, settled, faults>>

\* invalidateEntry: the row of a pack that is not what it says goes first.
Invalidate(s, p) ==
    /\ op = Free /\ reading[s] = Nothing
    /\ p \in Rows /\ ~rows[p].expired /\ ~Whole(p)
    /\ rows' = [rows EXCEPT ![p] = NoRow]
    /\ used' = Without(p)
    /\ op' = [Free EXCEPT !.pc = "invalid", !.pack = p, !.ev = rows[p].ev]
    /\ settled' = FALSE
    /\ UNCHANGED <<dirs, tombs, staged, reading, misread, faults>>

RemoveInvalid ==
    /\ At("invalid")
    /\ dirs' = [dirs EXCEPT ![ContentKey(op.pack, op.ev)] = NoDir]
    /\ op' = Free
    /\ UNCHANGED <<rows, used, tombs, staged, reading, misread, settled, faults>>

\* The search computes the checksum of the file at the path it was given, and
\* judges it: prepareMembers.  A file that is gone ends the search.
Read(s) ==
    /\ reading[s] # Nothing
    /\ LET d == dirs[reading[s].dir]
       IN  misread' = (misread \/ (d.whole /\ d.text # reading[s].pack))
    /\ reading' = [reading EXCEPT ![s] = Nothing]
    /\ UNCHANGED <<rows, used, dirs, tombs, staged, op, settled, faults>>

-----------------------------------------------------------------------------
(* The world.                                                               *)

\* Every operation reads the clock once.
Expires(p) ==
    /\ op = Free /\ p \in Rows /\ ~rows[p].expired
    /\ rows' = [rows EXCEPT ![p].expired = TRUE]
    /\ settled' = FALSE
    /\ UNCHANGED <<used, dirs, tombs, staged, op, reading, misread, faults>>

\* A member's file is damaged or removed.
Damage(d) ==
    /\ Fault
    /\ dirs[d].whole
    /\ dirs' = [dirs EXCEPT ![d].whole = FALSE]
    /\ settled' = FALSE
    /\ UNCHANGED <<rows, used, tombs, staged, op, reading, misread>>

\* The process dies; a directory that was being removed is left in part.
Crash ==
    /\ Fault
    /\ op' = Free /\ settled' = FALSE
    /\ reading' = [s \in Searches |-> Nothing]
    /\ \/ UNCHANGED dirs
       \/ /\ At("invalid") /\ dirs[ContentKey(op.pack, op.ev)] # NoDir
          /\ dirs' = [dirs EXCEPT ![ContentKey(op.pack, op.ev)].whole = FALSE]
    /\ UNCHANGED <<rows, used, tombs, staged, misread>>

Next ==
    \/ \E s \in Searches : \/ \E p \in Packs : Find(s, p) \/ Invalidate(s, p)
                           \/ \E p \in Packs, e \in Evidence : BeginPut(s, p, e)
                           \/ Read(s)
    \/ Publish \/ PutRow \/ PutRowFails
    \/ ListVictims \/ Stage \/ Delete \/ DeleteFails \/ RemoveTombstone \/ Sweep
    \/ RemoveInvalid
    \/ \E p \in Packs : Expires(p)
    \/ \E d \in Directories : Damage(d)
    \/ Crash

-----------------------------------------------------------------------------
\* What a search judges, installs or rejects as a cached pack's text is that
\* text, although its directory may be evicted, superseded, damaged and
\* published again while the search reads it (cacheContentKey).
TextAsFound == ~misread

\* Once a Put has completed, and until something fails, the disk holds the
\* directories of the rows and nothing else, and no more than the limit,
\* whatever earlier crashes left behind (evictLocked).
DiskSettled ==
    settled /\ op = Free =>
        /\ tombs = {} /\ ~staged
        /\ \A d \in Directories : dirs[d] # NoDir => \E p \in Rows : d = ContentKey(p, rows[p].ev)
        /\ Cardinality(Rows) <= Capacity

\* The pack a Put stored is in the cache while the Put makes room for it, and
\* so when it ends: what goes was used before it.  It takes a limit that holds
\* the pack; a larger one is evicted by its own Put (ListPacksForEviction,
\* evictLocked).
PutKeeps == At("stage") => op.pack \in Rows

\* The cache gives what was stored, keeps what was just put and holds no more
\* than it may.
CacheSound == TextAsFound /\ DiskSettled /\ PutKeeps
=============================================================================
