----------------------------- MODULE MCLibrary ------------------------------
(***************************************************************************)
(* Two answers to what Arr does with its library, checked in one run: the  *)
(* record of an installed subtitle that follows its media file, and the    *)
(* catalog that follows Arr's events.  They share no state here: a         *)
(* behaviour moves one and leaves the other as it began.                   *)
(***************************************************************************)
EXTENDS Sidecars, CatalogEvents, TLC

CONSTANTS e1, e2, p1, p2, p3

VARIABLE topic  \* the component that moves

\* Two movies.
Movies == (e1 :> e1) @@ (e2 :> e2)

libraryVars == <<vars, catalogVars, topic>>

LibraryInit ==
    /\ topic \in {"catalog", "sidecars"}
    /\ Init /\ CatalogInit
    /\ topic = "sidecars" \/ (~carries /\ record.file # 0)

LibraryNext ==
    /\ UNCHANGED topic
    /\ \/ topic = "catalog" /\ CatalogNext /\ UNCHANGED vars
       \/ topic = "sidecars" /\ Next /\ UNCHANGED catalogVars

LibrarySpec == LibraryInit /\ [][LibraryNext]_libraryVars

Symmetry == Permutations({e1, e2}) \cup Permutations({p1, p2, p3})

=============================================================================
