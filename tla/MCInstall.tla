----------------------------- MODULE MCInstall -----------------------------
(* Instances of Install for model checking: runs and texts are               *)
(* interchangeable.                                                         *)
EXTENDS Install, TLC

Symmetry == Permutations(Runs) \cup Permutations(Texts)

=============================================================================
