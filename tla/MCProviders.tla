---------------------------- MODULE MCProviders ----------------------------
(***************************************************************************)
(* Two calls to one provider of each type, with two permits of its own and *)
(* one of the origin.                                                      *)
(***************************************************************************)
EXTENDS Providers, TLC

CONSTANTS c1, c2, s1, s2

Symmetry == Permutations({c1, c2}) \cup Permutations({s1, s2})
Steps == <<1, 2>>
=============================================================================
