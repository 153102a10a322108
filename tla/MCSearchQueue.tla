--------------------------- MODULE MCSearchQueue ---------------------------
(***************************************************************************)
(* Small instances of SearchQueue for TLC.  Job ids are interchangeable    *)
(* within the worker's and within the manual searches', and so are         *)
(* languages: no action orders them.                                       *)
(***************************************************************************)
EXTENDS SearchQueue, TLC

Symmetry == Permutations(WorkerJobs) \cup Permutations(ManualJobs)
                \cup Permutations(Languages)

=============================================================================
