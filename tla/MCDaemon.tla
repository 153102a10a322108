------------------------------ MODULE MCDaemon ------------------------------
(***************************************************************************)
(* A breaker that trips at two and two slots for searches, checked in one  *)
(* run with three searches and no scan, so that one is due while two are   *)
(* blocked, and with one search beside a scan.                             *)
(***************************************************************************)
EXTENDS Daemon

CONSTANTS j1, j2, j3

MCInit == Init /\ Due \in {Jobs, {j1}}

MCNext == Next /\ (UNCHANGED run \/ (job[j2] = "cut" /\ job[j3] = "cut"))

MCSpec == MCInit /\ [][MCNext]_vars /\ Fairness

=============================================================================
