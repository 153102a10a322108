-------------------------- MODULE MCNotifications --------------------------
(***************************************************************************)
(* An instance of Notifications for TLC: one directory that Silo scans,    *)
(* with two subtitles, and one series that Arr rescans.                    *)
(***************************************************************************)
EXTENDS Notifications, TLC

CONSTANTS silo, arr, c0, c1, c2

TwoSubtitles == {<<silo, c1>>, <<silo, c2>>, <<arr, c0>>}

\* The two subtitles differ only in identity.
Subtitles == Permutations({c1, c2})

=============================================================================
