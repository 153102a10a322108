-------------------------- MODULE ManagedSubtitle --------------------------
(***************************************************************************)
(* What installing and removing a subtitle promises, whatever happens in   *)
(* between: the subtitle beside a media file and the record of it change   *)
(* together, in one step, or not at all.  `subtitle' is what a restart     *)
(* would leave at the destination and `managed' what the installations row *)
(* says is there, each a set of at most one text.  `acts' counts what the  *)
(* owner did, so that a step of subsyncd cannot pass for one of the owner. *)
(***************************************************************************)

EXTENDS Naturals

CONSTANTS
    Texts,      \* subtitle texts that providers offer
    OwnText     \* what the owner of the library writes

VARIABLES
    subtitle,   \* the text at the destination once interrupted work is settled
    managed,    \* the text of the installations row
    lost,       \* the owner deleted the subtitle and none was recorded since
    acts        \* how many times the owner wrote, edited or deleted the file

vars == <<subtitle, managed, lost, acts>>

Init ==
    /\ \/ subtitle = {}
       \/ \E t \in Texts : subtitle = {t}
    /\ managed = subtitle
    /\ lost = FALSE
    /\ acts = 0

\* A subtitle is published and recorded; a file that the owner put in its
\* place meanwhile stays.
Install ==
    /\ \E t \in Texts :
          /\ managed' = {t}
          /\ subtitle' \in {{t}} \cup ({subtitle} \cap {{OwnText}})
    /\ lost' = FALSE
    /\ UNCHANGED acts

\* The managed subtitle goes with its record; the owner's file never goes.
Remove ==
    /\ managed # {} /\ managed' = {}
    /\ subtitle' = IF subtitle = {OwnText} THEN subtitle ELSE {}
    /\ UNCHANGED <<lost, acts>>

\* The owner writes, edits or deletes the file, which may uncover the managed
\* subtitle that a removal has moved aside.  Only these steps count as the
\* owner's, and no other may take the subtitle away from under its record.
Owner ==
    /\ acts' = acts + 1
    /\ subtitle' \in {{OwnText}, {}, managed}
    /\ lost' \in {lost, TRUE}
    /\ UNCHANGED managed

\* A subtitle that the owner deleted comes back with the recorded text, or
\* goes again, before a new record says so.
Reinstate ==
    /\ lost /\ subtitle # {OwnText}
    /\ subtitle' \in {{}, managed}
    /\ UNCHANGED <<managed, lost, acts>>

Next == Install \/ Remove \/ Owner \/ Reinstate

Spec == Init /\ [][Next]_vars

=============================================================================
