--------------------------- MODULE MCAcquisition ---------------------------
(***************************************************************************)
(* One language with two preferred providers and a fallback: a season pack *)
(* with two versions of the episode that LAPSE may exit on, a subtitle     *)
(* with the same score that LAPSE or the installer may refuse, an exact    *)
(* match, and a fallback subtitle that scores higher.                      *)
(***************************************************************************)
EXTENDS Acquisition

CONSTANTS p, q, f, k, e, x, d

Offer == [c \in {k, e, x, d} |-> CASE c = k -> p [] c = e -> p [] c = x -> q [] c = d -> f]
Scores == [c \in {k, e, x, d} |-> CASE c = x -> 5 [] c = d -> 4 [] c = e -> 2 [] c = k -> 2]
Sizes == [c \in {k, e, x, d} |-> IF c = k THEN 2 ELSE 1]
KindsOf == [c \in {k, e, x, d} |-> CASE c = k -> {"fits", "crash"} [] c = e -> {"fits", "invalid", "off"}
                                     [] c = x -> {"fits", "invalid"} [] c = d -> {"fits"}]
=============================================================================
