--------------------------- MODULE MCActionSpace ---------------------------
(* Instances of ActionSpace for TLC. *)
EXTENDS ActionSpace, TLC
CONSTANTS w1, w2, w3

\* w1 and w2 belong to one application, w3 to another.
Apps == [w \in Window |-> IF w = w3 THEN "other" ELSE "app"]
=============================================================================
