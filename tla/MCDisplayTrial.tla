--------------------------- MODULE MCDisplayTrial ---------------------------
(* Instances of DisplayTrial for TLC. *)
EXTENDS DisplayTrial

CONSTANTS h1, h2

TwoHelpers == {h1, h2}

=============================================================================
