-------------------------- MODULE MCSystemSnapshot --------------------------
(* Instances of SystemSnapshot for TLC. *)
EXTENDS SystemSnapshot, TLC

CONSTANTS c1, c2

OneProc == {c1}
TwoProcs == {c1, c2}
Symmetry == Permutations(TwoProcs)

=============================================================================
