---------------------------- MODULE MCUserPlugins ----------------------------
(* Instances of UserPlugins for TLC. *)
EXTENDS UserPlugins, TLC

CONSTANTS p1, p2

TwoProcs == {p1, p2}
Symmetry == Permutations(TwoProcs)

=============================================================================
