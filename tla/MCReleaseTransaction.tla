------------------------ MODULE MCReleaseTransaction ------------------------
(* Instances of ReleaseTransaction for TLC. *)
EXTENDS ReleaseTransaction, TLC

CONSTANTS c1, c2

TwoClients == {c1, c2}
Symmetry == Permutations(TwoClients)

\* A migration with every release but the third.
Schemas == [v \in Versions |-> IF v <= 2 THEN v ELSE v - 1]

=============================================================================
