---------------------------- MODULE MCUpdateRun ----------------------------
(* Instances of UpdateRun for TLC. *)
EXTENDS UpdateRun, TLC

CONSTANTS c1, c2

MCClients == {c1, c2}
Symmetry == Permutations(MCClients)

(* A package update: one phase between two stopping points. *)
PackagesOnly == [packages |-> TRUE, firmware |-> FALSE, full |-> FALSE,
                 tests |-> FALSE, release |-> FALSE]
Short == {PackagesOnly}

(* Every phase. *)
Everything == [packages |-> TRUE, firmware |-> TRUE, full |-> TRUE,
               tests |-> TRUE, release |-> TRUE]
Long == {Everything}

=============================================================================
