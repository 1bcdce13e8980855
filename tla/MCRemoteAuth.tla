---------------------------- MODULE MCRemoteAuth ----------------------------
(* Instances of RemoteAuth for TLC. *)
EXTENDS RemoteAuth, TLC

CONSTANTS t1, t2, t3, j1, j2, j3, j4, u1, u2

ThreeThreads == {t1, t2, t3}
FourJars == {j1, j2, j3, j4}
TwoUrls == {u1, u2}
OneOpen == {u2}
Symmetry == Permutations(ThreeThreads)

=============================================================================
