---------------------------- MODULE MCRemoteLink ----------------------------
(* Instances of RemoteLink for TLC. *)
EXTENDS RemoteLink

CONSTANTS h1, h2, c1, c2

TwoHandlers == {h1, h2}
TwoConvs == {c1, c2}
OneConv == {c1}
AllOps == {"login", "status", "list", "select", "create", "branch", "delete"}

=============================================================================
