--------------------------- MODULE MCHermesLocal ---------------------------
(* Instances of HermesLocal for TLC. *)
EXTENDS HermesLocal, TLC

CONSTANTS c1, k1

OneConversation == {c1}
OneClient == {k1}

=============================================================================
