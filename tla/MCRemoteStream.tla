--------------------------- MODULE MCRemoteStream ---------------------------
(* Instances of RemoteStream for TLC. *)
EXTENDS RemoteStream

CONSTANTS h1, h2

TwoHandlers == {h1, h2}
Symmetry == Permutations(TwoHandlers)

AllOps == {"upload", "submit", "compress", "revision", "truncate", "status",
           "history", "refresh", "respond", "delete", "interrupt", "turn", "logout"}
Brief == {"token", "ask", "done", "end"}

=============================================================================
