------------------------------ MODULE MCCostFetch ------------------------------
EXTENDS CostFetch

Providers == (1 :> "claude") @@ (2 :> "claude") @@ (3 :> "codex") @@ (4 :> "claude")

Use(k, d) == [kind |-> "usage", key |-> k, at |-> d]
Cx(kind, k, d) == [kind |-> kind, key |-> k, at |-> d]
Huge == [kind |-> "huge", key |-> 1, at |-> 1]

Setting(ps, home, lines, most, failures) ==
    [providers |-> ps, home |-> home, lines |-> lines, writes |-> most, faults |-> failures]

(* Two Claude files, more than one scan may read and at the limit of the   *)
(* records in all; a Claude file that is written and rewritten; a Codex    *)
(* session; more files than are cached; more files than are walked; a line *)
(* that is too long; a T3 server of another host, alone and beside two     *)
(* files; a T3 server of the folder scanned here.                          *)
TwoFiles  == Setting({"claude"}, "none", (1 :> <<Use(1, 1), Use(1, 1), Use(2, 1), Use(2, 1)>>)
                                         @@ (2 :> <<Use(1, 1), Use(1, 1)>>), 1, 1)
OneFile   == Setting({"claude"}, "none", 1 :> <<Use(1, 0)>>, 2, 1)
Codex     == Setting({"codex"}, "none", 3 :> <<Cx("meta", 1, 1), Cx("context", 1, 1), Cx("count", 1, 1)>>,
                     2, 0)
Many      == Setting({"claude", "codex"}, "none",
                     (1 :> <<Use(1, 1)>>) @@ (2 :> <<Use(1, 0)>>)
                     @@ (3 :> <<Cx("count", 1, 1)>>) @@ (4 :> <<Use(1, 1)>>), 0, 0)
Walked    == Setting({"claude"}, "none", (1 :> <<Use(1, 1)>>) @@ (2 :> <<Use(2, 0)>>) @@ (4 :> <<Use(2, 1)>>), 1, 0)
Long      == Setting({"claude"}, "none", (1 :> <<Use(1, 1)>>) @@ (2 :> <<Huge>>), 1, 0)
Elsewhere == Setting({}, "other", [f \in {} |-> <<>>], 0, 2)
Both      == Setting({"claude", "codex"}, "other", (1 :> <<Use(1, 1), Use(2, 1)>>) @@ (2 :> <<Use(1, 1)>>),
                     0, 1)
Shared    == Setting({"claude"}, "local", 1 :> <<Use(1, 0)>>, 1, 1)

AllSetups == {OneFile, TwoFiles, Codex, Many, Walked, Long, Elsewhere, Both, Shared}
================================================================================
