----------------------------- MODULE MCScoreboard -----------------------------
(* A small instance of Scoreboard: two windows, the longer one the 24h one; *)
(* diffs and the write share a path.                                        *)
EXTENDS Scoreboard, TLC

CONSTANT w1

NowAndBefore == <<0, 1>>

Tweets == w1 :> "tweets"

TwoFindings ==
    {[severity |-> "critical", path |-> "tweets"], [severity |-> "medium", path |-> "profile"]}
=============================================================================
