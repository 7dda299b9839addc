--------------------------- MODULE MCSubagentTree ---------------------------
(* Instances of SubagentTree for TLC: small trees of sub-agents. *)
EXTENDS SubagentTree, TLC

CONSTANTS chat, a, b

Pair == (a :> chat) @@ (b :> a)
One  == (a :> chat)
=============================================================================
