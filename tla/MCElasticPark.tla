---------------------------- MODULE MCElasticPark ----------------------------
(* Instances of ElasticPark for TLC: two prompts, an interjection and a call. *)
EXTENDS ElasticPark, TLC

CONSTANTS p, q, i, c

Mixed == (p :> "prompt") @@ (q :> "prompt") @@ (i :> "follow") @@ (c :> "call")

\* The two prompts differ in nothing but their order: q is the later one.
PromptsInOrder == came[q] # 0 => came[p] # 0 /\ came[p] < came[q]
=============================================================================
