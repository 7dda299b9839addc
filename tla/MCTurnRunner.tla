---------------------------- MODULE MCTurnRunner ----------------------------
(* Instances of TurnRunner for TLC. *)
EXTENDS TurnRunner, TLC

CONSTANTS r1, r2, r3, t1, t2, t3, h1, c1, c2

Symmetry == Permutations(Runners) \cup Permutations(Turns) \cup Permutations(Stops)
=============================================================================
