--------------------------- MODULE MCSessionDrain ---------------------------
(* Instances of SessionDrain for TLC: a prompt admitted without a wake, and  *)
(* a prompt sent as queued and as a steer under the same id.                 *)
EXTENDS SessionDrain, TLC

CONSTANTS p, q, s1, s2, s3, r1, k1, k2, none

Last == s3 :> [id |-> q, delivery |-> "steer", resume |-> TRUE]

Kinds ==
    Last @@ (s1 :> [id |-> p, delivery |-> "queue", resume |-> FALSE])
         @@ (s2 :> [id |-> q, delivery |-> "queue", resume |-> TRUE])
=============================================================================
