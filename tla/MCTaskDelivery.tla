--------------------------- MODULE MCTaskDelivery ---------------------------
(* Instances of TaskDelivery for TLC: one or two sub-agents of one parent. *)
EXTENDS TaskDelivery, TLC

CONSTANTS a, b
=============================================================================
