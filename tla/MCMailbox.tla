------------------------------ MODULE MCMailbox ------------------------------
(* Instances of Mailbox for TLC: one message, with its two copies and the two *)
(* files each may have.                                                       *)
EXTENDS Mailbox, TLC

CONSTANTS m1, r1, r2

\* The drains differ in nothing but their names: r2 starts only beside r1.
DrainsInOrder == at[r1] = "off" /\ at[r2] = "off" => at'[r2] = "off"

\* Bound: once a sender gave up its POST, there is one drain at a time and no sweep.
FewReaders == unheard # {} => at[r2] = "off" /\ sweep.at = "off"
=============================================================================
