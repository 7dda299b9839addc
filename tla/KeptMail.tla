------------------------------ MODULE KeptMail ------------------------------
(***************************************************************************)
(* What the mailbox of a parked chat promises of each message, whoever     *)
(* reads, takes back or sweeps it: it is read at most once, a message its  *)
(* sender was refused is never read, and one its sender was told is        *)
(* delivered was kept or read.  Mailbox implements this for each of the    *)
(* two copies of a message: what is POSTed, and what its sender keeps.     *)
(***************************************************************************)
CONSTANTS Mail  \* messages

VARIABLES fate,  \* what became of each message
          told   \* what its sender was told

vars == << fate, told >>

Fates   == {"unsent", "kept", "read", "back", "lost"}
Answers == {"nothing", "delivered", "refused"}

TypeOK == fate \in [Mail -> Fates] /\ told \in [Mail -> Answers]

Init ==
    /\ fate = [m \in Mail |-> "unsent"]
    /\ told = [m \in Mail |-> "nothing"]

\* Messages move on, several at once when an engine dies with them in hand.
Moves == {<< "unsent", "kept" >>, << "unsent", "read" >>, << "kept", "read" >>,
          << "kept", "back" >>, << "kept", "lost" >>}

Tells ==
    {<< "unsent", "refused" >>, << "back", "refused" >>} \cup ({"kept", "read", "lost"} \X {"delivered"})

\* What a sender was told is final, and a refused message stays where it is.
Step ==
    /\ fate' \in [Mail -> Fates] /\ told' \in [Mail -> Answers]
    /\ \A m \in Mail : fate'[m] # fate[m] =>
           << fate[m], fate'[m] >> \in Moves /\ told[m] # "refused"
    /\ \A m \in Mail : told'[m] # told[m] =>
           told[m] = "nothing" /\ << fate'[m], told'[m] >> \in Tells

Spec == Init /\ [][Step]_vars
=============================================================================
