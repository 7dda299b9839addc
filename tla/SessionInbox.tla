---------------------------- MODULE SessionInbox ----------------------------
(***************************************************************************)
(* What a V2 session promises about its inbox, whoever reads it: a prompt  *)
(* is admitted once and never dropped, and becomes visible once, in the    *)
(* order of its kind; a queued prompt never becomes visible while the one  *)
(* before it still waits for its provider turn.  SessionDrain implements   *)
(* this.                                                                   *)
(***************************************************************************)
EXTENDS Integers

CONSTANTS Prompts,  \* message ids
          None      \* the row of an id nobody admitted

VARIABLES seq,      \* admissions so far
          row,      \* session_input, by message id
          visible,  \* the ids promoted into the history
          opening   \* a queued prompt was promoted and no turn has run since

vars == << seq, row, visible, opening >>

Rows == [seq : Nat, delivery : {"steer", "queue"}]

TypeOK ==
    /\ seq \in Nat
    /\ row \in [Prompts -> Rows \cup {None}]
    /\ visible \subseteq Prompts
    /\ opening \in BOOLEAN

Init ==
    /\ seq = 0
    /\ row = [p \in Prompts |-> None]
    /\ visible = {}
    /\ opening = FALSE

Waiting(p, kind) ==
    row[p] # None /\ p \notin visible /\ row[p].delivery = kind

\* Nothing of its kind was admitted before it and still waits.
Oldest(p, kind) ==
    /\ Waiting(p, kind)
    /\ \A q \in Prompts : Waiting(q, kind) => row[p].seq <= row[q].seq

Admit(p, kind) ==
    /\ row[p] = None
    /\ seq' = seq + 1
    /\ row' = [row EXCEPT ![p] = [seq |-> seq + 1, delivery |-> kind]]
    /\ UNCHANGED << visible, opening >>

Steer(p) ==
    /\ Oldest(p, "steer")
    /\ visible' = visible \cup {p}
    /\ UNCHANGED << seq, row, opening >>

Open(p) ==
    /\ ~opening
    /\ Oldest(p, "queue")
    /\ visible' = visible \cup {p}
    /\ opening' = TRUE
    /\ UNCHANGED << seq, row >>

\* The turn ran, or the drain stopped before it.
Close ==
    /\ opening' = FALSE
    /\ UNCHANGED << seq, row, visible >>

Next ==
    \/ \E p \in Prompts, kind \in {"steer", "queue"} : Admit(p, kind)
    \/ \E p \in Prompts : Steer(p) \/ Open(p)
    \/ Close

Spec == Init /\ [][Next]_vars
=============================================================================
