---------------------------- MODULE SessionTurns ----------------------------
(***************************************************************************)
(* What a session promises whoever prompts it, runs a shell command in it  *)
(* or stops it.  Works take turns on a lane: one holds it, one prompt may  *)
(* wait behind a shell.  A prompt becomes a turn or joins the one that is  *)
(* there, and its answer is what became of that turn: a result exactly     *)
(* when the body ended by itself, even beside a stop, and a cancellation   *)
(* only when a stop took the turn before its body ended, and only when     *)
(* that body is over.  TurnRunner implements this; fibers, locks, latches, *)
(* callbacks and the progress of stops are its own affair.                 *)
(***************************************************************************)

CONSTANTS Lanes, Turns, Shells, None

Works == Turns \cup Shells

VARIABLES
    run, shell,  \* each lane: its turn, at work or waiting behind its shell
    body,        \* each work: none, working, ended by itself, or cut short
    stopped,     \* the works a stop took off their lane
    asks,        \* each prompt: the turn it waits for
    answer       \* each turn's answer, for all who wait for it

vars == << run, shell, body, stopped, asks, answer >>

Free(l) == run[l] = None /\ shell[l] = None

Init ==
    /\ run = [l \in Lanes |-> None] /\ shell = [l \in Lanes |-> None]
    /\ body = [w \in Works |-> "none"] /\ stopped = {}
    /\ asks = [t \in Turns |-> None] /\ answer = [t \in Turns |-> "unset"]

\* A prompt finds its lane free, or held by a shell, or by a turn.
Prompt(t, l) ==
    /\ asks[t] = None /\ body[t] = "none"
    /\ \/ /\ Free(l) /\ run' = [run EXCEPT ![l] = t]
          /\ asks' = [asks EXCEPT ![t] = t] /\ body' = [body EXCEPT ![t] = "working"]
       \/ /\ run[l] = None /\ shell[l] # None /\ run' = [run EXCEPT ![l] = t]
          /\ asks' = [asks EXCEPT ![t] = t] /\ UNCHANGED body
       \/ /\ run[l] # None /\ asks' = [asks EXCEPT ![t] = run[l]]
          /\ UNCHANGED << run, body >>
    /\ UNCHANGED << shell, stopped, answer >>

Command(h, l) ==
    /\ Free(l) /\ body[h] = "none"
    /\ shell' = [shell EXCEPT ![l] = h] /\ body' = [body EXCEPT ![h] = "working"]
    /\ UNCHANGED << run, stopped, asks, answer >>

\* A stop takes all there is on a lane.
Stop(l) ==
    /\ stopped' = stopped \cup ({run[l], shell[l]} \ {None})
    /\ run' = [run EXCEPT ![l] = None] /\ shell' = [shell EXCEPT ![l] = None]
    /\ UNCHANGED << body, asks, answer >>

End(w) ==
    /\ body[w] = "working" /\ body' = [body EXCEPT ![w] = "ended"]
    /\ UNCHANGED << run, shell, stopped, asks, answer >>

Cut(w) ==
    /\ body[w] = "working" /\ w \in stopped /\ body' = [body EXCEPT ![w] = "cut"]
    /\ UNCHANGED << run, shell, stopped, asks, answer >>

\* A work that ended leaves its lane; behind a shell its prompt's turn begins.
Leave(t, l) ==
    /\ run[l] = t /\ body[t] = "ended" /\ run' = [run EXCEPT ![l] = None]
    /\ UNCHANGED << shell, body, stopped, asks, answer >>

LeaveShell(h, l) ==
    /\ shell[l] = h /\ body[h] = "ended" /\ shell' = [shell EXCEPT ![l] = None]
    /\ body' = [w \in Works |-> IF w = run[l] THEN "working" ELSE body[w]]
    /\ UNCHANGED << run, stopped, asks, answer >>

Answer(t) ==
    /\ answer[t] = "unset"
    /\ \/ body[t] = "ended" /\ answer' = [answer EXCEPT ![t] = "result"]
       \/ /\ t \in stopped /\ body[t] \in {"none", "cut"}
          /\ answer' = [answer EXCEPT ![t] = "cancelled"]
    /\ UNCHANGED << run, shell, body, stopped, asks >>

Next ==
    \/ \E l \in Lanes : \/ \E t \in Turns : Prompt(t, l) \/ Leave(t, l)
                        \/ \E h \in Shells : Command(h, l) \/ LeaveShell(h, l)
                        \/ Stop(l)
    \/ \E w \in Works : End(w) \/ Cut(w)
    \/ \E t \in Turns : Answer(t)

Spec == Init /\ [][Next]_vars
=============================================================================
