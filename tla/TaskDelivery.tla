---------------------------- MODULE TaskDelivery ----------------------------
(***************************************************************************)
(* How the results of finished background sub-agents reach their parent    *)
(* session (engine/src/tool/task.ts, session/task-result.ts).              *)
(*                                                                         *)
(* A result is queued for the parent; one fiber at a time, the DRAINER,    *)
(* writes what is queued as one user message, which starts a turn of the   *)
(* parent or joins the one in flight.  A write that fails is tried again   *)
(* without a turn, a few times; a write into a busy parent is CONFIRMED    *)
(* when the turn is over and queued once more if no step read it.  The     *)
(* parent's turn is SessionPrompt's loop, reduced to what it reads.        *)
(* The parent is not removed meanwhile.                                    *)
(***************************************************************************)
EXTENDS Integers, FiniteSets

CONSTANTS Results,     \* the sub-agents that finish; one result each
          Attempts,    \* DELIVERY_RETRIES + 1
          FaultKinds,  \* how a write may fail: subset of {"none", "part", "late"}
          MaxFaults,   \* bound: writes that fail
          MaxEvents    \* bound: user messages, stops and steps that end in tool calls

ASSUME BoundsAssumption ==
    /\ Attempts \in Nat \ {0}
    /\ FaultKinds \subseteq {"none", "part", "late"}
    /\ MaxFaults \in Nat /\ MaxEvents \in Nat

\* PendingResult, by identity: a re-queued result is a new object.
Items == [of : Results, again : BOOLEAN]

\* The fiber of each result's notify, and the confirmation its batch may arm.
Fibers == {"notify", "confirm"} \X Results

Draining == {"peek", "write", "join", "turn", "landed", "failed", "fallback", "retry", "standdown"}
Stages == Draining \cup {"off", "poll", "check", "done"}

VARIABLES
    queue, claimed,      \* pendingResults and draining, of this parent
    posted,              \* results handed to inject
    pc, batch, msg, busy, tries,  \* the fibers
    stored, turnless,    \* messages in the store; those known to have had no turn
    phase, window, open, lastAsst, seen, \* the parent's turn and what its steps read
    nextId, faults, events  \* MessageID.ascending; what the bounds count

fiberVars == << pc, batch, msg, busy, tries >>
turnVars  == << phase, window, open, lastAsst, seen >>
vars == << queue, claimed, posted, fiberVars, stored, turnless, turnVars,
           nextId, faults, events >>

\* `whole`: the text part was written, not only the message row.
\* `busy`: what the writer had been told of the parent.
Messages == [id : Nat, items : SUBSET Items, whole : BOOLEAN, busy : BOOLEAN]

FiberTypes ==
    /\ pc \in [Fibers -> Stages]
    /\ batch \in [Fibers -> SUBSET Items]
    /\ msg \in [Fibers -> Nat]
    /\ tries \in [Fibers -> 0..Attempts]

StoreTypes ==
    /\ queue \subseteq Items /\ posted \subseteq Results
    /\ stored \subseteq Messages /\ turnless \subseteq Nat
    /\ phase \in {"idle", "top", "read", "step", "ending"}
    /\ window \subseteq Nat /\ lastAsst \in Nat /\ seen \subseteq Nat
    /\ nextId \in Nat /\ faults \in Nat /\ events \in Nat

FlagTypes == claimed \in BOOLEAN /\ open \in BOOLEAN /\ busy \in [Fibers -> BOOLEAN]

TypeOK == FiberTypes /\ StoreTypes /\ FlagTypes

Init ==
    /\ queue = {} /\ claimed = FALSE
    /\ posted = {}
    /\ pc = [f \in Fibers |-> "off"]
    /\ batch = [f \in Fibers |-> {}]
    /\ msg = [f \in Fibers |-> 0]
    /\ busy = [f \in Fibers |-> FALSE]
    /\ tries = [f \in Fibers |-> 0]
    /\ stored = {} /\ turnless = {}
    /\ phase = "idle" /\ window = {} /\ open = FALSE
    /\ lastAsst = 0 /\ seen = {}
    /\ nextId = 1 /\ faults = 0 /\ events = 0

----------------------------------------------------------------------------
(* The parent's turn *)

Ids == {m.id : m \in stored}

\* Every caller that waits on the turn gets its outcome: success, or the
\* failure of the loop.
Answer(outcome) == [f \in Fibers |-> IF pc[f] = "turn" THEN outcome ELSE pc[f]]

EndTurn(outcome) ==
    /\ phase' = "idle" /\ window' = {}
    /\ pc' = Answer(outcome)

\* Bounded: what the user and the model do to the turn.
Happens == events < MaxEvents /\ events' = events + 1

UserMessage == [id |-> nextId, items |-> {}, whole |-> TRUE, busy |-> FALSE]

Prompt ==
    /\ Happens
    /\ stored' = stored \cup {UserMessage}
    /\ nextId' = nextId + 1
    /\ phase' = IF phase = "idle" THEN "top" ELSE phase
    /\ UNCHANGED << queue, claimed, posted, fiberVars, turnless, window, open,
                    lastAsst, seen, faults >>

(* The top of the loop reads the messages.  It leaves when the newest        *)
(* message of a user is older than the newest assistant's, ids compared, and *)
(* that one is a finished answer: not one that ended in tool calls or never. *)
Read ==
    /\ phase = "top"
    /\ IF ~open /\ \A i \in Ids : i < lastAsst
       THEN phase' = "ending" /\ window' = {}
       ELSE phase' = "read" /\ window' = Ids
    /\ UNCHANGED << queue, claimed, posted, fiberVars, stored, turnless, open,
                    lastAsst, seen, nextId, faults, events >>

(* The step's assistant message gets its id, and the model what was read.   *)
(* `open`: it is no finished answer.                                         *)
Step ==
    /\ phase = "read"
    /\ phase' = "step" /\ window' = {}
    /\ lastAsst' = nextId /\ nextId' = nextId + 1 /\ open' = TRUE
    /\ seen' = seen \cup window
    /\ UNCHANGED << queue, claimed, posted, fiberVars, stored, turnless, faults, events >>

StepEnds ==
    /\ phase = "step" /\ phase' = "top"
    /\ \/ open' = FALSE /\ events' = events
       \/ open' = TRUE /\ Happens
    /\ UNCHANGED << queue, claimed, posted, fiberVars, stored, turnless, window,
                    lastAsst, seen, nextId, faults >>

TurnEnds ==
    /\ phase = "ending"
    /\ EndTurn("landed")
    /\ UNCHANGED << queue, claimed, posted, batch, msg, busy, tries, stored, turnless,
                    open, lastAsst, seen, nextId, faults, events >>

(* A stop, or a step that ends the turn itself (a refusal, an error of the   *)
(* model), answers the callers with the last assistant message.              *)
Stop ==
    /\ phase # "idle" /\ Happens
    /\ EndTurn("landed")
    /\ UNCHANGED << queue, claimed, posted, batch, msg, busy, tries, stored, turnless,
                    open, lastAsst, seen, nextId, faults >>

\* The loop dies: a model that is not there, a store that fails.
TurnFails ==
    /\ phase \in {"top", "read", "step"}
    /\ faults < MaxFaults /\ faults' = faults + 1
    /\ EndTurn("failed")
    /\ UNCHANGED << queue, claimed, posted, batch, msg, busy, tries, stored, turnless,
                    open, lastAsst, seen, nextId, events >>

----------------------------------------------------------------------------
(* The queue of results and the drainer *)

Become(f, stage) == pc' = [pc EXCEPT ![f] = stage]

\* The bug of a result that always starts a drainer.
ClaimsAnyway == TRUE

\* claimDrainer: one drainer per parent.
Claims == ~claimed

NewResult(r) == [of |-> r, again |-> FALSE]

(* A finished sub-agent's result is queued; its fiber drains unless another  *)
(* fiber does already.                                                       *)
Post(r) ==
    /\ r \notin posted
    /\ posted' = posted \cup {r}
    /\ queue' = queue \cup {NewResult(r)}
    /\ Become(<< "notify", r >>, IF Claims THEN "peek" ELSE "done")
    /\ claimed' = TRUE
    /\ UNCHANGED << batch, msg, busy, tries, stored, turnless, turnVars, nextId,
                    faults, events >>

(* deliver, up to its write: is the parent busy, and the message's id.       *)
Prepare(f, items) ==
    /\ Become(f, "write")
    /\ batch' = [batch EXCEPT ![f] = items]
    /\ busy' = [busy EXCEPT ![f] = phase # "idle"]
    /\ msg' = [msg EXCEPT ![f] = nextId]
    /\ nextId' = nextId + 1

Peek(f) ==
    /\ pc[f] = "peek" /\ queue # {}
    /\ Prepare(f, queue)
    /\ tries' = [tries EXCEPT ![f] = 1]
    /\ UNCHANGED << queue, claimed, posted, stored, turnless, turnVars, faults, events >>

\* The bug of a drainer that leaves with its claim.
KeepsClaim(f) == UNCHANGED claimed /\ Become(f, "done")

\* releaseDrainer, called by `drain` and at once again by the `ensuring` around it.
Release(f) == claimed' = FALSE /\ Become(f, "done")

PeekNothing(f) ==
    /\ pc[f] = "peek" /\ queue = {}
    /\ Release(f)
    /\ UNCHANGED << queue, posted, batch, msg, busy, tries, stored, turnless, turnVars,
                    nextId, faults, events >>

StandDown(f) ==
    /\ pc[f] = "standdown"
    /\ Release(f)
    /\ UNCHANGED << queue, posted, batch, msg, busy, tries, stored, turnless, turnVars,
                    nextId, faults, events >>

Message(f, whole) ==
    [id |-> msg[f], items |-> batch[f], whole |-> whole, busy |-> busy[f]]

(* A write that fails leaves nothing, the message row without its part, or   *)
(* the whole message (the touch after it failed).                            *)
Left(f, kind) == IF kind = "none" THEN {} ELSE {Message(f, kind = "late")}

Write(f) ==
    /\ pc[f] = "write"
    /\ \/ /\ stored' = stored \cup {Message(f, TRUE)}
          /\ Become(f, "join") /\ faults' = faults
       \/ /\ faults < MaxFaults /\ faults' = faults + 1
          /\ \E kind \in FaultKinds : stored' = stored \cup Left(f, kind)
          /\ Become(f, "failed")
    /\ UNCHANGED << queue, claimed, posted, batch, msg, busy, tries, turnless, turnVars, nextId,
                    events >>

(* prompt goes on to the loop, which starts a turn or joins the running one. *)
Join(f) ==
    /\ pc[f] = "join"
    /\ Become(f, "turn")
    /\ phase' = IF phase = "idle" THEN "top" ELSE phase
    /\ UNCHANGED << queue, claimed, posted, batch, msg, busy, tries, stored, turnless,
                    window, open, lastAsst, seen, nextId, faults, events >>

\* The bugs of a drop that clears what was queued in the meantime, too, and of
\* one that looks for copies of what it wrote and finds none.
DropAll(items) == {}
DropCopies(items) == queue

\* dropResults: exactly what was written leaves the queue.
Drop(items) == queue \ items

Fresh(f) == \A i \in batch[f] : ~i.again

\* A write that joined a running turn is confirmed, once.
Confirms(f) == busy[f] /\ Fresh(f)

\* The confirmation takes the fiber of a result it confirms, which is free: a
\* fresh result lands once.
Landed(f) ==
    /\ pc[f] = "landed"
    /\ queue' = Drop(batch[f])
    /\ IF Confirms(f)
       THEN \E i \in batch[f] : LET c == << "confirm", i.of >> IN
              /\ pc[c] \in {"off", "done"}
              /\ pc' = [pc EXCEPT ![f] = "peek", ![c] = "poll"]
              /\ batch' = [batch EXCEPT ![f] = {}, ![c] = batch[f]]
              /\ msg' = [msg EXCEPT ![f] = 0, ![c] = msg[f]]
       ELSE /\ Become(f, "peek")
            /\ batch' = [batch EXCEPT ![f] = {}]
            /\ msg' = [msg EXCEPT ![f] = 0]
    /\ busy' = [busy EXCEPT ![f] = FALSE]
    /\ tries' = [tries EXCEPT ![f] = 0]
    /\ UNCHANGED << claimed, posted, stored, turnless, turnVars, nextId, faults, events >>

\* The writer's locals go when its batch is done with.
Settled(f) ==
    /\ Become(f, "peek")
    /\ batch' = [batch EXCEPT ![f] = {}]
    /\ msg' = [msg EXCEPT ![f] = 0]
    /\ busy' = [busy EXCEPT ![f] = FALSE]
    /\ tries' = [tries EXCEPT ![f] = 0]

\* `injected`: is the message in the store, whatever its turn did?
Injected(f) == msg[f] \in Ids

Failed(f) ==
    /\ pc[f] = "failed"
    /\ IF Injected(f)
       THEN /\ queue' = Drop(batch[f])
            /\ turnless' = turnless \cup {msg[f]}
            /\ Settled(f)
            /\ UNCHANGED nextId
       ELSE /\ Become(f, "fallback")
            /\ msg' = [msg EXCEPT ![f] = nextId] /\ nextId' = nextId + 1
            /\ UNCHANGED << queue, turnless, batch, busy, tries >>
    /\ UNCHANGED << claimed, posted, stored, turnVars, faults, events >>

(* The write without a turn.                                                 *)
FallbackLands(f) ==
    /\ pc[f] = "fallback"
    /\ stored' = stored \cup {Message(f, TRUE)}
    /\ queue' = Drop(batch[f])
    /\ turnless' = turnless \cup {msg[f]}
    /\ Settled(f)
    /\ UNCHANGED << claimed, posted, turnVars, nextId, faults, events >>

\* The bug of no retry at all.
NeverAgain(f) == FALSE

\* DELIVERY_RETRY
Again(f) == tries[f] < Attempts

FallbackFails(f) ==
    /\ pc[f] = "fallback"
    /\ faults < MaxFaults /\ faults' = faults + 1
    /\ \E kind \in FaultKinds : stored' = stored \cup Left(f, kind)
    /\ turnless' = turnless \cup {msg[f]}
    /\ Become(f, IF Again(f) THEN "retry" ELSE "standdown")
    /\ UNCHANGED << queue, claimed, posted, batch, msg, busy, tries, turnVars,
                    nextId, events >>

Retry(f) ==
    /\ pc[f] = "retry"
    /\ Prepare(f, batch[f])
    /\ tries' = [tries EXCEPT ![f] = @ + 1]
    /\ UNCHANGED << queue, claimed, posted, stored, turnless, turnVars, faults, events >>

----------------------------------------------------------------------------
(* The confirmation *)

SeesIdle(c) ==
    /\ pc[c] = "poll" /\ phase = "idle"
    /\ Become(c, "check")
    /\ UNCHANGED << queue, claimed, posted, batch, msg, busy, tries, stored, turnless,
                    turnVars, nextId, faults, events >>

(* IDLE_POLL_LIMIT polls, a minute, found the parent busy: by then the turn  *)
(* has read its messages.                                                    *)
GivesUp(c) ==
    /\ pc[c] = "poll" /\ phase \in {"step", "ending"}
    /\ Become(c, "done")
    /\ batch' = [batch EXCEPT ![c] = {}]
    /\ msg' = [msg EXCEPT ![c] = 0]
    /\ UNCHANGED << queue, claimed, posted, busy, tries, stored, turnless, turnVars,
                    nextId, faults, events >>

\* The bug of taking any reply for an answer.
AnyReply(c) == lastAsst > 0

\* The re-queued result: a new object with its flag set.
Redelivered(i) == [of |-> i.of, again |-> TRUE]

\* `consumed`: a newer assistant message is taken for a step that read ours.
Consumed(c) == lastAsst > msg[c]

Check(c) ==
    /\ pc[c] = "check"
    /\ IF Consumed(c)
       THEN Become(c, "done") /\ UNCHANGED << queue, claimed >>
       ELSE /\ queue' = queue \cup {Redelivered(i) : i \in batch[c]}
            /\ Become(c, IF Claims THEN "peek" ELSE "done")
            /\ claimed' = TRUE
    /\ batch' = [batch EXCEPT ![c] = {}]
    /\ msg' = [msg EXCEPT ![c] = 0]
    /\ UNCHANGED << posted, busy, tries, stored, turnless, turnVars, nextId, faults,
                    events >>

----------------------------------------------------------------------------

Drain(f) ==
    \/ Peek(f) \/ PeekNothing(f) \/ StandDown(f)
    \/ Write(f) \/ Join(f) \/ Landed(f) \/ Failed(f)
    \/ FallbackLands(f) \/ FallbackFails(f) \/ Retry(f)
Confirm(f) == SeesIdle(f) \/ GivesUp(f) \/ Check(f)
Turn == Read \/ Step \/ StepEnds \/ TurnEnds

System == Turn \/ \E f \in Fibers : Drain(f) \/ Confirm(f)

Next ==
    \/ Prompt \/ Stop \/ TurnFails \/ System
    \/ \E r \in Results : Post(r)

Spec == Init /\ [][Next]_vars

(* Fibers that can run are run, timers fire, and a turn goes on: its model   *)
(* answers.  Within the bounds these are finitely many steps, so none of     *)
(* them is put off for ever.                                                 *)
FairSpec == Spec /\ WF_vars(System)

----------------------------------------------------------------------------

Drainers == {f \in Fibers : pc[f] \in Draining}

(* One fiber drains a parent, and only while it holds the claim; a claim     *)
(* nobody works under would strand every later result.                       *)
OneDrainer ==
    /\ \A f, g \in Drainers : f = g
    /\ claimed <=> Drainers # {}

Holds(m, r) == m.whole /\ \E i \in m.items : i.of = r

(* "A write that fails is loud and the result survives it" (task.ts:727): a  *)
(* result is queued until a message with its text is in the store.           *)
ResultsSurvive ==
    \A r \in posted : (\E i \in queue : i.of = r) \/ (\E m \in stored : Holds(m, r))

(* Results wait with nobody to write them only after a drainer has spent all *)
(* its attempts, each of which failed at both of its writes.                 *)
LeftQueuedOnlyAfterRetries ==
    queue # {} /\ ~claimed => faults >= 2 * Attempts

Quiet == phase = "idle" /\ \A f \in Fibers : pc[f] \in {"off", "done"}

WrittenAfter(m, r) == \E n \in stored : n.id > m.id /\ Holds(n, r)

(* "ONE re-delivery for a batch written into a running turn and never read": *)
(* what was written into a busy parent is read, or older than the newest     *)
(* reply, or written once more.                                              *)
BusyWritesAreFollowedUp ==
    Quiet =>
        \A m \in stored : m.busy /\ m.items # {} /\ m.id \notin turnless =>
            \/ m.id \in seen \/ m.id < lastAsst
            \/ \E i \in m.items : \/ i.again \/ WrittenAfter(m, i.of)
                                 \/ Redelivered(i) \in queue

(* A re-delivery is the last: a result is in the store twice at most, and    *)
(* once more for each write that failed after it had landed.                 *)
WrittenTwiceAtMost ==
    \A r \in Results : Cardinality({m \in stored : Holds(m, r)}) <= 2 + faults

(* Every result is written at last, unless its writes keep failing.          *)
EveryResultIsWritten ==
    \A r \in Results :
        r \in posted ~> \/ \E m \in stored : Holds(m, r)
                        \/ faults >= 2 * Attempts

=============================================================================
