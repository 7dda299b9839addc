----------------------------- MODULE ElasticPark -----------------------------
(***************************************************************************)
(* Stopping the engine of an idle chat on purpose and starting it again on *)
(* the next use.  Three parties: the gate every piece of work of the chat  *)
(* waits at (vscode/src/dashboard/engineGate.ts), the extension's park and *)
(* restore (vscode/src/elastic/park.ts, parkHost.ts, acpClient.ts), and    *)
(* the engine, which is asked to park or unpark, may be slow, may refuse   *)
(* and may die at any time (engine/src/acp/elastic.ts,                     *)
(* origami/agent-broker.ts).                                               *)
(*                                                                         *)
(* A step of the extension is what it does without an await.  What peers   *)
(* keep in the mailbox meanwhile is the subject of Mailbox; here a peer    *)
(* starts a turn or wakes the chat.  The first start of a chat, adopted    *)
(* spares and the wording of the cards are left out, and the exit of a     *)
(* process is seen after the answers it gave.                              *)
(***************************************************************************)
EXTENDS Integers, Sequences

CONSTANTS
    Work,       \* prompts, interjections and session calls of the user, each given once
    Kind,       \* which of them each is
    MaxWork,    \* bound: how many of them are given
    MaxParks,   \* bound: attempts to park
    MaxFaults,  \* bound: crashes, failures and time limits that run out
    MaxAsides   \* bound: turns the engine starts for somebody else

Kinds == {"prompt", "follow", "call"}

ASSUME ElasticParkAssumption ==
    /\ Kind \in [Work -> Kinds]
    /\ MaxWork \in Nat /\ MaxParks \in Nat /\ MaxFaults \in Nat /\ MaxAsides \in Nat

VARIABLES
    stage, work, came, arrivals,          \* the gate; how each work got on, and when it came
    wake, closed, park, back, undo, late, \* the client's `wake`; the chat closed; parkChat; bringBack
    proc, open, flag, req, op, aside,     \* the process; the session open in it; its PARKING flag;
                                          \* the elastic requests it has yet to end; a prompt nobody gated
    missed,                               \* the last idle check passed while that prompt was accepted
    standIn,                              \* the chat's stand-in file
    parkAns, unparkAns,                   \* answers the extension received
    parks, faults, asides                 \* what the bounds count

gate    == << stage, work, came, arrivals >>
attempt == << wake, closed, park, back, undo, late >>
engine  == << proc, open, flag, req, op, aside, missed, standIn >>
answers == << parkAns, unparkAns >>
counts  == << parks, faults, asides >>
vars    == << gate, attempt, engine, answers, counts >>

Message(x) == Kind[x] # "call"
Turns(w) == {x \in Work : w[x] = "turn"}
\* The queue of the gate, in the order it came.
Waits(w) == {x \in Work : w[x] = "held"}
Restoring == back \notin {"off", "waiting"}
\* `client.pid`: the process runs and the chat has not let go of it.
Pid == proc # "none" /\ ~closed

GateTypes ==
    /\ stage \in {"starting", "ready", "failed", "stopped", "parked"}
    /\ work \in [Work -> {"new", "held", "turn", "sent", "done", "refused"}]
    /\ came \in [Work -> Nat] /\ arrivals \in Nat

AttemptTypes ==
    /\ wake \in BOOLEAN /\ closed \in BOOLEAN /\ undo \in BOOLEAN /\ late \in BOOLEAN
    /\ park \in {"off", "asked", "keeping", "stopping"}
    /\ back \in {"off", "waiting", "unparking", "restoring", "resuming", "killing", "setting"}
    /\ parkAns \in {"none", "parked", "refused", "error"} /\ unparkAns \in BOOLEAN
    /\ parks \in Nat /\ faults \in Nat /\ asides \in Nat

EngineTypes ==
    /\ proc \in {"up", "exiting", "none"}
    /\ open \in BOOLEAN /\ flag \in BOOLEAN /\ standIn \in BOOLEAN
    /\ aside \in {"none", "accepted", "running"} /\ missed \in BOOLEAN
    /\ req \in Seq({"park", "unpark", "again"})
    /\ op \in {"next", "writing", "undoing", "leaving"}

\* The engine is at a step of the request it serves.
Serving == op # "next" => req # << >> /\ (Head(req) = "park" <=> op # "leaving")

TypeOK == GateTypes /\ AttemptTypes /\ EngineTypes /\ Serving

Init ==
    /\ stage = "ready" /\ work = [x \in Work |-> "new"]
    /\ came = [x \in Work |-> 0] /\ arrivals = 0
    /\ wake = FALSE /\ closed = FALSE /\ park = "off" /\ back = "off" /\ undo = FALSE /\ late = FALSE
    /\ proc = "up" /\ open = TRUE /\ flag = FALSE /\ req = << >> /\ op = "next"
    /\ aside = "none" /\ missed = FALSE /\ standIn = FALSE
    /\ parkAns = "none" /\ unparkAns = FALSE
    /\ parks = 0 /\ faults = 0 /\ asides = 0

Fault == faults < MaxFaults /\ faults' = faults + 1 /\ UNCHANGED << parks, asides >>

(***************************************************************************)
(* The gate.                                                               *)
(***************************************************************************)

Given(w, S) == [x \in Work |->
    IF x \notin S THEN w[x] ELSE IF Kind[x] = "prompt" THEN "turn" ELSE "sent"]

\* Of what waits, an engine that is up is given a call at once, a message when the ones
\* before it may go, and an interjection only when no turn is ahead of it.
Goes(w, c, x) ==
    Message(x) =>
        \A y \in Waits(w) : Kind[y] = "follow" /\ c[y] <= c[x] =>
            /\ Turns(w) = {}
            /\ \A z \in Waits(w) : Kind[z] = "prompt" => c[z] > c[y]

\* The bug of an interjection that goes while the prompt before it still runs.
PumpAll(w, c) == work' = Given(w, Waits(w))

pump(w, c) == work' = Given(w, {x \in Waits(w) : Goes(w, c, x)})

Ready == stage' = "ready" /\ pump(work, came)

\* `start` runs the restore it was given.
Start == stage' = "starting" /\ back' = "waiting"

Puts(x, how) == [work EXCEPT ![x] = how]

\* The bug of a message that goes at once, past the ones that wait.
EnqueuePast(x) ==
    \/ stage = "stopped" /\ work' = Puts(x, "refused") /\ UNCHANGED << stage, back >>
    \/ stage = "parked" /\ Start /\ work' = Puts(x, "held")
    \/ stage = "ready" /\ work' = Given(work, {x}) /\ UNCHANGED << stage, back >>
    \/ stage \in {"starting", "failed"} /\ work' = Puts(x, "held") /\ UNCHANGED << stage, back >>

enqueue(x) ==
    \/ stage = "stopped" /\ work' = Puts(x, "refused") /\ UNCHANGED << stage, back >>
    \/ stage = "parked" /\ Start /\ work' = Puts(x, "held")
    \/ /\ stage = "ready" /\ (Message(x) => Waits(work) = {})
       /\ work' = Given(work, {x}) /\ UNCHANGED << stage, back >>
    \/ /\ stage = "ready" /\ Message(x) /\ Waits(work) # {}
       /\ pump(Puts(x, "held"), came') /\ UNCHANGED << stage, back >>
    \/ stage \in {"starting", "failed"} /\ work' = Puts(x, "held") /\ UNCHANGED << stage, back >>

Comes(x) ==
    /\ work[x] = "new" /\ ~closed
    /\ arrivals < MaxWork /\ arrivals' = arrivals + 1
    /\ came' = [came EXCEPT ![x] = arrivals + 1]
    /\ UNCHANGED << wake, closed, park, undo, late, engine, answers, counts >>

\* hold, follow or whenUp.
Give(x) == Comes(x) /\ enqueue(x)

\* A call of the client itself waits at the gate while `wake` is set, but not while the
\* restore runs: it takes the engine as it is then.
Call(x) ==
    /\ Kind[x] = "call" /\ Comes(x)
    /\ \/ wake /\ ~Restoring /\ enqueue(x)
       \/ /\ wake => Restoring
          /\ work' = Puts(x, IF Pid THEN "sent" ELSE "refused")
          /\ UNCHANGED << stage, back >>

TurnEnds(x) ==
    /\ work[x] = "turn" /\ proc = "up"
    /\ IF stage = "ready" THEN pump(Puts(x, "done"), came) ELSE work' = Puts(x, "done")
    /\ UNCHANGED << stage, came, arrivals, attempt, engine, answers, counts >>

\* The user's Stop: messages that wait are not sent, calls are.
Drop ==
    /\ \E x \in Waits(work) : Message(x)
    /\ work' = [x \in Work |-> IF x \in Waits(work) /\ Message(x) THEN "refused" ELSE work[x]]
    /\ UNCHANGED << stage, came, arrivals, attempt, engine, answers, counts >>

Retry ==
    /\ stage = "failed" /\ ~closed
    /\ Start
    /\ UNCHANGED << work, came, arrivals, wake, closed, park, undo, late, engine, answers, counts >>

\* Mail for a parked chat, a warm wake.
WakeUp ==
    /\ stage = "parked" /\ ~closed
    /\ Start
    /\ UNCHANGED << work, came, arrivals, wake, closed, park, undo, late, engine, answers, counts >>

(***************************************************************************)
(* The engine.  It serves park and unpark requests in the order they came. *)
(***************************************************************************)

\* A prompt the engine accepted does not show until its turn starts.
Busy == aside = "running" \/ Turns(work) # {}

Serves(r, step) == proc # "none" /\ req # << >> /\ Head(req) = r /\ op = step
Others == UNCHANGED << gate, attempt >>

Misses == missed' = IF flag THEN missed ELSE aside = "accepted"

\* The bug of a flag that is set only when the stand-ins are written.
BeginParkEarly ==
    /\ Serves("park", "next")
    /\ IF ~flag /\ Busy THEN parkAns' = "refused" /\ req' = Tail(req) /\ UNCHANGED << op, missed >>
       ELSE op' = "writing" /\ Misses /\ UNCHANGED << parkAns, req >>
    /\ Others /\ UNCHANGED << proc, open, flag, aside, standIn, unparkAns, counts >>

\* The idle check and the flag are one step.
BeginPark ==
    /\ Serves("park", "next")
    /\ IF ~flag /\ Busy
       THEN parkAns' = "refused" /\ req' = Tail(req) /\ UNCHANGED << op, flag, missed >>
       ELSE op' = "writing" /\ flag' = TRUE /\ Misses /\ UNCHANGED << parkAns, req >>
    /\ Others /\ UNCHANGED << proc, open, aside, standIn, unparkAns, counts >>

WriteStandIn ==
    /\ Serves("park", "writing")
    /\ \/ /\ standIn' = TRUE /\ flag' = TRUE
          /\ parkAns' = "parked" /\ req' = Tail(req) /\ op' = "next"
          /\ UNCHANGED counts
       \/ /\ Fault
          /\ op' = "undoing"
          /\ UNCHANGED << standIn, flag, parkAns, req >>
    /\ Others /\ UNCHANGED << proc, open, aside, missed, unparkAns >>

\* The engine's own unpark after a stand-in could not be written.
UndoPark ==
    /\ Serves("park", "undoing")
    /\ standIn' = FALSE /\ flag' = FALSE
    /\ parkAns' = "error" /\ req' = Tail(req) /\ op' = "next"
    /\ Others /\ UNCHANGED << proc, open, aside, missed, unparkAns, counts >>

\* The live entry is written, then the stand-in goes.
Reregister ==
    /\ \E r \in {"unpark", "again"} : Serves(r, "next")
    /\ standIn' = FALSE /\ op' = "leaving"
    /\ Others /\ UNCHANGED << proc, open, flag, req, aside, missed, answers, counts >>

\* Then the engine leaves parking.
LeaveParking ==
    /\ \E r \in {"unpark", "again"} : Serves(r, "leaving")
    /\ flag' = FALSE /\ op' = "next" /\ req' = Tail(req)
    /\ unparkAns' = IF Head(req) = "unpark" THEN TRUE ELSE unparkAns
    /\ Others /\ UNCHANGED << proc, open, aside, missed, standIn, parkAns, counts >>

\* A peer's prompt, or an interjection into no turn, is accepted; while parking it goes
\* to the mailbox.
AsideComes ==
    /\ asides < MaxAsides
    /\ proc = "up" /\ open /\ ~flag /\ aside = "none"
    /\ aside' = "accepted" /\ asides' = asides + 1
    /\ Others /\ UNCHANGED << proc, open, flag, req, op, missed, standIn, answers, parks, faults >>

\* It has stored its message and becomes a turn; it does not ask for the flag again.
AsideStarts ==
    /\ aside = "accepted" /\ aside' = "running"
    /\ Others /\ UNCHANGED << proc, open, flag, req, op, missed, standIn, answers, counts >>

\* The turn is over, or the prompt fails before it is one.
AsideEnds ==
    /\ aside # "none" /\ aside' = "none" /\ missed' = FALSE
    /\ Others /\ UNCHANGED << proc, open, flag, req, op, standIn, answers, counts >>

\* The extension has read the answers the process gave.
Read == (park = "asked" => parkAns = "none") /\ (back = "unparking" => ~unparkAns)

\* The exit handler: only an engine that was ready is a loss.
Exited ==
    /\ Read
    /\ proc' = "none" /\ open' = FALSE /\ flag' = FALSE /\ req' = << >> /\ op' = "next"
    /\ aside' = "none" /\ missed' = FALSE
    /\ LET loss == stage = "ready" /\ ~closed IN
       /\ stage' = IF loss THEN "stopped" ELSE stage
       /\ work' = [x \in Work |-> CASE work[x] = "turn" -> "done"
                                    [] work[x] = "held" /\ loss -> "refused"
                                    [] OTHER -> work[x]]
    /\ UNCHANGED << came, arrivals, wake, closed, back, undo, late, answers >>

\* The bug of a park that settles after the chat closed and leaves its stand-in.
SettlesOnly == park' = "off" /\ UNCHANGED standIn

\* The host removes the stand-in of a chat that closed meanwhile again.
Settles ==
    /\ park' = "off"
    /\ standIn' = IF closed THEN FALSE ELSE standIn

\* The stop that ends a park has its process gone.
Exit ==
    /\ proc = "exiting" /\ Exited
    /\ IF park = "stopping" THEN Settles ELSE UNCHANGED << park, standIn >>
    /\ UNCHANGED counts

Crash == proc = "up" /\ Fault /\ Exited /\ UNCHANGED << park, standIn >>

(***************************************************************************)
(* Parking.                                                                *)
(***************************************************************************)

\* The gate goes first: only a chat with no turn and nothing waiting is parked.
ParkChat ==
    /\ parks < MaxParks /\ parks' = parks + 1
    /\ ~closed /\ park = "off" /\ ~wake
    /\ stage = "ready" /\ Turns(work) = {} /\ Waits(work) = {}
    /\ stage' = "parked" /\ wake' = TRUE /\ park' = "asked" /\ undo' = FALSE /\ late' = FALSE
    /\ req' = Append(req, "park") /\ parkAns' = "none"
    /\ UNCHANGED << work, came, arrivals, closed, back >>
    /\ UNCHANGED << proc, open, flag, op, aside, missed, standIn, unparkAns, faults, asides >>

Woken == stage # "parked"

Refused ==
    /\ park = "asked" /\ parkAns = "refused"
    /\ IF Woken \/ closed THEN UNCHANGED << stage, work, wake >>
       ELSE Ready /\ wake' = FALSE
    /\ Settles
    /\ UNCHANGED << came, arrivals, closed, back, undo, late, proc, open, flag, req, op, aside, missed, answers, counts >>

\* Work that came during the ask brings the engine back, and it is unparked first.
Parked ==
    /\ park = "asked" /\ parkAns = "parked"
    /\ undo' = Woken
    /\ IF Woken \/ closed THEN Settles /\ UNCHANGED proc
       ELSE park' = "stopping" /\ proc' = "exiting" /\ UNCHANGED standIn
    /\ UNCHANGED << gate, wake, closed, back, late, open, flag, req, op, aside, missed, answers, counts >>

\* The ask failed, or its time ran out and its answer may still come.
AskFails ==
    /\ park = "asked"
    /\ \/ parkAns = "error" /\ UNCHANGED counts
       \/ parkAns = "none" /\ proc = "none" /\ UNCHANGED counts
       \/ parkAns = "none" /\ proc = "up" /\ Fault
    /\ late' = TRUE
    /\ undo' = (Woken \/ Pid)
    /\ IF Woken \/ closed \/ ~Pid THEN Settles /\ UNCHANGED << stage, back >>
       ELSE Start /\ park' = "keeping" /\ UNCHANGED standIn
    /\ UNCHANGED << work, came, arrivals, wake, closed, proc, open, flag, req, op, aside, missed, answers >>

(***************************************************************************)
(* Bringing the engine back.                                               *)
(***************************************************************************)

\* The bug of a restore that does not wait for the park request to settle.
UnparkAtOnce ==
    /\ back = "waiting"
    /\ undo' = FALSE
    /\ IF undo /\ Pid /\ proc = "up"
       THEN back' = "unparking" /\ req' = Append(req, "unpark") /\ unparkAns' = FALSE
       ELSE back' = "restoring" /\ UNCHANGED << req, unparkAns >>
    /\ UNCHANGED << gate, wake, closed, park, late >>
    /\ UNCHANGED << proc, open, flag, op, aside, missed, standIn, parkAns, counts >>

\* The bug of a restore that waits for the whole park, which waits for the restore.
UnparkLast ==
    /\ back = "waiting" /\ park = "off"
    /\ undo' = FALSE
    /\ IF undo /\ Pid /\ proc = "up"
       THEN back' = "unparking" /\ req' = Append(req, "unpark") /\ unparkAns' = FALSE
       ELSE back' = "restoring" /\ UNCHANGED << req, unparkAns >>
    /\ UNCHANGED << gate, wake, closed, park, late >>
    /\ UNCHANGED << proc, open, flag, op, aside, missed, standIn, parkAns, counts >>

\* Never before the park request settled: the unpark must not overtake it.
UnparkFirst ==
    /\ back = "waiting" /\ park # "asked"
    /\ undo' = FALSE
    /\ IF undo /\ Pid /\ proc = "up"
       THEN back' = "unparking" /\ req' = Append(req, "unpark") /\ unparkAns' = FALSE
       ELSE back' = "restoring" /\ UNCHANGED << req, unparkAns >>
    /\ UNCHANGED << gate, wake, closed, park, late >>
    /\ UNCHANGED << proc, open, flag, op, aside, missed, standIn, parkAns, counts >>

\* An engine that does not answer the unpark is stopped.  One that was told to exit is
\* killed long before a limit runs out.
Unparked ==
    /\ back = "unparking" /\ back' = "restoring"
    /\ \/ unparkAns /\ UNCHANGED << proc, counts >>
       \/ ~unparkAns /\ proc = "none" /\ UNCHANGED << proc, counts >>
       \/ ~unparkAns /\ proc = "up" /\ Fault /\ proc' = "exiting"
    /\ UNCHANGED << gate, wake, closed, park, undo, late, open, flag, req, op, aside, missed, standIn, answers >>

\* `park` waits for the restore it started.
Ends == back' = "off" /\ IF park = "keeping" THEN Settles ELSE UNCHANGED << park, standIn >>

\* A park answer that came late is undone once more.  The engine answers in order: by
\* now it came, or its process is gone.
Restored ==
    /\ Ends
    /\ Ready
    /\ wake' = FALSE
    /\ req' = IF late /\ parkAns = "parked" /\ proc = "up" THEN Append(req, "again") ELSE req
    /\ UNCHANGED << came, arrivals, closed, undo, late, proc, open, flag, op, aside, missed, answers >>

RestoreFails ==
    /\ Ends
    /\ stage' = "failed"
    /\ UNCHANGED << work, came, arrivals, wake, closed, undo, late >>
    /\ UNCHANGED << proc, open, flag, req, op, aside, missed, answers >>

\* The engine never stopped.
KeepEngine ==
    /\ back = "restoring" /\ ~closed /\ proc = "up" /\ open
    /\ Restored /\ UNCHANGED counts

\* The process that was stopped is gone first; one that was started before gets the
\* session again.
Spawn ==
    /\ back = "restoring" /\ ~closed
    /\ proc = "none" \/ (proc = "up" /\ ~open)
    /\ proc' = "up" /\ back' = "resuming"
    /\ UNCHANGED << gate, wake, closed, park, undo, late, open, flag, req, op, aside, missed, standIn, answers, counts >>

\* The engine loads the session: its entry is written and the stand-in goes.
Resume ==
    /\ back = "resuming" /\ ~closed /\ proc = "up"
    /\ open' = TRUE /\ standIn' = FALSE /\ back' = "setting"
    /\ UNCHANGED << gate, wake, closed, park, undo, late, proc, flag, req, op, aside, missed, answers, counts >>

\* An engine that does not answer its start is killed, so that Retry spawns a new one.
StopStart ==
    /\ back = "resuming" /\ ~closed /\ proc = "up" /\ Fault
    /\ proc' = "exiting" /\ back' = "killing"
    /\ UNCHANGED << gate, wake, closed, park, undo, late, open, flag, req, op, aside, missed, standIn, answers >>

SettingsMade ==
    /\ back = "setting" /\ Pid
    /\ Restored /\ UNCHANGED counts

\* The chat closed, the engine is gone or was killed, or it refuses the session or a setting.
StartFails ==
    /\ \/ back = "restoring" /\ closed /\ proc = "none" /\ UNCHANGED counts
       \/ back \in {"resuming", "setting"} /\ closed /\ UNCHANGED counts
       \/ back \in {"resuming", "setting"} /\ ~closed /\ proc = "none" /\ UNCHANGED counts
       \/ back = "killing" /\ proc = "none" /\ UNCHANGED counts
       \/ back \in {"resuming", "setting"} /\ ~closed /\ proc = "up" /\ Fault
    /\ RestoreFails

(***************************************************************************)
(* Closing the chat.                                                       *)
(***************************************************************************)

\* Not while what the restore does without waiting is still to run.
Close ==
    /\ ~(back = "waiting" /\ park # "asked") /\ ~(back = "restoring" /\ proc # "exiting")
    /\ ~closed /\ closed' = TRUE
    /\ standIn' = IF wake THEN FALSE ELSE standIn
    /\ work' = [x \in Work |-> IF x \in Waits(work) THEN "refused" ELSE work[x]]
    /\ proc' = IF proc = "up" THEN "exiting" ELSE proc
    /\ UNCHANGED << stage, came, arrivals, wake, park, back, undo, late, open, flag, req, op, aside, missed, answers, counts >>

(***************************************************************************)
(* The specification.                                                      *)
(***************************************************************************)

Serve == BeginPark \/ WriteStandIn \/ UndoPark \/ Reregister \/ LeaveParking \/ Exit
Parking == Refused \/ Parked \/ AskFails
BringBack == UnparkFirst \/ Unparked \/ KeepEngine \/ Spawn \/ Resume \/ StopStart \/ SettingsMade \/ StartFails

System == Serve \/ Parking \/ BringBack \/ AsideStarts \/ AsideEnds \/ \E x \in Work : TurnEnds(x)

Next ==
    \/ System
    \/ \E x \in Work : Give(x) \/ Call(x)
    \/ Drop \/ Retry \/ WakeUp \/ AsideComes \/ Crash \/ ParkChat \/ Close

Spec == Init /\ [][Next]_vars

\* The engine serves what it is asked, turns end, and the extension goes on; nobody
\* need give work, park, close or try again.
FairSpec == Spec /\ WF_vars(System)

(***************************************************************************)
(* Properties.                                                             *)
(***************************************************************************)

\* The stop that ends a park ends no turn of the user's, and nothing that was accepted,
\* or started, after the engine's own idle check: only a peer's prompt that the check
\* missed, accepted before it and not yet a turn, may be lost with the process.
StopEndsOnlyTheMissed ==
    park = "stopping" => Turns(work) = {} /\ (aside # "none" => missed)

\* Work goes to an engine that serves it: a chat that is ready has one that is up, has
\* the session open and is not parked, whatever came late, failed or exited.
ReadyIsServed ==
    stage = "ready" /\ ~closed =>
        proc = "up" /\ open /\ ~flag /\ ~standIn /\ ~wake

\* A message never overtakes one that came before it and still waits.
NobodyOvertakes ==
    \A x, y \in Work : Message(x) /\ Message(y) /\ came[x] < came[y] /\ work[x] = "held" =>
        work[y] \in {"new", "held", "refused"}

\* An interjection that waited "goes after the turns ahead of it have ENDED"
\* (engineGate.ts).
InterjectionsWait ==
    [][\A x, y \in Work :
          /\ Kind[x] = "follow" /\ work[x] = "held" /\ work'[x] = "sent"
          /\ Kind[y] = "prompt" /\ 0 < came[y] /\ came[y] < came[x]
          => work'[y] \in {"done", "refused"}]_vars

\* A chat that was closed leaves no stand-in, also when its park request was out, unless
\* the engine writes it after the request failed or ran out of time.
ClosedLeavesNothing ==
    closed /\ ~late /\ park = "off" /\ back = "off" /\ proc = "none" => ~standIn

\* Whatever is parked, kept, restored or lost, held work is given out or refused, unless
\* the start failed and waits for Retry.
HeldWorkGoes == []<>(Waits(work) = {} \/ stage = "failed")
=============================================================================
