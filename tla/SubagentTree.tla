---------------------------- MODULE SubagentTree ----------------------------
(***************************************************************************)
(* Stopping a tree of sub-agents: `cancelTree` of the job registry         *)
(* (core/src/background-job.ts), its callers, and what they set off in one *)
(* another.                                                                *)
(*                                                                         *)
(* A kid is a session a `task` call of its parent's turn created; its job  *)
(* has the session's own id.  The job's body prompts the kid and waits for *)
(* its turn, but the turn is the session runner's and does not die with    *)
(* the body: it is the clean-up of the job's FIRST run that stops it.  A   *)
(* foreground call holds its parent's turn; a detached job outlives it.    *)
(*                                                                         *)
(* A WALKER is one execution of cancelTree, for one of four callers:       *)
(*   stop    a turn stop (SessionRunState.cancel, spareDetached)           *)
(*   end     task_stop, the user's stop of one sub-agent, the watchdog     *)
(*   clean   the clean-up of an interrupted first run (ops.cancel)         *)
(*   abort   the abort listener of a foreground call (ops.cancel)          *)
(* All but `end` stop the session's turn after the walk.                   *)
(***************************************************************************)
EXTENDS Integers, FiniteSets

CONSTANTS Root,     \* the chat
          Kids,     \* the sub-agent sessions
          Parent,   \* the session each kid is spawned by
          MaxGen,   \* bound: how often a kid's job is started
          Restarts, \* bound: the kids whose job is started more than once
          MaxExt,   \* bound: extensions queued in a job
          Stops,    \* the sessions whose turn the user stops, once each
          Ends,     \* the kids stopped by name or by the watchdog, once each
          Preempt   \* TRUE: fibers also switch where the code does not wait

Sessions == Kids \cup {Root}
Gens == 1..MaxGen

ASSUME TreeAssumption ==
    /\ Root \notin Kids /\ Parent \in [Kids -> Sessions]
    /\ MaxGen \in Nat \ {0} /\ MaxExt \in Nat
    /\ Stops \subseteq Sessions /\ Ends \subseteq Kids /\ Restarts \subseteq Kids
    /\ Preempt \in BOOLEAN

Walkers == ({"stop"} \X Stops \X {1}) \cup ({"end"} \X Ends \X {1})
               \cup ({"clean", "abort"} \X Kids \X Gens)

Kind(w) == w[1]
Target(w) == w[2]
SparesDetached(w) == Kind(w) = "stop"
IncludesRoot(w) == Kind(w) # "end"

VARIABLES
    gen,       \* how often the kid's job was started; 0: no such session yet
    run,       \* the job: off, or in its first run, or in an extension
    detached,  \* metadata.background
    queued,    \* extensions waiting for the run before them
    turn,      \* the session's turn: none, or who started it
    phase,     \* of each walker
    listed,    \* its snapshot of the jobs it may cancel: kid and generation
    gone,      \* its set `cancelled`
    waits      \* the clean-ups its cancels wait for

jobVars  == << gen, run, detached, queued >>
walkVars == << phase, listed, gone, waits >>
vars == << jobVars, turn, walkVars >>

TypeOK ==
    /\ gen \in [Kids -> 0..MaxGen]
    /\ run \in [Kids -> {"off", "first", "extended"}]
    /\ detached \in [Kids -> BOOLEAN]
    /\ queued \in [Kids -> 0..MaxExt]
    /\ turn \in [Sessions -> {"none", "own", "job", "extension"}]
    /\ phase \in [Walkers -> {"off", "listing", "listed", "walking", "done"}]
    /\ listed \in [Walkers -> SUBSET (Kids \X Gens)]
    /\ gone \in [Walkers -> SUBSET Kids]
    /\ waits \in [Walkers -> SUBSET Walkers]

Init ==
    /\ gen = [k \in Kids |-> 0]
    /\ run = [k \in Kids |-> "off"]
    /\ detached = [k \in Kids |-> FALSE]
    /\ queued = [k \in Kids |-> 0]
    /\ turn = [s \in Sessions |-> IF s = Root THEN "own" ELSE "none"]
    /\ phase = [w \in Walkers |-> "off"]
    /\ listed = [w \in Walkers |-> {}]
    /\ gone = [w \in Walkers |-> {}]
    /\ waits = [w \in Walkers |-> {}]

Running(k) == run[k] # "off"
Busy(s) == turn[s] # "none"
Exists(s) == s # Root => gen[s] > 0
Waiting(k) == Running(k) /\ ~detached[k]    \* a foreground call holds the parent
Walking(w) == phase[w] \in {"listing", "listed", "walking"}

\* A walker does not wait between its list and its first round.
Yielded == Preempt \/ \A w \in Walkers : phase[w] # "listed"

-----------------------------------------------------------------------------
(* Turns and the task tool.                                                  *)

\* A message of the user, or the result of a detached job delivered to s.
Prompt(s) ==
    /\ Exists(s) /\ ~Busy(s) /\ Yielded
    /\ turn' = [turn EXCEPT ![s] = "own"]
    /\ UNCHANGED << jobVars, walkVars >>

(* background.start: a new kid, or the restart of one whose job is over.     *)
(* A turn that is already running is joined.                                 *)
Start(k, det) ==
    /\ Busy(Parent[k]) /\ ~Running(k) /\ Yielded
    /\ gen[k] < MaxGen /\ (gen[k] = 0 \/ k \in Restarts)
    /\ gen' = [gen EXCEPT ![k] = @ + 1]
    /\ run' = [run EXCEPT ![k] = "first"]
    /\ detached' = [detached EXCEPT ![k] = det]
    /\ turn' = [turn EXCEPT ![k] = IF Busy(k) THEN @ ELSE "job"]
    /\ UNCHANGED << queued, walkVars >>

Extend(k) ==
    /\ Busy(Parent[k]) /\ Running(k) /\ queued[k] < MaxExt /\ Yielded
    /\ queued' = [queued EXCEPT ![k] = @ + 1]
    /\ UNCHANGED << gen, run, detached, turn, walkVars >>

Promote(k) ==
    /\ Waiting(k) /\ Yielded
    /\ detached' = [detached EXCEPT ![k] = TRUE]
    /\ UNCHANGED << gen, run, queued, turn, walkVars >>

(* A body whose turn is over settles its run: the job ends, unless the run   *)
(* was good and an extension is next; that one prompts the kid again.        *)
Continues(s, ok) == s # Root /\ Running(s) /\ ok /\ queued[s] > 0

BodyLeaves(s, ok) ==
    /\ turn' = [turn EXCEPT ![s] = IF Continues(s, ok) THEN "extension" ELSE "none"]
    /\ run' = [k \in Kids |-> IF k # s THEN run[k]
                              ELSE IF Continues(s, ok) THEN "extended" ELSE "off"]
    /\ queued' = [k \in Kids |-> IF k # s THEN queued[k]
                                 ELSE IF Continues(s, ok) THEN queued[k] - 1 ELSE 0]

TurnEnds(s, ok) ==
    /\ Yielded /\ Busy(s) /\ \A k \in Kids : Parent[k] = s => ~Waiting(k)
    /\ BodyLeaves(s, ok)
    /\ UNCHANGED << gen, detached, walkVars >>

-----------------------------------------------------------------------------
(* Cancelling jobs.                                                          *)

\* The bugs of a first run without its onInterrupt.
NobodyCleans(S) == {}

(* The job's scope closes: an interrupted first run cleans up after itself   *)
(* (it first reads the kid's tokens); an extension and a queued one do not.  *)
CleanUps(S) == {<< "clean", k, gen[k] >> : k \in {x \in S : run[x] = "first"}}

CancelJobs(S) ==
    /\ run' = [k \in Kids |-> IF k \in S THEN "off" ELSE run[k]]
    /\ queued' = [k \in Kids |-> IF k \in S THEN 0 ELSE queued[k]]

\* The cancels of the batch before have returned.
Returned(w) == \A v \in waits[w] : phase[v] = "done"

\* A turn stop of the user.
StopTurn(w) ==
    /\ Kind(w) = "stop" /\ phase[w] = "off" /\ Exists(Target(w)) /\ Yielded
    /\ phase' = [phase EXCEPT ![w] = "listing"]
    /\ UNCHANGED << jobVars, turn, listed, gone, waits >>

(* task_stop, the user's stop of one sub-agent, expiry: the job itself first, *)
(* then what is under it.                                                     *)
EndJob(w) ==
    /\ Kind(w) = "end" /\ phase[w] = "off" /\ Exists(Target(w)) /\ Yielded
    /\ LET S == {k \in Kids : k = Target(w) /\ Running(k)}
       IN  /\ CancelJobs(S)
           /\ phase' = [v \in Walkers |-> IF v \in CleanUps(S) \cup {w}
                                          THEN "listing" ELSE phase[v]]
           /\ waits' = [waits EXCEPT ![w] = CleanUps(S)]
    /\ UNCHANGED << gen, detached, turn, listed, gone >>

\* What `matches` asks of the snapshot alone.
Eligible(w, k) ==
    /\ Running(k)
    /\ k = Target(w) => IncludesRoot(w)
    /\ SparesDetached(w) /\ detached[k] => k = Target(w)

List(w) ==
    /\ phase[w] = "listing" /\ Returned(w) /\ Yielded
    /\ listed' = [listed EXCEPT ![w] = {<< k, gen[k] >> : k \in {x \in Kids : Eligible(w, x)}}]
    /\ phase' = [phase EXCEPT ![w] = "listed"]
    /\ UNCHANGED << jobVars, turn, gone, waits >>

\* The bug of a walk that stops at the first generation.
OneLevel(w) == {Target(w)}

Pending(w) == {Target(w)} \cup gone[w]

\* The bug of a walk that does not mark what it has done.
Again(w, k) ==
    /\ \E g \in Gens : << k, g >> \in listed[w]
    /\ k \in Pending(w) \/ Parent[k] \in Pending(w)

Matches(w, k) ==
    /\ \E g \in Gens : << k, g >> \in listed[w]
    /\ k \notin gone[w]
    /\ k \in Pending(w) \/ Parent[k] \in Pending(w)

Batch(w) == {k \in Kids : Matches(w, k)}

Proceeds(w) == phase[w] = "listed" \/ (phase[w] = "walking" /\ Returned(w) /\ Yielded)

(* One round of the walk: its cancels go by id, whatever job has the id now. *)
Walk(w) ==
    /\ Proceeds(w) /\ Batch(w) # {}
    /\ LET S == {k \in Batch(w) : Running(k)}
       IN  /\ CancelJobs(S)
           /\ phase' = [v \in Walkers |-> IF v = w THEN "walking"
                                          ELSE IF v \in CleanUps(S) THEN "listing" ELSE phase[v]]
           /\ waits' = [waits EXCEPT ![w] = CleanUps(S)]
    /\ gone' = [gone EXCEPT ![w] = @ \cup Batch(w)]
    /\ UNCHANGED << gen, detached, turn, listed >>

\* The bug of a call that does not listen to its abort signal.
NobodyAborts(w) == {}

\* The foreground calls of the turn w stops: their abort listeners fire.
Aborts(w) ==
    {<< "abort", k, gen[k] >> : k \in {x \in Kids : Parent[x] = Target(w) /\ Waiting(x)}}

WalkOver(w) == Proceeds(w) /\ Batch(w) = {}

(* The walk is over, and for all but `end` the session's turn is stopped: a  *)
(* body that waits on it has its answer (SessionRunState.cancel).  Its       *)
(* locals go with the walker.                                                *)
Finish(w, ok) ==
    /\ WalkOver(w)
    /\ IF Kind(w) = "end" \/ ~Busy(Target(w))
       THEN /\ phase' = [phase EXCEPT ![w] = "done"]
            /\ UNCHANGED << run, queued, turn >>
       ELSE /\ BodyLeaves(Target(w), ok)
            /\ phase' = [v \in Walkers |-> IF v = w THEN "done"
                                           ELSE IF v \in Aborts(w) /\ phase[v] = "off"
                                           THEN "listing" ELSE phase[v]]
    /\ listed' = [listed EXCEPT ![w] = {}]
    /\ gone' = [gone EXCEPT ![w] = {}]
    /\ waits' = [waits EXCEPT ![w] = {}]
    /\ UNCHANGED << gen, detached >>

-----------------------------------------------------------------------------
Next ==
    \/ \E s \in Sessions : Prompt(s)
    \/ \E k \in Kids : Extend(k) \/ Promote(k)
    \/ \E k \in Kids, det \in BOOLEAN : Start(k, det)
    \/ \E s \in Sessions, ok \in BOOLEAN : TurnEnds(s, ok)
    \/ \E w \in Walkers : StopTurn(w) \/ EndJob(w) \/ List(w) \/ Walk(w)
    \/ \E w \in Walkers, ok \in BOOLEAN : Finish(w, ok)

Spec == Init /\ [][Next]_vars

WalkStep(w) == List(w) \/ Walk(w) \/ \E ok \in BOOLEAN : Finish(w, ok)

(* Walks go on while one of them can; nothing makes a turn end or a caller   *)
(* call.  A walk has finitely many steps, so none is left behind for good.   *)
FairSpec == Spec /\ WF_vars(\E w \in Walkers : WalkStep(w))

-----------------------------------------------------------------------------
Over(k, g) == gen[k] > g \/ ~Running(k)

(* The kids a walk is for: under its target by way of jobs it listed.        *)
Reached(w, S) ==
    \A k \in Kids, g \in Gens :
        /\ << k, g >> \in listed[w]
        /\ k = Target(w) \/ Parent[k] = Target(w) \/ Parent[k] \in S
        => k \in S
Under(w) == {k \in Kids : \A S \in SUBSET Kids : Reached(w, S) => k \in S}

(* "one pass of this walk reaches every generation" (background-job.ts:247): *)
(* when a walk is over, every job it listed under its target, at any depth,  *)
(* has ended.                                                                *)
WalkReachesAll ==
    \A w \in Walkers : WalkOver(w) =>
        \A k \in Under(w), g \in Gens : << k, g >> \in listed[w] => Over(k, g)

(* A foreground child never outlives the turn that waits for it: whoever     *)
(* stops the turn, and whenever the child was spawned, it is stopped too.    *)
NoForegroundOrphan ==
    (\A w \in Walkers : ~Walking(w)) =>
        \A k \in Kids : Waiting(k) => Busy(Parent[k])

CleaningUp(k) == \E g \in Gens : Walking(<< "clean", k, g >>)

(* A turn that a job's first run started is stopped with the job.            *)
JobTurnsEndWithJobs ==
    \A k \in Kids : turn[k] = "job" => Running(k) \/ CleaningUp(k)

(* task_stop.ts:51 says of the stopped task that it "has been cancelled"; so *)
(* the turn of an extension would be stopped with its job, too.              *)
StoppedJobsAreQuiet ==
    \A k \in Kids : turn[k] = "extension" => Running(k) \/ CleaningUp(k)

(* Every stop returns, however the clean-ups wait for each other: again and  *)
(* again no walk is under way.                                               *)
StopsReturn == []<>(\A w \in Walkers : ~Walking(w))

=============================================================================
