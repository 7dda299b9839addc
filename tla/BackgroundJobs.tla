--------------------------- MODULE BackgroundJobs ---------------------------
(***************************************************************************)
(* One id of the background-job registry (core/src/background-job.ts).     *)
(*                                                                         *)
(* The id may be reused: every `start` that finds no running job makes a   *)
(* new GENERATION (the record's `token`), and what an older generation     *)
(* left behind - run fibers, a watchdog - is still alive and acts later.   *)
(* Within a generation the first `run` and every `extend` are a chain:     *)
(* each waits for the one before it, and the job completes when none is    *)
(* pending.  Three actors may end a job: the last run, a cancel, and the   *)
(* max-duration watchdog, whose deadline moves (extend, blocked time).     *)
(***************************************************************************)
EXTENDS Integers, FiniteSets

CONSTANTS MaxGen,   \* bound: generations of the id
          MaxSeq,   \* bound: runs of the first generation; each later one has one fewer
          Ceiling,  \* maxDurationMs, in ticks; every job is armed
          LastAct,  \* bound: callers act, and asks stay open, up to this tick
          MaxTime,  \* bound: the clock stops here
          Preempt   \* TRUE: fibers also switch where the code does not wait

ASSUME BoundsAssumption ==
    /\ MaxGen \in Nat \ {0} /\ MaxSeq \in Nat \ {0} /\ Ceiling \in Nat \ {0}
    /\ LastAct \in Nat /\ MaxTime \in Nat
    /\ Preempt \in BOOLEAN

Gens == 1..MaxGen
Seqs == 0..(MaxSeq - 1)

Terminal == {"completed", "error", "cancelled", "expired"}

VARIABLES
    cur,         \* the generation jobs.get(id) holds; 0 before the first start
    status,      \* info.status ("expired" is status error with metadata.expired)
    pending,     \* runs accepted and not settled
    next,        \* the next sequence number
    output,      \* output.sequence; -1 before any
    background,  \* metadata.background
    deadline,    \* when the ceiling fires
    done,        \* the `done` Deferred the waiters read
    open,        \* the job's scope is open
    run, result, \* each run's fiber, and how its body ended
    dog, credited, wake, \* the watchdog: its stage, what it credited, its timer
    now, asking, blocked,\* the clock; is an ask open; the session's blockedMs total
    armed, ended \* the clock and the blocked total when the ceiling was last set, and at the end

recordVars == << status, pending, next, output, background, deadline >>
dogVars    == << dog, credited, wake >>
timeVars   == << now, asking, blocked >>
vars == << cur, recordVars, done, open, run, result, dogVars, timeVars, armed, ended >>

Moment == [at : Nat, blocked : Nat]

TypeOK ==
    /\ cur \in 0..MaxGen
    /\ status \in [Gens -> Terminal \cup {"none", "running"}]
    /\ pending \in [Gens -> Nat]
    /\ next \in [Gens -> Nat]
    /\ output \in [Gens -> Seqs \cup {-1}]
    /\ background \in [Gens -> BOOLEAN]
    /\ deadline \in [Gens -> Nat]
    /\ done \in [Gens -> Terminal \cup {"unset"}]
    /\ open \in [Gens -> BOOLEAN]
    /\ run \in [Gens -> [Seqs -> {"none", "booked", "waiting", "running",
                             "unwinding", "ending", "over"}]]
    /\ result \in [Gens -> [Seqs -> {"none", "ok", "failed", "interrupted"}]]
    /\ dog \in [Gens -> {"none", "reading", "probing", "sleeping", "firing", "off"}]
    /\ credited \in [Gens -> Nat]
    /\ wake \in [Gens -> Nat]
    /\ now \in Nat /\ asking \in BOOLEAN /\ blocked \in Nat
    /\ armed \in [Gens -> Moment]
    /\ ended \in [Gens -> Moment]

Init ==
    /\ cur = 0
    /\ status = [g \in Gens |-> "none"]
    /\ pending = [g \in Gens |-> 0]
    /\ next = [g \in Gens |-> 0]
    /\ output = [g \in Gens |-> -1]
    /\ background = [g \in Gens |-> FALSE]
    /\ deadline = [g \in Gens |-> 0]
    /\ done = [g \in Gens |-> "unset"]
    /\ open = [g \in Gens |-> TRUE]
    /\ run = [g \in Gens |-> [s \in Seqs |-> "none"]]
    /\ result = [g \in Gens |-> [s \in Seqs |-> "none"]]
    /\ dog = [g \in Gens |-> "none"]
    /\ credited = [g \in Gens |-> 0]
    /\ wake = [g \in Gens |-> 0]
    /\ now = 0 /\ asking = FALSE /\ blocked = 0
    /\ armed = [g \in Gens |-> [at |-> 0, blocked |-> 0]]
    /\ ended = [g \in Gens |-> [at |-> 0, blocked |-> 0]]

-----------------------------------------------------------------------------
(* Scheduling: a run not yet forked or not yet settled, a watchdog between   *)
(* its read and its verdict, and a job whose Deferred and scope are due have *)
(* not waited since their last step, and nothing else acts before they do -  *)
(* but what they resume: to open a Deferred runs the fiber that awaits it,   *)
(* up to its next wait, inside the step that opens it.                       *)

Running(g) == status[g] = "running"

\* The bug of a check of the token that does not ask for the status.
OnlyToken(g) == cur = g

\* jobs.get(id) is the generation's record (the token check), and is running.
Current(g) == cur = g /\ Running(cur)

Ended(g) == status[g] \in Terminal

Yielded ==
    \/ Preempt
    \/ /\ \A g \in Gens, s \in Seqs : run[g][s] \notin {"booked", "ending"}
       /\ \A g \in Gens : /\ dog[g] \notin {"reading", "probing", "firing"}
                          /\ Ended(g) => ~open[g]

Here == [at |-> now, blocked |-> blocked]

-----------------------------------------------------------------------------
(* BackgroundJob.start: a running job of the id answers for the call.        *)

Start(g) ==
    /\ g = cur + 1 /\ (cur # 0 => ~Running(cur))
    /\ now <= LastAct /\ Yielded
    /\ cur' = g
    /\ status' = [status EXCEPT ![g] = "running"]
    /\ pending' = [pending EXCEPT ![g] = 1]
    /\ next' = [next EXCEPT ![g] = 1]
    /\ deadline' = [deadline EXCEPT ![g] = now + Ceiling]
    /\ run' = [run EXCEPT ![g][0] = "booked"]
    /\ dog' = [dog EXCEPT ![g] = "reading"]
    /\ armed' = [armed EXCEPT ![g] = Here]
    /\ UNCHANGED << output, background, done, open, result, credited, wake,
                    timeVars, ended >>

Rearmed(rearm) == IF rearm THEN now + Ceiling ELSE deadline[cur]

(* BackgroundJob.extend: one more run behind the last; a ceiling of the      *)
(* caller's moves the deadline.                                              *)
Extend(rearm) ==
    /\ cur # 0 /\ Running(cur) /\ next[cur] + cur <= MaxSeq
    /\ now <= LastAct /\ Yielded
    /\ pending' = [pending EXCEPT ![cur] = @ + 1]
    /\ next' = [next EXCEPT ![cur] = @ + 1]
    /\ deadline' = [deadline EXCEPT ![cur] = Rearmed(rearm)]
    /\ run' = [run EXCEPT ![cur][next[cur]] = "booked"]
    /\ armed' = [armed EXCEPT ![cur] = IF rearm THEN Here ELSE @]
    /\ UNCHANGED << cur, status, output, background, done, open, result,
                    dogVars, timeVars, ended >>

-----------------------------------------------------------------------------
(* A run's fiber.                                                            *)

\* The bug of a chain that does not wait for the run before.
NoTail(g, s) == TRUE

\* `tail`: opened when the body of the run before has left, before it settles.
TailOpen(g, s) == s = 0 \/ run[g][s - 1] \in {"ending", "over"}

\* `fork`: into the job's scope; a closed scope interrupts the fiber at once.
Fork(g, s) ==
    /\ run[g][s] = "booked"
    /\ run' = [run EXCEPT ![g][s] = IF ~open[g] THEN "unwinding"
                                    ELSE IF TailOpen(g, s) THEN "running" ELSE "waiting"]
    /\ UNCHANGED << cur, recordVars, done, open, result, dogVars, timeVars, armed, ended >>

\* The tail resumes the run that awaits it, before the run that opened it settles.
Proceed(g, s) ==
    /\ run[g][s] = "waiting" /\ TailOpen(g, s)
    /\ run' = [run EXCEPT ![g][s] = "running"]
    /\ UNCHANGED << cur, recordVars, done, open, result, dogVars, timeVars, armed, ended >>

\* A body that was resumed in the hand-over of the run before may leave in it as well.
InHandOver(g, s) == s > 0 /\ run[g][s - 1] = "ending"

Leave(g, s, stage, r) ==
    /\ run[g][s] = stage
    /\ run' = [run EXCEPT ![g][s] = "ending"]
    /\ result' = [result EXCEPT ![g][s] = r]
    /\ UNCHANGED << cur, recordVars, done, open, dogVars, timeVars, armed, ended >>

BodyEnds(g, s, r) == Leave(g, s, "running", r) /\ (Yielded \/ InHandOver(g, s))
Unwound(g, s) == Leave(g, s, "unwinding", "interrupted") /\ Yielded

Verdict(r) == IF r = "ok" THEN "completed"
              ELSE IF r = "failed" THEN "error" ELSE "cancelled"

\* The bug of an output that is never replaced.
FirstOutput(s, r) == r = "ok" /\ output[cur] = -1

Final(r, left) == r # "ok" \/ left <= 0
Newer(s, r) == r = "ok" /\ s > output[cur]

\* The run behind was resumed, and settled if it left without a wait.
HandedOver(g, s) ==
    s + 1 \in Seqs => run[g][s + 1] # "waiting" /\ (Preempt \/ run[g][s + 1] # "ending")

(* settle: the last pending run, or the first that failed, ends the job.     *)
Settle(g, s) ==
    /\ run[g][s] = "ending" /\ HandedOver(g, s)
    /\ run' = [run EXCEPT ![g][s] = "over"]
    /\ IF ~Current(g)
       THEN UNCHANGED << recordVars, ended >>
       ELSE LET r == result[g][s]
                left == pending[cur] - 1
            IN  /\ output' = [output EXCEPT ![cur] = IF Newer(s, r) THEN s ELSE @]
                /\ IF Final(r, left)
                   THEN /\ status' = [status EXCEPT ![cur] = Verdict(r)]
                        /\ pending' = [pending EXCEPT ![cur] = 0]
                        /\ ended' = [ended EXCEPT ![cur] = Here]
                   ELSE /\ pending' = [pending EXCEPT ![cur] = left]
                        /\ UNCHANGED << status, ended >>
                /\ UNCHANGED << next, background, deadline >>
    /\ UNCHANGED << cur, done, open, result, dogVars, timeVars, armed >>

-----------------------------------------------------------------------------
(* The end of a job: the Deferred, then the scope; by whoever ended it.      *)

Resolve(g) ==
    /\ Ended(g) /\ done[g] = "unset"
    /\ done' = [done EXCEPT ![g] = status[g]]
    /\ UNCHANGED << cur, recordVars, open, run, result, dogVars, timeVars, armed, ended >>

\* The bug of a close that spares the runs still queued in the chain.
SparesQueued(f) == f = "running"

Interruptible(f) == f \in {"waiting", "running"}

CloseScope(g) ==
    /\ done[g] # "unset" /\ open[g]
    /\ open' = [open EXCEPT ![g] = FALSE]
    /\ run' = [run EXCEPT ![g] =
                 [s \in Seqs |-> IF Interruptible(run[g][s]) THEN "unwinding" ELSE run[g][s]]]
    /\ UNCHANGED << cur, recordVars, done, result, dogVars, timeVars, armed, ended >>

Stoppable == cur # 0 /\ Running(cur)

EndAs(verdict) ==
    /\ status' = [status EXCEPT ![cur] = verdict]
    /\ pending' = [pending EXCEPT ![cur] = 0]
    /\ ended' = [ended EXCEPT ![cur] = Here]
    /\ UNCHANGED << next, output, background, deadline >>

Cancel ==
    /\ Stoppable /\ now <= LastAct /\ Yielded
    /\ EndAs("cancelled")
    /\ UNCHANGED << cur, done, open, run, result, dogVars, timeVars, armed >>

Promote ==
    /\ Stoppable /\ ~background[cur] /\ now <= LastAct /\ Yielded
    /\ background' = [background EXCEPT ![cur] = TRUE]
    /\ UNCHANGED << cur, status, pending, next, output, deadline, done, open, run,
                    result, dogVars, timeVars, armed, ended >>

-----------------------------------------------------------------------------
(* The watchdog of a generation.                                             *)

Watch(g, from, to) == dog[g] = from /\ dog' = [dog EXCEPT ![g] = to]

RestUnwatched == << cur, done, open, run, result, timeVars, armed >>

WatchEnds(g) ==
    /\ Watch(g, "reading", "off") /\ ~Current(g)
    /\ UNCHANGED << recordVars, credited, wake, ended, RestUnwatched >>

WatchSleeps(g) ==
    /\ Watch(g, "reading", "sleeping") /\ Current(g) /\ now < deadline[g]
    /\ wake' = [wake EXCEPT ![g] = deadline[g]]
    /\ UNCHANGED << recordVars, credited, ended, RestUnwatched >>

WatchDue(g) ==
    /\ Watch(g, "reading", "probing") /\ Current(g) /\ deadline[g] <= now
    /\ UNCHANGED << recordVars, credited, wake, ended, RestUnwatched >>

\* `done` arrives, or the timer.
WatchWakes(g) ==
    /\ \/ Watch(g, "sleeping", "off") /\ done[g] # "unset"
       \/ Watch(g, "sleeping", "reading") /\ wake[g] <= now /\ Yielded
    /\ wake' = [wake EXCEPT ![g] = 0]
    /\ UNCHANGED << recordVars, credited, ended, RestUnwatched >>

\* The bugs of a watchdog that takes time on a human for the job's own, and of
\* one that credits the whole total at every pass.
NothingOwed(g) == 0
OwedTwice(g) == blocked

Owed(g) == blocked - credited[g]

(* blockedMs is the SESSION's running total; `credited` starts at 0 with     *)
(* every watchdog.  The deadline read again is the one that moves.           *)
WatchCredits(g) ==
    /\ Watch(g, "probing", "reading") /\ Owed(g) > 0
    /\ credited' = [credited EXCEPT ![g] = blocked]
    /\ deadline' = [deadline EXCEPT ![g] = IF cur = g THEN @ + Owed(g) ELSE @]
    /\ UNCHANGED << status, pending, next, output, background, wake, ended, RestUnwatched >>

WatchFires(g) ==
    /\ Watch(g, "probing", "firing") /\ Owed(g) <= 0
    /\ UNCHANGED << recordVars, credited, wake, ended, RestUnwatched >>

Expire(g) ==
    /\ Watch(g, "firing", "off")
    /\ IF Current(g) THEN EndAs("expired") ELSE UNCHANGED << recordVars, ended >>
    /\ UNCHANGED << credited, wake, RestUnwatched >>

-----------------------------------------------------------------------------
(* The environment: the clock, and an unanswered permission ask.             *)

Tick ==
    /\ now < MaxTime /\ (asking => now < LastAct) /\ Yielded
    /\ now' = now + 1
    /\ blocked' = IF asking THEN blocked + 1 ELSE blocked
    /\ UNCHANGED << cur, recordVars, done, open, run, result, dogVars, asking, armed, ended >>

\* Only a body at work asks.
AskOrAnswer ==
    /\ now <= LastAct /\ Yielded
    /\ asking \/ \E g \in Gens, s \in Seqs : run[g][s] = "running"
    /\ asking' = ~asking
    /\ UNCHANGED << cur, recordVars, done, open, run, result, dogVars, now, blocked,
                    armed, ended >>

-----------------------------------------------------------------------------
RunStep(g, s) == Fork(g, s) \/ Proceed(g, s) \/ Unwound(g, s) \/ Settle(g, s)
WatchStep(g) ==
    \/ WatchEnds(g) \/ WatchSleeps(g) \/ WatchDue(g) \/ WatchWakes(g)
    \/ WatchCredits(g) \/ WatchFires(g) \/ Expire(g)
Caller ==
    \/ \E g \in Gens : Start(g)
    \/ \E rearm \in BOOLEAN : Extend(rearm)
    \/ Cancel \/ Promote \/ AskOrAnswer

System ==
    \/ Tick
    \/ \E g \in Gens : Resolve(g) \/ CloseScope(g) \/ WatchStep(g)
    \/ \E g \in Gens, s \in Seqs : RunStep(g, s)

Next ==
    \/ Caller \/ System
    \/ \E g \in Gens, s \in Seqs, r \in {"ok", "failed"} : BodyEnds(g, s, r)

Spec == Init /\ [][Next]_vars

(* Forked fibers are scheduled and timers fire; an interrupted body cleans   *)
(* up.  Nothing makes a body end, an ask be answered or a caller call.  The  *)
(* system has finitely many steps, so none of them is put off for ever.      *)
FairSpec == Spec /\ WF_vars(System)

-----------------------------------------------------------------------------
(* A job is `completed` only when every run it accepted has returned a       *)
(* result: an accepted extension is never answered by the run before it.     *)
CompletedMeansAllRan ==
    \A g \in Gens : status[g] = "completed" =>
        \A s \in 0..(next[g] - 1) : result[g][s] = "ok" /\ run[g][s] = "over"

(* The output of a completed job is its newest run's, in whatever order the  *)
(* runs of the chain settled.                                                *)
OutputIsNewest ==
    \A g \in Gens : status[g] = "completed" => output[g] = next[g] - 1

(* A completed job answers every prompt it accepted: all have run, and what  *)
(* its caller reads is the answer to the newest (background-job.ts:341).     *)
CompletedAnswersAll == CompletedMeansAllRan /\ OutputIsNewest

Frozen(g) ==
    /\ status'[g] = status[g] /\ ended'[g] = ended[g]
    /\ pending'[g] = pending[g] /\ output'[g] = output[g]
    /\ background'[g] = background[g]

EndedFrozen == \A g \in Gens : Ended(g) => Frozen(g)

(* A job that ended keeps its verdict and its record: a late run, a second   *)
(* cancel, the watchdog and a fiber of an older generation change nothing.   *)
SettledIsFrozen == [][EndedFrozen]_vars

\* The runs whose result is in, whether or not the job still wanted it.
Returned ==
    [g \in Gens |-> {s \in Seqs : run[g][s] = "over" /\ result[g][s] = "ok"}]

Ledger == INSTANCE JobLedger
            WITH latest <- cur, verdict <- status, accepted <- next,
                 returned <- Returned, told <- done

(* Whatever interleaves, each step of the registry is a start, an accepted   *)
(* run, a return, a stop, a promotion or an answer to the waiters as         *)
(* JobLedger has them, or none of these.                                     *)
ImplementsLedger == Ledger!Spec

(* The bodies of a job run one after the other, in the order they were       *)
(* accepted (BackgroundJob.extend awaits `previous`).                        *)
RunsAreSerial ==
    \A g \in Gens, s, e \in Seqs :
        run[g][s] = "running" /\ e < s => run[g][e] \in {"ending", "over"}

Enters(g, s) == run[g][s] # "running" /\ run'[g][s] = "running"

(* The tail of a run that failed opens too, and the body behind it is        *)
(* entered: but only in that hand-over, before the failed run settles; a job *)
(* that was ended enters none.                                               *)
EnteredBeforeTheEnd(g, s) ==
    Running(g) /\ \A e \in 0..(s - 1) : result[g][e] = "ok" \/ run[g][e] = "ending"

(* And it is interrupted before a caller, a timer or another body acts.      *)
StoppedAtOnce ==
    Yielded => \A g \in Gens, s \in Seqs : run[g][s] = "running" =>
        Running(g) /\ \A e \in 0..(s - 1) : result[g][e] = "ok"

(* Unless the scheduler preempts: once a run has failed, or the job has been *)
(* stopped, no later body of the job goes on, and none is entered once the   *)
(* job's record says so.                                                     *)
NoBodyAfterTheEnd ==
    []StoppedAtOnce /\ [][\A g \in Gens, s \in Seqs : Enters(g, s) => EnteredBeforeTheEnd(g, s)]_vars

(* The ceiling only ends a job that had that much time of its own since it   *)
(* was last armed: time spent on an unanswered ask does not count.           *)
ExpiredOnItsOwnTime ==
    \A g \in Gens : status[g] = "expired" =>
        (ended[g].at - armed[g].at) - (ended[g].blocked - armed[g].blocked) >= Ceiling

(* background-job.ts:171 says the owner reports "Total ms this job has so    *)
(* far spent blocked": a job never armed again gets no more than that.       *)
CreditIsOwnBlockedTime ==
    \A g \in Gens : status[g] # "none" /\ next[g] = 1 =>
        deadline[g] <= armed[g].at + Ceiling + (blocked - armed[g].blocked)

(* Once nobody asks any more (and nobody extends, past LastAct), an armed    *)
(* job ends, whatever its body does.                                         *)
ArmedJobEnds ==
    \A g \in Gens : <>[]~asking => (Running(g) ~> Ended(g))

(* A job that ended leaves nothing behind: its waiters are told, its runs    *)
(* are over and its watchdog is gone.                                        *)
NothingOutlivesItsJob ==
    \A g \in Gens : Ended(g) ~>
        /\ done[g] = status[g] /\ dog[g] = "off"
        /\ \A s \in Seqs : run[g][s] \in {"none", "over"}

=============================================================================
