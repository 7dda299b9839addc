----------------------------- MODULE TurnRunner -----------------------------
(***************************************************************************)
(* The runner that serialises the turns and shell commands of ONE chat     *)
(* session in the live engine: effect/runner.ts (the state machine),       *)
(* session/run-state.ts (the per-session runner map around it) and the     *)
(* idle/queued bookkeeping of session/status.ts.                           *)
(*                                                                         *)
(* A runner is Idle, Running, Shell or ShellThenRun; here a pair           *)
(* (shell[r], run[r]), each None or the work it names.  Every change of    *)
(* that pair is one `SynchronizedRef.modify`, hence one action.  What is   *)
(* NOT under the ref's lock is an action of its own: the interrupt of a    *)
(* cancelled fiber and the wait for its clean-up, the completion of a      *)
(* Deferred, the onIdle callback, the onJoin callback.                     *)
(***************************************************************************)
EXTENDS Naturals, FiniteSets

CONSTANTS Runners,  \* the Runner instances the process may construct
          Turns,    \* calls of ensureRunning; a call and its work share a name
          Shells,   \* calls of startShell; likewise
          Stops,    \* calls of SessionRunState.cancel
          None,
          Preempt   \* TRUE: the Effect scheduler may also switch fibers where
                    \* the code does not wait (its operation budget)

Works   == Turns \cup Shells
Callers == Works \cup Stops

ASSUME NamesDistinct ==
    /\ None \notin Runners \cup Callers
    /\ Turns \cap Shells = {} /\ Turns \cap Stops = {} /\ Shells \cap Stops = {}
ASSUME PreemptIsBoolean == Preempt \in BOOLEAN

VARIABLES
    runners,            \* data.runners.get(sessionID)
    made,               \* the runners constructed so far
    run, shell, lock,   \* each runner's state, and who holds its ref's lock across a wait
    fiber, exit,        \* each work's fiber, and how it left its body
    ready,              \* shells whose `ready` latch is open
    done,               \* each turn's `done` Deferred
    call, via, awaits,  \* each call: its stage, its runner, the turn it awaits
    stopShell, stopRun, \* what each stop took off its runner
    status, queued      \* SessionStatus: the session's key, and the joined count

vars == << runners, made, run, shell, lock, fiber, exit, ready, done,
           call, via, awaits, stopShell, stopRun, status, queued >>

FiberState == { "none", "forked", "running", "unwinding", "exited",
                "idling", "publishing", "completing", "gone" }
CallState  == { "ready", "looked", "joined", "opening", "awaiting", "busyError",
                "stopping", "joining", "checking", "idling", "publishing", "returned" }

TypeOK ==
    /\ runners \in Runners \cup {None}
    /\ made \in SUBSET Runners
    /\ run \in [Runners -> Turns \cup {None}]
    /\ shell \in [Runners -> Shells \cup {None}]
    /\ lock \in [Runners -> Shells \cup {None}]
    /\ fiber \in [Works -> FiberState]
    /\ exit \in [Works -> {"none", "own", "interrupted"}]
    /\ ready \in SUBSET Shells
    /\ done \in [Turns -> {"unset", "result", "cancelled"}]
    /\ call \in [Callers -> CallState]
    /\ via \in [Callers -> Runners \cup {None}]
    /\ \A c \in Callers : call[c] = "looked" => via[c] \in Runners
    /\ awaits \in [Turns -> Turns \cup {None}]
    /\ stopShell \in [Stops -> Shells \cup {None}]
    /\ stopRun \in [Stops -> Turns \cup {None}]
    /\ status \in {"idle", "busy"}
    /\ queued \in Nat

Init ==
    /\ runners = None /\ made = {}
    /\ run = [r \in Runners |-> None]
    /\ shell = [r \in Runners |-> None]
    /\ lock = [r \in Runners |-> None]
    /\ fiber = [w \in Works |-> "none"]
    /\ exit = [w \in Works |-> "none"]
    /\ ready = {}
    /\ done = [t \in Turns |-> "unset"]
    /\ call = [c \in Callers |-> "ready"]
    /\ via = [c \in Callers |-> None]
    /\ awaits = [t \in Turns |-> None]
    /\ stopShell = [c \in Stops |-> None]
    /\ stopRun = [c \in Stops |-> None]
    /\ status = "idle" /\ queued = 0

-----------------------------------------------------------------------------
(* Scheduling.  A fiber that is at one of these points has not waited since  *)
(* its last step, so no other fiber runs in between unless Preempt.          *)

Unlocked(r) == lock[r] = None
Idle(r)     == run[r] = None /\ shell[r] = None

InlineCall(c) ==
    \/ call[c] \in {"looked", "checking"} /\ Unlocked(via[c])
    \/ call[c] \in {"joined", "idling"}
    \/ call[c] = "stopping" /\ stopShell[c] = None

Yielded ==
    \/ Preempt
    \/ /\ \A c \in Callers : ~InlineCall(c)
       /\ \A w \in Works : fiber[w] # "idling"

-----------------------------------------------------------------------------
(* SessionRunState.runner: the map entry, or a new runner put there.         *)

Lookup(c) ==
    /\ call[c] = "ready" /\ Yielded
    /\ \E r \in IF runners # None THEN {runners} ELSE Runners \ made :
          /\ runners' = r
          /\ made' = made \cup {r}
          /\ via' = [via EXCEPT ![c] = r]
    /\ call' = [call EXCEPT ![c] = "looked"]
    /\ UNCHANGED << run, shell, lock, fiber, exit, ready, done, awaits,
                    stopShell, stopRun, status, queued >>

(* Runner.ensureRunning, one action per arm of its switch.                   *)

Join(t) ==
    LET r == via[t] IN
    /\ call[t] = "looked" /\ Unlocked(r)
    /\ run[r] # None
    /\ awaits' = [awaits EXCEPT ![t] = run[r]]
    /\ call' = [call EXCEPT ![t] = "joined"]
    /\ UNCHANGED << runners, made, run, shell, lock, fiber, exit, ready, done,
                    via, stopShell, stopRun, status, queued >>

Defer(t) ==
    LET r == via[t] IN
    /\ call[t] = "looked" /\ Unlocked(r)
    /\ run[r] = None /\ shell[r] # None
    /\ run' = [run EXCEPT ![r] = t]
    /\ awaits' = [awaits EXCEPT ![t] = t]
    /\ call' = [call EXCEPT ![t] = "awaiting"]
    /\ UNCHANGED << runners, made, shell, lock, fiber, exit, ready, done,
                    via, stopShell, stopRun, status, queued >>

StartRun(t) ==
    LET r == via[t] IN
    /\ call[t] = "looked" /\ Unlocked(r)
    /\ Idle(r)
    /\ run' = [run EXCEPT ![r] = t]
    /\ fiber' = [fiber EXCEPT ![t] = "forked"]
    /\ awaits' = [awaits EXCEPT ![t] = t]
    /\ call' = [call EXCEPT ![t] = "awaiting"]
    /\ UNCHANGED << runners, made, shell, lock, exit, ready, done, via,
                    stopShell, stopRun, status, queued >>

\* onJoin: SessionStatus.bumpQueued, after the ref's lock is released.
BumpQueued(t) ==
    /\ call[t] = "joined"
    /\ queued' = queued + 1
    /\ call' = [call EXCEPT ![t] = "awaiting"]
    /\ UNCHANGED << runners, made, run, shell, lock, fiber, exit, ready, done,
                    via, awaits, stopShell, stopRun, status >>

(* Runner.startShell: refused unless Idle; onBusy publishes a status while   *)
(* the ref's lock is held, then the shell's fiber is forked.                 *)

\* Mutant: only another shell makes a runner busy.
NoShell(r) == shell[r] = None
Admits(r) == Idle(r)

RefuseShell(h) ==
    LET r == via[h] IN
    /\ call[h] = "looked" /\ Unlocked(r)
    /\ ~Admits(r)
    /\ call' = [call EXCEPT ![h] = "busyError"]
    /\ UNCHANGED << runners, made, run, shell, lock, fiber, exit, ready, done,
                    via, awaits, stopShell, stopRun, status, queued >>

AdmitShell(h) ==
    LET r == via[h] IN
    /\ call[h] = "looked" /\ Unlocked(r)
    /\ Admits(r)
    /\ lock' = [lock EXCEPT ![r] = h]
    /\ call' = [call EXCEPT ![h] = "opening"]
    /\ UNCHANGED << runners, made, run, shell, fiber, exit, ready, done,
                    via, awaits, stopShell, stopRun, status, queued >>

StartShell(h) ==
    LET r == via[h] IN
    /\ call[h] = "opening" /\ Yielded
    /\ status' = "busy"
    /\ shell' = [shell EXCEPT ![r] = h]
    /\ fiber' = [fiber EXCEPT ![h] = "forked"]
    /\ lock' = [lock EXCEPT ![r] = None]
    /\ call' = [call EXCEPT ![h] = "awaiting"]
    /\ UNCHANGED << runners, made, run, exit, ready, done, via, awaits,
                    stopShell, stopRun, queued >>

-----------------------------------------------------------------------------
(* The work itself, seen from the runner.                                    *)

Begin(w) ==
    /\ fiber[w] = "forked" /\ Yielded
    /\ fiber' = [fiber EXCEPT ![w] = "running"]
    /\ UNCHANGED << runners, made, run, shell, lock, exit, ready, done, call,
                    via, awaits, stopShell, stopRun, status, queued >>

\* The loop writes `busy` at the top of every pass.
LoopPass(t) ==
    /\ fiber[t] = "running" /\ Yielded
    /\ status' = "busy"
    /\ UNCHANGED << runners, made, run, shell, lock, fiber, exit, ready, done,
                    call, via, awaits, stopShell, stopRun, queued >>

\* shellImpl opens the latch once its message rows are written.
OpenReady(h) ==
    /\ fiber[h] = "running" /\ h \notin ready /\ Yielded
    /\ ready' = ready \cup {h}
    /\ UNCHANGED << runners, made, run, shell, lock, fiber, exit, done, call,
                    via, awaits, stopShell, stopRun, status, queued >>

\* The body ends by itself (with a value, an error or a defect); a shell only
\* once its latch is open.
Finish(w) ==
    /\ fiber[w] = "running" /\ Yielded
    /\ w \in Shells => w \in ready
    /\ fiber' = [fiber EXCEPT ![w] = "exited"]
    /\ exit' = [exit EXCEPT ![w] = "own"]
    /\ UNCHANGED << runners, made, run, shell, lock, ready, done, call, via,
                    awaits, stopShell, stopRun, status, queued >>

\* The clean-up of an interrupted body has run.
Unwound(w) ==
    /\ fiber[w] = "unwinding" /\ Yielded
    /\ fiber' = [fiber EXCEPT ![w] = "exited"]
    /\ exit' = [exit EXCEPT ![w] = "interrupted"]
    /\ UNCHANGED << runners, made, run, shell, lock, ready, done, call, via,
                    awaits, stopShell, stopRun, status, queued >>

-----------------------------------------------------------------------------
(* The end of a work: finishRun and finishShell, then the onIdle callback    *)
(* (run-state.ts: delete the map entry; SessionStatus.set: clear the queued  *)
(* count, publish, and only then delete the status key).                     *)

\* Synchronous half of onIdle.
DropEntry == runners' = None /\ queued' = 0


\* finishRun: only the run the state names idles the runner; every run
\* completes its own Deferred.
FinishRun(t) ==
    LET r == via[t]
        current == run[r] = t /\ shell[r] = None IN
    /\ fiber[t] = "exited" /\ Unlocked(r) /\ Yielded
    /\ run' = IF current THEN [run EXCEPT ![r] = None] ELSE run
    /\ fiber' = [fiber EXCEPT ![t] = IF current THEN "idling" ELSE "completing"]
    /\ UNCHANGED << runners, made, shell, lock, exit, ready, done, call, via,
                    awaits, stopShell, stopRun, status, queued >>

\* What becomes of shell h's fiber, and of a run deferred behind it, which
\* starts under the same lock.  Mutant: the deferred run is not forked.
ForgetDeferred(h, next) ==
    [fiber EXCEPT ![h] = IF next = None THEN "idling" ELSE "gone"]
AfterShell(h, next) ==
    IF next = None THEN [fiber EXCEPT ![h] = "idling"]
                   ELSE [fiber EXCEPT ![h] = "gone", ![next] = "forked"]

\* finishShell: only the shell the state names changes it.
FinishShell(h) ==
    LET r == via[h]
        current == shell[r] = h IN
    /\ fiber[h] = "exited" /\ Unlocked(r) /\ Yielded
    /\ shell' = IF current THEN [shell EXCEPT ![r] = None] ELSE shell
    /\ fiber' = IF current THEN AfterShell(h, run[r])
                           ELSE [fiber EXCEPT ![h] = "gone"]
    /\ UNCHANGED << runners, made, run, lock, exit, ready, done, call, via,
                    awaits, stopShell, stopRun, status, queued >>

FinishIdle(w) ==
    /\ fiber[w] = "idling"
    /\ DropEntry
    /\ fiber' = [fiber EXCEPT ![w] = "publishing"]
    /\ UNCHANGED << made, run, shell, lock, exit, ready, done, call, via,
                    awaits, stopShell, stopRun, status >>

FinishPublished(w) ==
    /\ fiber[w] = "publishing" /\ Yielded
    /\ status' = "idle"
    /\ fiber' = [fiber EXCEPT ![w] = IF w \in Turns THEN "completing" ELSE "gone"]
    /\ UNCHANGED << runners, made, run, shell, lock, exit, ready, done, call,
                    via, awaits, stopShell, stopRun, queued >>

\* `complete`: a Deferred keeps its first outcome.  Mutant: an interrupted
\* run completes nothing.
SettleResult(t, outcome) ==
    done' = IF outcome = "result" /\ done[t] = "unset"
            THEN [done EXCEPT ![t] = outcome] ELSE done
Settle(t, outcome) ==
    done' = IF done[t] = "unset" THEN [done EXCEPT ![t] = outcome] ELSE done

Complete(t) ==
    /\ fiber[t] = "completing" /\ Yielded
    /\ Settle(t, IF exit[t] = "interrupted" THEN "cancelled" ELSE "result")
    /\ fiber' = [fiber EXCEPT ![t] = "gone"]
    /\ UNCHANGED << runners, made, run, shell, lock, exit, ready, call, via,
                    awaits, stopShell, stopRun, status, queued >>

-----------------------------------------------------------------------------
(* SessionRunState.cancel (after its cancelTree, see SubagentTree): the      *)
(* runner goes Idle FIRST, then its fiber is interrupted and waited for,     *)
(* then the turn's Deferred fails, then idleIfCurrent.                       *)

\* No map entry: only the status is written.
StopNothing(c) ==
    /\ call[c] = "ready" /\ runners = None /\ Yielded
    /\ queued' = 0
    /\ call' = [call EXCEPT ![c] = "publishing"]
    /\ UNCHANGED << runners, made, run, shell, lock, fiber, exit, ready, done,
                    via, awaits, stopShell, stopRun, status >>

StopLookup(c) ==
    /\ call[c] = "ready" /\ runners # None /\ Yielded
    /\ via' = [via EXCEPT ![c] = runners]
    /\ call' = [call EXCEPT ![c] = "looked"]
    /\ UNCHANGED << runners, made, run, shell, lock, fiber, exit, ready, done,
                    awaits, stopShell, stopRun, status, queued >>

\* Mutant: stopping a shell leaves the run deferred behind it.
KeepDeferred(r) == IF shell[r] # None THEN run ELSE [run EXCEPT ![r] = None]
WithoutRun(r) == [run EXCEPT ![r] = None]

Cancel(c) ==
    LET r == via[c] IN
    /\ call[c] = "looked" /\ Unlocked(r)
    /\ stopShell' = [stopShell EXCEPT ![c] = shell[r]]
    /\ stopRun' = [stopRun EXCEPT ![c] = run[r]]
    /\ shell' = [shell EXCEPT ![r] = None]
    /\ run' = WithoutRun(r)
    /\ call' = [call EXCEPT ![c] = IF Idle(r) THEN "returned" ELSE "stopping"]
    /\ UNCHANGED << runners, made, lock, fiber, exit, ready, done, via, awaits,
                    status, queued >>

\* The fiber a stop interrupts: the shell's if there is one (a deferred run has none).
Target(c) == IF stopShell[c] # None THEN stopShell[c] ELSE stopRun[c]

\* Fiber.interrupt.  A forked fiber that never began leaves without running
\* its onExit; one already in its onExit is only waited for.
\* Mutant: an interrupt that finds the fiber not begun is lost.
InterruptLost(f) == IF f = "running" THEN "unwinding" ELSE f
Interrupted(f) == IF f = "running" THEN "unwinding"
                  ELSE IF f = "forked" THEN "gone" ELSE f

\* A shell is interrupted only after its `ready` latch.
Interrupt(c) ==
    LET w == Target(c) IN
    /\ call[c] = "stopping"
    /\ stopShell[c] \in ready \cup {None}
    /\ stopShell[c] # None => Yielded
    /\ fiber' = [fiber EXCEPT ![w] = Interrupted(@)]
    /\ call' = [call EXCEPT ![c] = "joining"]
    /\ UNCHANGED << runners, made, run, shell, lock, exit, ready, done, via,
                    awaits, stopShell, stopRun, status, queued >>

\* Mutant: the turn is failed before its interrupted fiber has been waited for.
FailTurnAtOnce(c) ==
    /\ call[c] = "joining" /\ Yielded
    /\ IF stopRun[c] # None THEN Settle(stopRun[c], "cancelled") ELSE done' = done
    /\ call' = [call EXCEPT ![c] = "checking"]
    /\ UNCHANGED << runners, made, run, shell, lock, fiber, exit, ready, via,
                    awaits, stopShell, stopRun, status, queued >>

FailTurn(c) ==
    /\ call[c] = "joining" /\ fiber[Target(c)] = "gone" /\ Yielded
    /\ IF stopRun[c] # None THEN Settle(stopRun[c], "cancelled") ELSE done' = done
    /\ call' = [call EXCEPT ![c] = "checking"]
    /\ UNCHANGED << runners, made, run, shell, lock, fiber, exit, ready, via,
                    awaits, stopShell, stopRun, status, queued >>

IdleIfCurrent(c) ==
    /\ call[c] = "checking" /\ Unlocked(via[c])
    /\ call' = [call EXCEPT ![c] = IF Idle(via[c]) THEN "idling" ELSE "returned"]
    /\ UNCHANGED << runners, made, run, shell, lock, fiber, exit, ready, done,
                    via, awaits, stopShell, stopRun, status, queued >>

StopIdle(c) ==
    /\ call[c] = "idling"
    /\ DropEntry
    /\ call' = [call EXCEPT ![c] = "publishing"]
    /\ UNCHANGED << made, run, shell, lock, fiber, exit, ready, done, via,
                    awaits, stopShell, stopRun, status >>

StopPublished(c) ==
    /\ call[c] = "publishing" /\ Yielded
    /\ status' = "idle"
    /\ call' = [call EXCEPT ![c] = "returned"]
    /\ UNCHANGED << runners, made, run, shell, lock, fiber, exit, ready, done,
                    via, awaits, stopShell, stopRun, queued >>

-----------------------------------------------------------------------------
\* What the runtime owes: every step but a caller's arrival and the end of a body.
TurnStep(t) == Join(t) \/ Defer(t) \/ StartRun(t) \/ BumpQueued(t)
ShellStep(h) == RefuseShell(h) \/ AdmitShell(h) \/ StartShell(h) \/ OpenReady(h) \/ FinishShell(h)
FiberStep(w) == Begin(w) \/ Unwound(w) \/ FinishIdle(w) \/ FinishPublished(w)
RunStep(t) == FinishRun(t) \/ Complete(t)
StopStep(c) == \/ Cancel(c) \/ Interrupt(c) \/ FailTurn(c)
               \/ IdleIfCurrent(c) \/ StopIdle(c) \/ StopPublished(c)

System ==
    \/ \E t \in Turns : TurnStep(t) \/ RunStep(t)
    \/ \E h \in Shells : ShellStep(h)
    \/ \E w \in Works : FiberStep(w)
    \/ \E c \in Stops : StopStep(c)

Next ==
    \/ System
    \/ \E c \in Works : Lookup(c)
    \/ \E t \in Turns : LoopPass(t)
    \/ \E w \in Works : Finish(w)
    \/ \E c \in Stops : StopNothing(c) \/ StopLookup(c)

Spec == Init /\ [][Next]_vars

\* Each call and each work has finitely many of these steps: none is put off for ever.
FairSpec == Spec /\ WF_vars(System)

-----------------------------------------------------------------------------
Live(w) == fiber[w] \in {"forked", "running"}
Owned(w) == w \in {run[via[w]], shell[via[w]]}

(* No runaway fiber.  Every fiber that is still doing work is the one its    *)
(* runner names, or a stop that took it off the runner has yet to interrupt  *)
(* it: no interleaving of prompts, shells and stops leaves a turn burning    *)
(* tokens that nothing in its runner refers to (runner.ts: modify + fork).   *)
NoRunawayFiber ==
    \A w \in Works : Live(w) =>
        \/ Owned(w)
        \/ \E c \in Stops : call[c] = "stopping" /\ Target(c) = w

(* One stop is enough.  Once a stop has waited out the fiber it interrupted, *)
(* nothing it took off the runner is running or can start again, and every   *)
(* caller awaiting that turn has an answer (runner.ts cancel).               *)
StopIsFinal ==
    \A c \in Stops : call[c] \in {"checking", "idling", "publishing", "returned"} =>
        /\ stopShell[c] # None => fiber[stopShell[c]] = "gone"
        /\ stopRun[c] # None => /\ fiber[stopRun[c]] \in {"none", "gone"}
                                /\ done[stopRun[c]] # "unset"
                                /\ \A r \in Runners : run[r] # stopRun[c]

(* No lost caller.  A prompt that waits on a turn's Deferred waits on one    *)
(* that somebody will still complete: the turn is current in its runner, its *)
(* fiber is on its way to `complete`, or a stop will fail it.  Covers the    *)
(* joined prompts and the run deferred behind a shell.                       *)
NoLostCaller ==
    \A t \in Turns : awaits[t] # None =>
        LET w == awaits[t] IN
        \/ done[w] # "unset"
        \/ \E r \in Runners : run[r] = w
        \/ fiber[w] \in {"exited", "idling", "publishing", "completing"}
        \/ \E c \in Stops : stopRun[c] = w /\ call[c] \in {"stopping", "joining"}

(* A prompt is answered by a turn that was its own, or by one that was in    *)
(* flight when it arrived: a discarded work never gets a fiber.              *)
DiscardedNeverRuns ==
    \A t \in Turns : awaits[t] \notin {None, t} => fiber[t] = "none"

\* What SessionTurns sees: a work whose fiber has left its body ended or was cut short.
Body(w) == CASE fiber[w] = "none" -> "none"
             [] fiber[w] \in {"forked", "running", "unwinding"} -> "working"
             [] OTHER -> IF exit[w] = "own" THEN "ended" ELSE "cut"
TakenOff == {w \in Works : \E c \in Stops : w \in {stopRun[c], stopShell[c]}}

Contract == INSTANCE SessionTurns WITH
    Lanes <- Runners, body <- [w \in Works |-> Body(w)], stopped <- TakenOff,
    asks <- awaits, answer <- done

(* Whatever fibers, locks and stops are at, the runner keeps its contract:   *)
(* the works take turns, and every prompt is answered with what became of    *)
(* the turn it found or made - its result if its body ended by itself, a     *)
(* cancellation only if a stop took it before that and its body is over      *)
(* (runner.ts: ensureRunning, startShell, cancel, finishRun, complete).      *)
ImplementsTurns == Contract!Spec

(* The doc's claim about the "session-busy" probes (run-state.ts:43, read by *)
(* the elastic park decision): a session with an admitted turn is reported   *)
(* busy by its runner-map entry or by its status key.                        *)
ProbeSeesEveryTurn ==
    (\E r \in Runners : run[r] # None) =>
        \/ runners # None /\ ~Idle(runners)
        \/ status = "busy"

(* Stop returns: whatever else happens on the session meanwhile, a stop that *)
(* found a runner comes back to its caller (it waits for a shell's latch,    *)
(* for the fiber's clean-up and for the ref's lock).                         *)
StopReturns == \A c \in Stops : call[c] = "looked" ~> call[c] = "returned"

(* Only a body that runs keeps callers waiting: when no body runs for good,  *)
(* every prompt that was admitted, deferred or joined gets an answer.        *)
OnlyWorkKeepsCallersWaiting ==
    <>[](\A w \in Works : fiber[w] # "running") =>
        \A t \in Turns : call[t] = "looked" ~>
            (awaits[t] # None /\ done[awaits[t]] # "unset")

=============================================================================
