-------------------------- MODULE TurnRunnerProofs --------------------------
(* Proofs about TurnRunner for every number of runners, prompts, shells and *)
(* stops, and for both settings of Preempt.                                 *)
EXTENDS TurnRunner, TLAPS

LEMMA TypeInit == Init => TypeOK
  BY NamesDistinct DEF Init, Works, Callers, TypeOK, FiberState, CallState

(* Every action keeps the state of the session runner well typed.           *)
LEMMA TypeStep == TypeOK /\ [Next]_vars => TypeOK'
<1> SUFFICES ASSUME TypeOK, [Next]_vars PROVE TypeOK'
  OBVIOUS
<1> USE NamesDistinct DEF Works, Callers, TypeOK, FiberState, CallState
<1>1. ASSUME NEW c \in Callers, Lookup(c) PROVE TypeOK'
  BY <1>1 DEF Lookup
<1>2. ASSUME NEW t \in Turns, TurnStep(t) PROVE TypeOK'
  <2>1. CASE Join(t)       BY <2>1 DEF Join
  <2>2. CASE Defer(t)      BY <2>2 DEF Defer
  <2>3. CASE StartRun(t)   BY <2>3 DEF StartRun
  <2>4. CASE BumpQueued(t) BY <2>4 DEF BumpQueued
  <2> QED BY <1>2, <2>1, <2>2, <2>3, <2>4 DEF TurnStep
<1>3. ASSUME NEW t \in Turns, LoopPass(t) PROVE TypeOK'
  BY <1>3 DEF LoopPass
<1>4. ASSUME NEW t \in Turns, RunStep(t) PROVE TypeOK'
  <2>1. CASE FinishRun(t) BY <2>1 DEF FinishRun
  <2>2. CASE Complete(t)  BY <2>2 DEF Complete, Settle
  <2> QED BY <1>4, <2>1, <2>2 DEF RunStep
<1>5. ASSUME NEW h \in Shells, ShellStep(h) PROVE TypeOK'
  <2>1. CASE RefuseShell(h) BY <2>1 DEF RefuseShell
  <2>2. CASE AdmitShell(h)  BY <2>2 DEF AdmitShell
  <2>3. CASE StartShell(h)  BY <2>3 DEF StartShell
  <2>4. CASE OpenReady(h)   BY <2>4 DEF OpenReady
  <2>5. CASE FinishShell(h) BY <2>5 DEF FinishShell, AfterShell
  <2> QED BY <1>5, <2>1, <2>2, <2>3, <2>4, <2>5 DEF ShellStep
<1>6. ASSUME NEW w \in Works, FiberStep(w) PROVE TypeOK'
  <2>1. CASE Begin(w)           BY <2>1 DEF Begin
  <2>2. CASE Unwound(w)         BY <2>2 DEF Unwound
  <2>3. CASE FinishIdle(w)      BY <2>3 DEF FinishIdle, DropEntry
  <2>4. CASE FinishPublished(w) BY <2>4 DEF FinishPublished
  <2> QED BY <1>6, <2>1, <2>2, <2>3, <2>4 DEF FiberStep
<1>7. ASSUME NEW w \in Works, Finish(w) PROVE TypeOK'
  BY <1>7 DEF Finish
<1>8. ASSUME NEW c \in Stops, StopNothing(c) PROVE TypeOK'
  BY <1>8 DEF StopNothing
<1>9. ASSUME NEW c \in Stops, StopLookup(c) PROVE TypeOK'
  BY <1>9 DEF StopLookup
<1>10. ASSUME NEW c \in Stops, StopStep(c) PROVE TypeOK'
  <2>1. CASE Cancel(c)        BY <2>1 DEF Cancel, WithoutRun
  <2>2. CASE Interrupt(c)     BY <2>2 DEF Interrupt, Interrupted
  <2>3. CASE FailTurn(c)      BY <2>3 DEF FailTurn, Settle
  <2>4. CASE IdleIfCurrent(c) BY <2>4 DEF IdleIfCurrent
  <2>5. CASE StopIdle(c)      BY <2>5 DEF StopIdle, DropEntry
  <2>6. CASE StopPublished(c) BY <2>6 DEF StopPublished
  <2> QED BY <1>10, <2>1, <2>2, <2>3, <2>4, <2>5, <2>6 DEF StopStep
<1>11. CASE UNCHANGED vars
  BY <1>11 DEF vars
<1> QED
  BY <1>1, <1>2, <1>3, <1>4, <1>5, <1>6, <1>7, <1>8, <1>9, <1>10, <1>11 DEF Next, System

(* Every reachable state of the session runner is well typed.               *)
THEOREM TypeCorrect == Spec => []TypeOK
  BY TypeInit, TypeStep, PTL DEF Spec

-----------------------------------------------------------------------------
(* The inductive invariant.  NoRunawayFiber and StopIsFinal do not survive a *)
(* step on their own: they need to know where each name may be found.        *)

\* A call that has not committed to its runner appears nowhere.
Fresh ==
    /\ \A t \in Turns : call[t] \in {"ready", "looked"} =>
          /\ fiber[t] = "none" /\ awaits[t] = None
          /\ \A r \in Runners : run[r] # t
          /\ \A c \in Stops : stopRun[c] # t
    /\ \A h \in Shells : call[h] \in {"ready", "looked", "opening", "busyError"} =>
          /\ fiber[h] = "none"
          /\ \A r \in Runners : shell[r] # h
          /\ \A c \in Stops : stopShell[c] # h

\* A runner names only work that came through it, and a deferred run has no fiber.
Home ==
    \A r \in Runners :
        /\ shell[r] # None => /\ via[shell[r]] = r
                              /\ fiber[shell[r]] \in {"forked", "running", "exited"}
        /\ run[r] # None => /\ via[run[r]] = r
                            /\ IF shell[r] # None
                               THEN fiber[run[r]] = "none"
                               ELSE fiber[run[r]] \in {"forked", "running", "exited"}

\* While onBusy publishes, the runner stays Idle under the shell's lock.
Locked ==
    \A h \in Shells : call[h] = "opening" =>
        via[h] \in Runners /\ lock[via[h]] = h /\ Idle(via[h])

\* What a stop took off a runner is on no runner, and its deferred run has no fiber.
Taken ==
    \A c \in Stops :
        /\ call[c] \in {"ready", "looked"} => stopShell[c] = None /\ stopRun[c] = None
        /\ call[c] \in {"stopping", "joining"} => Target(c) # None
        /\ stopShell[c] # None => \A r \in Runners : shell[r] # stopShell[c]
        /\ stopRun[c] # None => \A r \in Runners : run[r] # stopRun[c]
        /\ stopShell[c] # None /\ stopRun[c] # None => fiber[stopRun[c]] = "none"

\* A prompt that joined another's turn never becomes a run.
Discarded ==
    \A t \in Turns : awaits[t] \notin {None, t} =>
        fiber[t] = "none" /\ \A r \in Runners : run[r] # t

IInv ==
    /\ TypeOK /\ Fresh /\ Home /\ Locked /\ Taken /\ Discarded
    /\ NoRunawayFiber /\ StopIsFinal /\ NoLostCaller

(* Every step of the runner, of the works and of the stops keeps the         *)
(* inductive invariant: one step per action.  The conjuncts about names that *)
(* have not been used yet (Fresh, Locked, Discarded, NoLostCaller) need only *)
(* each other; where a name may be found (Home, Taken) and what may run      *)
(* (NoRunawayFiber, StopIsFinal) need those.                                 *)
LEMMA InductiveStep == IInv /\ [Next]_vars => IInv'
<1> SUFFICES ASSUME IInv, [Next]_vars PROVE IInv'
  OBVIOUS
<1> USE NamesDistinct DEF Works, Callers, TypeOK, FiberState, CallState
<1>0. TypeOK /\ TypeOK'
  BY TypeStep DEF IInv
<1>1. ASSUME NEW c \in Works, Lookup(c) PROVE IInv'
  <2>1. Fresh' /\ Locked' /\ Discarded' /\ NoLostCaller'
    BY <1>0, <1>1 DEF Lookup, Idle, IInv, Fresh, Locked, Discarded, NoLostCaller
  <2>2. Home' /\ Taken'
    BY <1>0, <1>1 DEF Lookup, Idle, IInv, Fresh, Home, Locked, Taken, Target
  <2>3. NoRunawayFiber'
    BY <1>0, <1>1 DEF Lookup, IInv, Fresh, Home, Taken, NoRunawayFiber, Live, Owned, Target
  <2>4. StopIsFinal'
    BY <1>0, <1>1 DEF Lookup, IInv, Fresh, Home, Taken, StopIsFinal, Target
  <2> QED BY <1>0, <2>1, <2>2, <2>3, <2>4 DEF IInv
<1>2. ASSUME NEW t \in Turns, Join(t) PROVE IInv'
  <2>1. Fresh' /\ Locked' /\ Discarded' /\ NoLostCaller'
    BY <1>0, <1>2 DEF Join, Unlocked, Idle, IInv, Fresh, Locked, Discarded, NoLostCaller
  <2>2. Home' /\ Taken'
    BY <1>0, <1>2 DEF Join, Unlocked, Idle, IInv, Fresh, Home, Locked, Taken, Target
  <2>3. NoRunawayFiber'
    BY <1>0, <1>2 DEF Join, Unlocked, IInv, Fresh, Home, Taken, NoRunawayFiber, Live, Owned, Target
  <2>4. StopIsFinal'
    BY <1>0, <1>2 DEF Join, Unlocked, IInv, Fresh, Home, Taken, StopIsFinal, Target
  <2> QED BY <1>0, <2>1, <2>2, <2>3, <2>4 DEF IInv
<1>3. ASSUME NEW t \in Turns, Defer(t) PROVE IInv'
  <2>1. Fresh' /\ Locked' /\ Discarded' /\ NoLostCaller'
    BY <1>0, <1>3 DEF Defer, Unlocked, Idle, IInv, Fresh, Locked, Discarded, NoLostCaller
  <2>2. Home' /\ Taken'
    BY <1>0, <1>3 DEF Defer, Unlocked, Idle, IInv, Fresh, Home, Locked, Taken, Target
  <2>3. NoRunawayFiber'
    BY <1>0, <1>3 DEF Defer, Unlocked, IInv, Fresh, Home, Taken, NoRunawayFiber, Live, Owned, Target
  <2>4. StopIsFinal'
    BY <1>0, <1>3 DEF Defer, Unlocked, IInv, Fresh, Home, Taken, StopIsFinal, Target
  <2> QED BY <1>0, <2>1, <2>2, <2>3, <2>4 DEF IInv
<1>4. ASSUME NEW t \in Turns, StartRun(t) PROVE IInv'
  <2>1. Fresh' /\ Locked' /\ Discarded' /\ NoLostCaller'
    BY <1>0, <1>4 DEF StartRun, Unlocked, Idle, IInv, Fresh, Locked, Discarded, NoLostCaller
  <2>2. Home' /\ Taken'
    BY <1>0, <1>4 DEF StartRun, Unlocked, Idle, IInv, Fresh, Home, Locked, Taken, Target
  <2>3. NoRunawayFiber'
    BY <1>0, <1>4 DEF StartRun, Unlocked, Idle, IInv, Fresh, Home, Taken, NoRunawayFiber, Live, Owned, Target
  <2>4. StopIsFinal'
    BY <1>0, <1>4 DEF StartRun, Unlocked, Idle, IInv, Fresh, Home, Taken, StopIsFinal, Target
  <2> QED BY <1>0, <2>1, <2>2, <2>3, <2>4 DEF IInv
<1>5. ASSUME NEW t \in Turns, BumpQueued(t) PROVE IInv'
  BY <1>0, <1>5 DEF BumpQueued, IInv, Fresh, Home, Locked, Taken, Discarded,
     NoRunawayFiber, Live, Owned, StopIsFinal, NoLostCaller, Idle, Target
<1>6. ASSUME NEW t \in Turns, LoopPass(t) PROVE IInv'
  BY <1>0, <1>6 DEF LoopPass, IInv, Fresh, Home, Locked, Taken, Discarded,
     NoRunawayFiber, Live, Owned, StopIsFinal, NoLostCaller, Idle, Target
<1>7. ASSUME NEW t \in Turns, FinishRun(t) PROVE IInv'
  <2>1. Fresh' /\ Locked' /\ Discarded' /\ NoLostCaller'
    BY <1>0, <1>7 DEF FinishRun, Unlocked, Idle, IInv, Fresh, Locked, Discarded, NoLostCaller
  <2>2. Home' /\ Taken'
    BY <1>0, <1>7 DEF FinishRun, Unlocked, Idle, IInv, Fresh, Home, Locked, Taken, Target
  <2>3. NoRunawayFiber'
    BY <1>0, <1>7 DEF FinishRun, Unlocked, IInv, Fresh, Home, Taken, NoRunawayFiber, Live, Owned, Target
  <2>4. StopIsFinal'
    BY <1>0, <1>7 DEF FinishRun, Unlocked, IInv, Fresh, Home, Taken, StopIsFinal, Target
  <2> QED BY <1>0, <2>1, <2>2, <2>3, <2>4 DEF IInv
<1>8. ASSUME NEW t \in Turns, Complete(t) PROVE IInv'
  <2>1. Fresh' /\ Locked' /\ Discarded' /\ NoLostCaller'
    BY <1>0, <1>8 DEF Complete, Settle, Idle, IInv, Fresh, Locked, Discarded, NoLostCaller
  <2>2. Home' /\ Taken'
    BY <1>0, <1>8 DEF Complete, Settle, Idle, IInv, Fresh, Home, Locked, Taken, Target
  <2>3. NoRunawayFiber'
    BY <1>0, <1>8 DEF Complete, Settle, IInv, Fresh, Home, Taken, NoRunawayFiber, Live, Owned, Target
  <2>4. StopIsFinal'
    BY <1>0, <1>8 DEF Complete, Settle, IInv, Fresh, Home, Taken, StopIsFinal, Target
  <2> QED BY <1>0, <2>1, <2>2, <2>3, <2>4 DEF IInv
<1>9. ASSUME NEW h \in Shells, RefuseShell(h) PROVE IInv'
  BY <1>0, <1>9 DEF RefuseShell, Admits, Unlocked, Idle, IInv, Fresh, Home, Locked, Taken, Discarded,
     NoRunawayFiber, Live, Owned, StopIsFinal, NoLostCaller, Target
<1>10. ASSUME NEW h \in Shells, AdmitShell(h) PROVE IInv'
  <2>1. Fresh' /\ Locked' /\ Discarded' /\ NoLostCaller'
    BY <1>0, <1>10 DEF AdmitShell, Admits, Unlocked, Idle, IInv, Fresh, Locked, Discarded, NoLostCaller
  <2>2. Home' /\ Taken'
    BY <1>0, <1>10 DEF AdmitShell, Admits, Unlocked, Idle, IInv, Fresh, Home, Locked, Taken, Target
  <2>3. NoRunawayFiber'
    BY <1>0, <1>10 DEF AdmitShell, Admits, Unlocked, Idle, IInv, Fresh, Home, Taken, NoRunawayFiber, Live, Owned, Target
  <2>4. StopIsFinal'
    BY <1>0, <1>10 DEF AdmitShell, Admits, Unlocked, Idle, IInv, Fresh, Home, Taken, StopIsFinal, Target
  <2> QED BY <1>0, <2>1, <2>2, <2>3, <2>4 DEF IInv
<1>11. ASSUME NEW h \in Shells, StartShell(h) PROVE IInv'
  <2>1. Fresh' /\ Locked' /\ Discarded' /\ NoLostCaller'
    BY <1>0, <1>11 DEF StartShell, Idle, IInv, Fresh, Locked, Discarded, NoLostCaller
  <2>2. Home' /\ Taken'
    BY <1>0, <1>11 DEF StartShell, Idle, IInv, Fresh, Home, Locked, Taken, Target
  <2>3. NoRunawayFiber'
    BY <1>0, <1>11 DEF StartShell, Idle, IInv, Fresh, Home, Locked, Taken, NoRunawayFiber, Live, Owned, Target
  <2>4. StopIsFinal'
    BY <1>0, <1>11 DEF StartShell, Idle, IInv, Fresh, Home, Taken, StopIsFinal, Target
  <2> QED BY <1>0, <2>1, <2>2, <2>3, <2>4 DEF IInv
<1>12. ASSUME NEW h \in Shells, OpenReady(h) PROVE IInv'
  BY <1>0, <1>12 DEF OpenReady, IInv, Fresh, Home, Locked, Taken, Discarded,
     NoRunawayFiber, Live, Owned, StopIsFinal, NoLostCaller, Idle, Target
<1>13. ASSUME NEW h \in Shells, FinishShell(h) PROVE IInv'
  <2>1. Fresh' /\ Locked' /\ Discarded' /\ NoLostCaller'
    BY <1>0, <1>13 DEF FinishShell, AfterShell, Unlocked, Idle, IInv, Fresh, Locked, Discarded, NoLostCaller
  <2>2. Home' /\ Taken'
    BY <1>0, <1>13 DEF FinishShell, AfterShell, Unlocked, Idle, IInv, Fresh, Home, Locked, Taken, Target
  <2>3. NoRunawayFiber'
    BY <1>0, <1>13 DEF FinishShell, AfterShell, Unlocked, IInv, Fresh, Home, Taken, NoRunawayFiber, Live, Owned, Target
  <2>4. StopIsFinal'
    BY <1>0, <1>13 DEF FinishShell, AfterShell, Unlocked, IInv, Fresh, Home, Taken, StopIsFinal, Target
  <2> QED BY <1>0, <2>1, <2>2, <2>3, <2>4 DEF IInv
<1>14. ASSUME NEW w \in Works, Begin(w) PROVE IInv'
  <2>1. Fresh' /\ Locked' /\ Discarded' /\ NoLostCaller'
    BY <1>0, <1>14 DEF Begin, Idle, IInv, Fresh, Locked, Discarded, NoLostCaller
  <2>2. Home' /\ Taken'
    BY <1>0, <1>14 DEF Begin, Idle, IInv, Fresh, Home, Locked, Taken, Target
  <2>3. NoRunawayFiber'
    BY <1>0, <1>14 DEF Begin, IInv, Fresh, Home, Taken, NoRunawayFiber, Live, Owned, Target
  <2>4. StopIsFinal'
    BY <1>0, <1>14 DEF Begin, IInv, Fresh, Home, Taken, StopIsFinal, Target
  <2> QED BY <1>0, <2>1, <2>2, <2>3, <2>4 DEF IInv
<1>15. ASSUME NEW w \in Works, Unwound(w) PROVE IInv'
  <2>1. Fresh' /\ Locked' /\ Discarded' /\ NoLostCaller'
    BY <1>0, <1>15 DEF Unwound, Idle, IInv, Fresh, Locked, Discarded, NoLostCaller
  <2>2. Home' /\ Taken'
    BY <1>0, <1>15 DEF Unwound, Idle, IInv, Fresh, Home, Locked, Taken, Target
  <2>3. NoRunawayFiber'
    BY <1>0, <1>15 DEF Unwound, IInv, Fresh, Home, Taken, NoRunawayFiber, Live, Owned, Target
  <2>4. StopIsFinal'
    BY <1>0, <1>15 DEF Unwound, IInv, Fresh, Home, Taken, StopIsFinal, Target
  <2> QED BY <1>0, <2>1, <2>2, <2>3, <2>4 DEF IInv
<1>16. ASSUME NEW w \in Works, FinishIdle(w) PROVE IInv'
  <2>1. Fresh' /\ Locked' /\ Discarded' /\ NoLostCaller'
    BY <1>0, <1>16 DEF FinishIdle, DropEntry, Idle, IInv, Fresh, Locked, Discarded, NoLostCaller
  <2>2. Home' /\ Taken'
    BY <1>0, <1>16 DEF FinishIdle, DropEntry, Idle, IInv, Fresh, Home, Locked, Taken, Target
  <2>3. NoRunawayFiber'
    BY <1>0, <1>16 DEF FinishIdle, DropEntry, IInv, Fresh, Home, Taken, NoRunawayFiber, Live, Owned, Target
  <2>4. StopIsFinal'
    BY <1>0, <1>16 DEF FinishIdle, DropEntry, IInv, Fresh, Home, Taken, StopIsFinal, Target
  <2> QED BY <1>0, <2>1, <2>2, <2>3, <2>4 DEF IInv
<1>17. ASSUME NEW w \in Works, FinishPublished(w) PROVE IInv'
  <2>1. Fresh' /\ Locked' /\ Discarded' /\ NoLostCaller'
    BY <1>0, <1>17 DEF FinishPublished, Idle, IInv, Fresh, Locked, Discarded, NoLostCaller
  <2>2. Home' /\ Taken'
    BY <1>0, <1>17 DEF FinishPublished, Idle, IInv, Fresh, Home, Locked, Taken, Target
  <2>3. NoRunawayFiber'
    BY <1>0, <1>17 DEF FinishPublished, IInv, Fresh, Home, Taken, NoRunawayFiber, Live, Owned, Target
  <2>4. StopIsFinal'
    BY <1>0, <1>17 DEF FinishPublished, IInv, Fresh, Home, Taken, StopIsFinal, Target
  <2> QED BY <1>0, <2>1, <2>2, <2>3, <2>4 DEF IInv
<1>18. ASSUME NEW w \in Works, Finish(w) PROVE IInv'
  <2>1. Fresh' /\ Locked' /\ Discarded' /\ NoLostCaller'
    BY <1>0, <1>18 DEF Finish, Idle, IInv, Fresh, Locked, Discarded, NoLostCaller
  <2>2. Home' /\ Taken'
    BY <1>0, <1>18 DEF Finish, Idle, IInv, Fresh, Home, Locked, Taken, Target
  <2>3. NoRunawayFiber'
    BY <1>0, <1>18 DEF Finish, IInv, Fresh, Home, Taken, NoRunawayFiber, Live, Owned, Target
  <2>4. StopIsFinal'
    BY <1>0, <1>18 DEF Finish, IInv, Fresh, Home, Taken, StopIsFinal, Target
  <2> QED BY <1>0, <2>1, <2>2, <2>3, <2>4 DEF IInv
<1>19. ASSUME NEW c \in Stops, StopNothing(c) PROVE IInv'
  BY <1>0, <1>19 DEF StopNothing, IInv, Fresh, Home, Locked, Taken, Discarded,
     NoRunawayFiber, Live, Owned, StopIsFinal, NoLostCaller, Idle, Target
<1>20. ASSUME NEW c \in Stops, StopLookup(c) PROVE IInv'
  BY <1>0, <1>20 DEF StopLookup, IInv, Fresh, Home, Locked, Taken, Discarded,
     NoRunawayFiber, Live, Owned, StopIsFinal, NoLostCaller, Idle, Target
<1>21. ASSUME NEW c \in Stops, Cancel(c) PROVE IInv'
  <2>1. Fresh' /\ Locked' /\ Discarded' /\ NoLostCaller'
    BY <1>0, <1>21 DEF Cancel, WithoutRun, Unlocked, Idle, IInv, Fresh, Locked, Discarded, NoLostCaller
  <2>2. Home' /\ Taken'
    BY <1>0, <1>21 DEF Cancel, WithoutRun, Unlocked, Idle, IInv, Fresh, Home, Locked, Taken, Target
  <2>3. NoRunawayFiber'
    BY <1>0, <1>21 DEF Cancel, WithoutRun, Unlocked, Idle, IInv, Fresh, Home, Taken, NoRunawayFiber, Live, Owned, Target
  <2>4. StopIsFinal'
    BY <1>0, <1>21 DEF Cancel, WithoutRun, Unlocked, Idle, IInv, Fresh, Home, Taken, StopIsFinal, Target
  <2> QED BY <1>0, <2>1, <2>2, <2>3, <2>4 DEF IInv
<1>22. ASSUME NEW c \in Stops, Interrupt(c) PROVE IInv'
  <2>1. Fresh' /\ Locked' /\ Discarded' /\ NoLostCaller'
    BY <1>0, <1>22 DEF Interrupt, Interrupted, Idle, IInv, Fresh, Locked, Discarded, NoLostCaller
  <2>2. Home' /\ Taken'
    BY <1>0, <1>22 DEF Interrupt, Interrupted, Idle, IInv, Fresh, Home, Locked, Taken, Target
  <2>3. NoRunawayFiber'
    BY <1>0, <1>22 DEF Interrupt, Interrupted, IInv, Fresh, Home, Taken, NoRunawayFiber, Live, Owned, Target
  <2>4. StopIsFinal'
    BY <1>0, <1>22 DEF Interrupt, Interrupted, IInv, Fresh, Home, Taken, StopIsFinal, Target
  <2> QED BY <1>0, <2>1, <2>2, <2>3, <2>4 DEF IInv
<1>23. ASSUME NEW c \in Stops, FailTurn(c) PROVE IInv'
  <2>1. Fresh' /\ Locked' /\ Discarded' /\ NoLostCaller'
    BY <1>0, <1>23 DEF FailTurn, Settle, Idle, IInv, Fresh, Locked, Discarded, NoLostCaller
  <2>2. Home' /\ Taken'
    BY <1>0, <1>23 DEF FailTurn, Settle, Idle, IInv, Fresh, Home, Locked, Taken, Target
  <2>3. NoRunawayFiber'
    BY <1>0, <1>23 DEF FailTurn, Settle, IInv, Fresh, Home, Taken, NoRunawayFiber, Live, Owned, Target
  <2>4. StopIsFinal'
    BY <1>0, <1>23 DEF FailTurn, Settle, IInv, Fresh, Home, Taken, StopIsFinal, Target
  <2> QED BY <1>0, <2>1, <2>2, <2>3, <2>4 DEF IInv
<1>24. ASSUME NEW c \in Stops, IdleIfCurrent(c) PROVE IInv'
  BY <1>0, <1>24 DEF IdleIfCurrent, Unlocked, IInv, Fresh, Home, Locked, Taken, Discarded,
     NoRunawayFiber, Live, Owned, StopIsFinal, NoLostCaller, Idle, Target
<1>25. ASSUME NEW c \in Stops, StopIdle(c) PROVE IInv'
  BY <1>0, <1>25 DEF StopIdle, DropEntry, IInv, Fresh, Home, Locked, Taken, Discarded,
     NoRunawayFiber, Live, Owned, StopIsFinal, NoLostCaller, Idle, Target
<1>26. ASSUME NEW c \in Stops, StopPublished(c) PROVE IInv'
  BY <1>0, <1>26 DEF StopPublished, IInv, Fresh, Home, Locked, Taken, Discarded,
     NoRunawayFiber, Live, Owned, StopIsFinal, NoLostCaller, Idle, Target
<1>27. CASE UNCHANGED vars
  BY <1>0, <1>27 DEF vars, IInv, Fresh, Home, Locked, Taken, Discarded,
     NoRunawayFiber, Live, Owned, StopIsFinal, NoLostCaller, Idle, Target
<1> QED
  BY <1>1, <1>2, <1>3, <1>4, <1>5, <1>6, <1>7, <1>8, <1>9, <1>10, <1>11, <1>12, <1>13, <1>14, <1>15, <1>16, <1>17, <1>18, <1>19, <1>20, <1>21, <1>22, <1>23, <1>24, <1>25, <1>26, <1>27
  DEF Next, System, TurnStep, RunStep, ShellStep, FiberStep, StopStep

LEMMA Invariant == Spec => []IInv
<1>1. Init => IInv
  BY NamesDistinct, TypeInit DEF Init, Works, Callers, IInv, Fresh, Home, Locked, Taken, Discarded,
     NoRunawayFiber, Live, StopIsFinal, NoLostCaller, Idle, Target
<1> QED
  BY <1>1, InductiveStep, PTL DEF Spec

(* No interleaving of prompts, shell commands and stops leaves a fiber       *)
(* working that neither its runner names nor a pending stop will interrupt.  *)
THEOREM NoRunaway == Spec => []NoRunawayFiber
  BY Invariant, PTL DEF IInv

(* A stop that has waited its fiber out leaves nothing of what it stopped    *)
(* running, startable or unanswered.                                         *)
THEOREM StopsAreFinal == Spec => []StopIsFinal
  BY Invariant, PTL DEF IInv

(* A waiting prompt always waits on a Deferred somebody will complete.       *)
THEOREM CallersAreNotLost == Spec => []NoLostCaller
  BY Invariant, PTL DEF IInv

(* A prompt that joined another's turn never has its own work started.       *)
THEOREM JoinedWorkIsDropped == Spec => []DiscardedNeverRuns
<1>1. IInv => DiscardedNeverRuns
  BY DEF IInv, Discarded, DiscardedNeverRuns
<1> QED
  BY <1>1, Invariant, PTL

-----------------------------------------------------------------------------
(* What a stop waits for.  The fibers it depends on are the runtime's to     *)
(* move: none of its waits needs a body to end by itself.                    *)

\* A runner's lock is held by the shell whose status it publishes.
Publishing ==
    \A r \in Runners : lock[r] # None => call[lock[r]] = "opening" /\ via[lock[r]] = r

\* A shell leaves its body only after it has opened its latch.
Latched ==
    \A h \in Shells : fiber[h] \in {"none", "forked", "running", "gone"} \/ h \in ready

(* A stop waits for a lock only while a status is published, for a latch     *)
(* only while its shell is on the way to it, and for a fiber only when that  *)
(* has been interrupted or has left its body.                                *)
StopsWaitForTheRuntime ==
    \A c \in Stops :
        /\ call[c] \in {"looked", "checking"} /\ ~Unlocked(via[c]) =>
              call[lock[via[c]]] = "opening"
        /\ call[c] = "stopping" =>
              \/ stopShell[c] \in ready \cup {None}
              \/ fiber[stopShell[c]] \in {"forked", "running"}
        /\ call[c] = "joining" => fiber[Target(c)] \notin {"none", "forked", "running"}

\* A stop knows its runner, and what it interrupts has been forked.
Begun ==
    \A c \in Stops :
        /\ call[c] \in {"looked", "stopping", "joining", "checking"} => via[c] \in Runners
        /\ call[c] = "stopping" => fiber[Target(c)] # "none"

WaitInv == Publishing /\ Latched /\ StopsWaitForTheRuntime /\ Begun

(* Every step keeps what stops wait for: one step per action.                *)
LEMMA WaitStep == IInv /\ WaitInv /\ [Next]_vars => WaitInv'
<1> SUFFICES ASSUME IInv, WaitInv, [Next]_vars PROVE WaitInv'
  OBVIOUS
<1> USE NamesDistinct DEF Works, Callers, TypeOK, FiberState, CallState
<1>0. TypeOK /\ TypeOK'
  BY TypeStep DEF IInv
<1>1. ASSUME NEW c \in Works, Lookup(c) PROVE WaitInv'
  <2>1. Publishing' /\ Latched'
    BY <1>0, <1>1 DEF Lookup, WaitInv, Publishing, Latched, IInv, Fresh, Home, Taken, Target
  <2>2. StopsWaitForTheRuntime' /\ Begun'
    BY <1>0, <1>1, <2>1 DEF Lookup, WaitInv, Publishing, Latched, StopsWaitForTheRuntime, Begun,
       IInv, Fresh, Home, Taken, Target, Unlocked
  <2> QED BY <2>1, <2>2 DEF WaitInv
<1>2. ASSUME NEW t \in Turns, Join(t) PROVE WaitInv'
  <2>1. Publishing' /\ Latched'
    BY <1>0, <1>2 DEF Join, Unlocked, WaitInv, Publishing, Latched, IInv, Fresh, Home, Taken, Target
  <2>2. StopsWaitForTheRuntime' /\ Begun'
    BY <1>0, <1>2, <2>1 DEF Join, Unlocked, WaitInv, Publishing, Latched, StopsWaitForTheRuntime, Begun,
       IInv, Fresh, Home, Taken, Target, Unlocked
  <2> QED BY <2>1, <2>2 DEF WaitInv
<1>3. ASSUME NEW t \in Turns, Defer(t) PROVE WaitInv'
  <2>1. Publishing' /\ Latched'
    BY <1>0, <1>3 DEF Defer, Unlocked, WaitInv, Publishing, Latched, IInv, Fresh, Home, Taken, Target
  <2>2. StopsWaitForTheRuntime' /\ Begun'
    BY <1>0, <1>3, <2>1 DEF Defer, Unlocked, WaitInv, Publishing, Latched, StopsWaitForTheRuntime, Begun,
       IInv, Fresh, Home, Taken, Target, Unlocked
  <2> QED BY <2>1, <2>2 DEF WaitInv
<1>4. ASSUME NEW t \in Turns, StartRun(t) PROVE WaitInv'
  <2>1. Publishing' /\ Latched'
    BY <1>0, <1>4 DEF StartRun, Unlocked, Idle, WaitInv, Publishing, Latched, IInv, Fresh, Home, Taken, Target
  <2>2. StopsWaitForTheRuntime' /\ Begun'
    BY <1>0, <1>4, <2>1 DEF StartRun, Unlocked, Idle, WaitInv, Publishing, Latched, StopsWaitForTheRuntime, Begun,
       IInv, Fresh, Home, Taken, Target, Unlocked
  <2> QED BY <2>1, <2>2 DEF WaitInv
<1>5. ASSUME NEW t \in Turns, BumpQueued(t) PROVE WaitInv'
  <2>1. Publishing' /\ Latched'
    BY <1>0, <1>5 DEF BumpQueued, WaitInv, Publishing, Latched, IInv, Fresh, Home, Taken, Target
  <2>2. StopsWaitForTheRuntime' /\ Begun'
    BY <1>0, <1>5, <2>1 DEF BumpQueued, WaitInv, Publishing, Latched, StopsWaitForTheRuntime, Begun,
       IInv, Fresh, Home, Taken, Target, Unlocked
  <2> QED BY <2>1, <2>2 DEF WaitInv
<1>6. ASSUME NEW t \in Turns, LoopPass(t) PROVE WaitInv'
  <2>1. Publishing' /\ Latched'
    BY <1>0, <1>6 DEF LoopPass, WaitInv, Publishing, Latched, IInv, Fresh, Home, Taken, Target
  <2>2. StopsWaitForTheRuntime' /\ Begun'
    BY <1>0, <1>6, <2>1 DEF LoopPass, WaitInv, Publishing, Latched, StopsWaitForTheRuntime, Begun,
       IInv, Fresh, Home, Taken, Target, Unlocked
  <2> QED BY <2>1, <2>2 DEF WaitInv
<1>7. ASSUME NEW t \in Turns, FinishRun(t) PROVE WaitInv'
  <2>1. Publishing' /\ Latched'
    BY <1>0, <1>7 DEF FinishRun, Unlocked, WaitInv, Publishing, Latched, IInv, Fresh, Home, Taken, Target
  <2>2. StopsWaitForTheRuntime' /\ Begun'
    BY <1>0, <1>7, <2>1 DEF FinishRun, Unlocked, WaitInv, Publishing, Latched, StopsWaitForTheRuntime, Begun,
       IInv, Fresh, Home, Taken, Target, Unlocked
  <2> QED BY <2>1, <2>2 DEF WaitInv
<1>8. ASSUME NEW t \in Turns, Complete(t) PROVE WaitInv'
  <2>1. Publishing' /\ Latched'
    BY <1>0, <1>8 DEF Complete, Settle, WaitInv, Publishing, Latched, IInv, Fresh, Home, Taken, Target
  <2>2. StopsWaitForTheRuntime' /\ Begun'
    BY <1>0, <1>8, <2>1 DEF Complete, Settle, WaitInv, Publishing, Latched, StopsWaitForTheRuntime, Begun,
       IInv, Fresh, Home, Taken, Target, Unlocked
  <2> QED BY <2>1, <2>2 DEF WaitInv
<1>9. ASSUME NEW h \in Shells, RefuseShell(h) PROVE WaitInv'
  <2>1. Publishing' /\ Latched'
    BY <1>0, <1>9 DEF RefuseShell, Admits, Unlocked, Idle, WaitInv, Publishing, Latched, IInv, Fresh, Home, Taken, Target
  <2>2. StopsWaitForTheRuntime' /\ Begun'
    BY <1>0, <1>9, <2>1 DEF RefuseShell, Admits, Unlocked, Idle, WaitInv, Publishing, Latched, StopsWaitForTheRuntime, Begun,
       IInv, Fresh, Home, Taken, Target, Unlocked
  <2> QED BY <2>1, <2>2 DEF WaitInv
<1>10. ASSUME NEW h \in Shells, AdmitShell(h) PROVE WaitInv'
  <2>1. Publishing' /\ Latched'
    BY <1>0, <1>10 DEF AdmitShell, Admits, Unlocked, Idle, WaitInv, Publishing, Latched, IInv, Fresh, Home, Taken, Target
  <2>2. StopsWaitForTheRuntime' /\ Begun'
    BY <1>0, <1>10, <2>1 DEF AdmitShell, Admits, Unlocked, Idle, WaitInv, Publishing, Latched, StopsWaitForTheRuntime, Begun,
       IInv, Fresh, Home, Taken, Target, Unlocked
  <2> QED BY <2>1, <2>2 DEF WaitInv
<1>11. ASSUME NEW h \in Shells, StartShell(h) PROVE WaitInv'
  <2>1. Publishing' /\ Latched'
    BY <1>0, <1>11 DEF StartShell, WaitInv, Publishing, Latched, IInv, Fresh, Home, Taken, Target
  <2>2. StopsWaitForTheRuntime' /\ Begun'
    BY <1>0, <1>11, <2>1 DEF StartShell, WaitInv, Publishing, Latched, StopsWaitForTheRuntime, Begun,
       IInv, Fresh, Home, Taken, Target, Unlocked
  <2> QED BY <2>1, <2>2 DEF WaitInv
<1>12. ASSUME NEW h \in Shells, OpenReady(h) PROVE WaitInv'
  <2>1. Publishing' /\ Latched'
    BY <1>0, <1>12 DEF OpenReady, WaitInv, Publishing, Latched, IInv, Fresh, Home, Taken, Target
  <2>2. StopsWaitForTheRuntime' /\ Begun'
    BY <1>0, <1>12, <2>1 DEF OpenReady, WaitInv, Publishing, Latched, StopsWaitForTheRuntime, Begun,
       IInv, Fresh, Home, Taken, Target, Unlocked
  <2> QED BY <2>1, <2>2 DEF WaitInv
<1>13. ASSUME NEW h \in Shells, FinishShell(h) PROVE WaitInv'
  <2>1. Publishing' /\ Latched'
    BY <1>0, <1>13 DEF FinishShell, AfterShell, Unlocked, WaitInv, Publishing, Latched, IInv, Fresh, Home, Taken, Target
  <2>2. StopsWaitForTheRuntime' /\ Begun'
    BY <1>0, <1>13, <2>1 DEF FinishShell, AfterShell, Unlocked, WaitInv, Publishing, Latched, StopsWaitForTheRuntime, Begun,
       IInv, Fresh, Home, Taken, Target, Unlocked
  <2> QED BY <2>1, <2>2 DEF WaitInv
<1>14. ASSUME NEW w \in Works, Begin(w) PROVE WaitInv'
  <2>1. Publishing' /\ Latched'
    BY <1>0, <1>14 DEF Begin, WaitInv, Publishing, Latched, IInv, Fresh, Home, Taken, Target
  <2>2. StopsWaitForTheRuntime' /\ Begun'
    BY <1>0, <1>14, <2>1 DEF Begin, WaitInv, Publishing, Latched, StopsWaitForTheRuntime, Begun,
       IInv, Fresh, Home, Taken, Target, Unlocked
  <2> QED BY <2>1, <2>2 DEF WaitInv
<1>15. ASSUME NEW w \in Works, Unwound(w) PROVE WaitInv'
  <2>1. Publishing' /\ Latched'
    BY <1>0, <1>15 DEF Unwound, WaitInv, Publishing, Latched, IInv, Fresh, Home, Taken, Target
  <2>2. StopsWaitForTheRuntime' /\ Begun'
    BY <1>0, <1>15, <2>1 DEF Unwound, WaitInv, Publishing, Latched, StopsWaitForTheRuntime, Begun,
       IInv, Fresh, Home, Taken, Target, Unlocked
  <2> QED BY <2>1, <2>2 DEF WaitInv
<1>16. ASSUME NEW w \in Works, FinishIdle(w) PROVE WaitInv'
  <2>1. Publishing' /\ Latched'
    BY <1>0, <1>16 DEF FinishIdle, DropEntry, WaitInv, Publishing, Latched, IInv, Fresh, Home, Taken, Target
  <2>2. StopsWaitForTheRuntime' /\ Begun'
    BY <1>0, <1>16, <2>1 DEF FinishIdle, DropEntry, WaitInv, Publishing, Latched, StopsWaitForTheRuntime, Begun,
       IInv, Fresh, Home, Taken, Target, Unlocked
  <2> QED BY <2>1, <2>2 DEF WaitInv
<1>17. ASSUME NEW w \in Works, FinishPublished(w) PROVE WaitInv'
  <2>1. Publishing' /\ Latched'
    BY <1>0, <1>17 DEF FinishPublished, WaitInv, Publishing, Latched, IInv, Fresh, Home, Taken, Target
  <2>2. StopsWaitForTheRuntime' /\ Begun'
    BY <1>0, <1>17, <2>1 DEF FinishPublished, WaitInv, Publishing, Latched, StopsWaitForTheRuntime, Begun,
       IInv, Fresh, Home, Taken, Target, Unlocked
  <2> QED BY <2>1, <2>2 DEF WaitInv
<1>18. ASSUME NEW w \in Works, Finish(w) PROVE WaitInv'
  <2>1. Publishing' /\ Latched'
    BY <1>0, <1>18 DEF Finish, WaitInv, Publishing, Latched, IInv, Fresh, Home, Taken, Target
  <2>2. StopsWaitForTheRuntime' /\ Begun'
    BY <1>0, <1>18, <2>1 DEF Finish, WaitInv, Publishing, Latched, StopsWaitForTheRuntime, Begun,
       IInv, Fresh, Home, Taken, Target, Unlocked
  <2> QED BY <2>1, <2>2 DEF WaitInv
<1>19. ASSUME NEW c \in Stops, StopNothing(c) PROVE WaitInv'
  <2>1. Publishing' /\ Latched'
    BY <1>0, <1>19 DEF StopNothing, WaitInv, Publishing, Latched, IInv, Fresh, Home, Taken, Target
  <2>2. StopsWaitForTheRuntime' /\ Begun'
    BY <1>0, <1>19, <2>1 DEF StopNothing, WaitInv, Publishing, Latched, StopsWaitForTheRuntime, Begun,
       IInv, Fresh, Home, Taken, Target, Unlocked
  <2> QED BY <2>1, <2>2 DEF WaitInv
<1>20. ASSUME NEW c \in Stops, StopLookup(c) PROVE WaitInv'
  <2>1. Publishing' /\ Latched'
    BY <1>0, <1>20 DEF StopLookup, WaitInv, Publishing, Latched, IInv, Fresh, Home, Taken, Target
  <2>2. StopsWaitForTheRuntime' /\ Begun'
    BY <1>0, <1>20, <2>1 DEF StopLookup, WaitInv, Publishing, Latched, StopsWaitForTheRuntime, Begun,
       IInv, Fresh, Home, Taken, Target, Unlocked
  <2> QED BY <2>1, <2>2 DEF WaitInv
<1>21. ASSUME NEW c \in Stops, Cancel(c) PROVE WaitInv'
  <2>1. Publishing' /\ Latched'
    BY <1>0, <1>21 DEF Cancel, WithoutRun, Unlocked, Idle, WaitInv, Publishing, Latched, IInv, Fresh, Home, Taken, Target
  <2>2. StopsWaitForTheRuntime' /\ Begun'
    BY <1>0, <1>21, <2>1 DEF Cancel, WithoutRun, Unlocked, Idle, WaitInv, Publishing, Latched, StopsWaitForTheRuntime, Begun,
       IInv, Fresh, Home, Taken, Target, Unlocked
  <2> QED BY <2>1, <2>2 DEF WaitInv
<1>22. ASSUME NEW c \in Stops, Interrupt(c) PROVE WaitInv'
  <2>1. Publishing' /\ Latched'
    BY <1>0, <1>22 DEF Interrupt, Interrupted, WaitInv, Publishing, Latched, IInv, Fresh, Home, Taken, Target
  <2>2. StopsWaitForTheRuntime' /\ Begun'
    BY <1>0, <1>22, <2>1 DEF Interrupt, Interrupted, WaitInv, Publishing, Latched, StopsWaitForTheRuntime, Begun,
       IInv, Fresh, Home, Taken, Target, Unlocked
  <2> QED BY <2>1, <2>2 DEF WaitInv
<1>23. ASSUME NEW c \in Stops, FailTurn(c) PROVE WaitInv'
  <2>1. Publishing' /\ Latched'
    BY <1>0, <1>23 DEF FailTurn, Settle, WaitInv, Publishing, Latched, IInv, Fresh, Home, Taken, Target
  <2>2. StopsWaitForTheRuntime' /\ Begun'
    BY <1>0, <1>23, <2>1 DEF FailTurn, Settle, WaitInv, Publishing, Latched, StopsWaitForTheRuntime, Begun,
       IInv, Fresh, Home, Taken, Target, Unlocked
  <2> QED BY <2>1, <2>2 DEF WaitInv
<1>24. ASSUME NEW c \in Stops, IdleIfCurrent(c) PROVE WaitInv'
  <2>1. Publishing' /\ Latched'
    BY <1>0, <1>24 DEF IdleIfCurrent, Unlocked, WaitInv, Publishing, Latched, IInv, Fresh, Home, Taken, Target
  <2>2. StopsWaitForTheRuntime' /\ Begun'
    BY <1>0, <1>24, <2>1 DEF IdleIfCurrent, Unlocked, WaitInv, Publishing, Latched, StopsWaitForTheRuntime, Begun,
       IInv, Fresh, Home, Taken, Target, Unlocked
  <2> QED BY <2>1, <2>2 DEF WaitInv
<1>25. ASSUME NEW c \in Stops, StopIdle(c) PROVE WaitInv'
  <2>1. Publishing' /\ Latched'
    BY <1>0, <1>25 DEF StopIdle, DropEntry, WaitInv, Publishing, Latched, IInv, Fresh, Home, Taken, Target
  <2>2. StopsWaitForTheRuntime' /\ Begun'
    BY <1>0, <1>25, <2>1 DEF StopIdle, DropEntry, WaitInv, Publishing, Latched, StopsWaitForTheRuntime, Begun,
       IInv, Fresh, Home, Taken, Target, Unlocked
  <2> QED BY <2>1, <2>2 DEF WaitInv
<1>26. ASSUME NEW c \in Stops, StopPublished(c) PROVE WaitInv'
  <2>1. Publishing' /\ Latched'
    BY <1>0, <1>26 DEF StopPublished, WaitInv, Publishing, Latched, IInv, Fresh, Home, Taken, Target
  <2>2. StopsWaitForTheRuntime' /\ Begun'
    BY <1>0, <1>26, <2>1 DEF StopPublished, WaitInv, Publishing, Latched, StopsWaitForTheRuntime, Begun,
       IInv, Fresh, Home, Taken, Target, Unlocked
  <2> QED BY <2>1, <2>2 DEF WaitInv
<1>27. CASE UNCHANGED vars
  <2>1. Publishing' /\ Latched'
    BY <1>0, <1>27 DEF vars, WaitInv, Publishing, Latched, IInv, Fresh, Home, Taken, Target
  <2>2. StopsWaitForTheRuntime' /\ Begun'
    BY <1>0, <1>27, <2>1 DEF vars, WaitInv, Publishing, Latched, StopsWaitForTheRuntime, Begun,
       IInv, Fresh, Home, Taken, Target, Unlocked
  <2> QED BY <2>1, <2>2 DEF WaitInv
<1> QED
  BY <1>1, <1>2, <1>3, <1>4, <1>5, <1>6, <1>7, <1>8, <1>9, <1>10, <1>11, <1>12, <1>13, <1>14, <1>15, <1>16, <1>17, <1>18, <1>19, <1>20, <1>21, <1>22, <1>23, <1>24, <1>25, <1>26, <1>27
  DEF Next, System, TurnStep, RunStep, ShellStep, FiberStep, StopStep

(* No stop is ever stuck behind a body: whatever it waits for is a step the  *)
(* runtime takes by itself (the safety half of StopReturns).                 *)
THEOREM StopsAreServed == Spec => []StopsWaitForTheRuntime
<1>1. Init => WaitInv
  BY NamesDistinct DEF Init, Works, Callers, WaitInv, Publishing, Latched,
     StopsWaitForTheRuntime, Begun, Unlocked
<1>2. WaitInv => StopsWaitForTheRuntime
  BY DEF WaitInv
<1> QED BY <1>1, <1>2, Invariant, WaitStep, PTL DEF Spec


-----------------------------------------------------------------------------
(* The contract.  What is to be known besides IInv is how bodies come to an  *)
(* end: by themselves, or because of a stop.                                 *)

\* A body that has not been left has no exit, and one that was left has one.
Exits ==
    \A w \in Works :
        /\ fiber[w] \in {"none", "forked", "running", "unwinding"} => exit[w] = "none"
        /\ fiber[w] \in {"exited", "idling", "publishing", "completing"} =>
              exit[w] \in {"own", "interrupted"}

\* Nothing but a stop keeps a body from its own end.
CutByStop ==
    \A w \in Works : fiber[w] = "unwinding" \/ Body(w) = "cut" => w \in TakenOff

\* A turn that ended by itself has been answered when its fiber is gone.
Answered == \A t \in Turns : fiber[t] = "gone" /\ exit[t] = "own" => done[t] # "unset"

EndInv == Exits /\ CutByStop /\ Answered

(* Every step keeps how bodies end: one step per action that moves a fiber   *)
(* or a Deferred.                                                            *)
LEMMA EndStep == IInv /\ EndInv /\ [Next]_vars => EndInv'
<1> SUFFICES ASSUME IInv, EndInv, [Next]_vars PROVE EndInv'
  OBVIOUS
<1> USE NamesDistinct DEF Works, Callers, TypeOK, FiberState, CallState
<1>0. TypeOK /\ TypeOK'
  BY TypeStep DEF IInv
<1>u. UNCHANGED << fiber, exit, done, stopRun, stopShell >> => EndInv'
  BY DEF EndInv, Exits, CutByStop, Answered, Body, TakenOff
<1>1. ASSUME NEW c \in Works, Lookup(c) PROVE EndInv'
  BY <1>1, <1>u DEF Lookup
<1>2. ASSUME NEW t \in Turns, Join(t) \/ Defer(t) \/ BumpQueued(t) \/ LoopPass(t) PROVE EndInv'
  BY <1>2, <1>u DEF Join, Defer, BumpQueued, LoopPass
<1>3. ASSUME NEW h \in Shells, RefuseShell(h) \/ AdmitShell(h) \/ OpenReady(h) PROVE EndInv'
  BY <1>3, <1>u DEF RefuseShell, AdmitShell, OpenReady
<1>4. ASSUME NEW c \in Stops,
             StopNothing(c) \/ StopLookup(c) \/ IdleIfCurrent(c) \/ StopIdle(c) \/ StopPublished(c)
      PROVE  EndInv'
  BY <1>4, <1>u DEF StopNothing, StopLookup, IdleIfCurrent, StopIdle, StopPublished
<1>5. ASSUME NEW w \in Works, NEW f \in FiberState, fiber' = [fiber EXCEPT ![w] = f],
             UNCHANGED << exit, done, stopRun, stopShell >>,
             exit[w] = "none" => f \in {"forked", "running"},
             exit[w] # "none" =>
                 /\ fiber[w] \notin {"none", "forked", "running", "unwinding", "gone"}
                 /\ f \in {"idling", "publishing", "completing", "gone"}
                 /\ w \in Turns => f # "gone"
      PROVE  EndInv'
  BY <1>0, <1>5 DEF EndInv, Exits, CutByStop, Answered, Body, TakenOff
<1>6. ASSUME NEW t \in Turns, StartRun(t) PROVE EndInv'
  BY <1>0, <1>5, <1>6 DEF StartRun, IInv, Fresh, EndInv, Exits
<1>7. ASSUME NEW h \in Shells, StartShell(h) PROVE EndInv'
  BY <1>0, <1>5, <1>7 DEF StartShell, IInv, Fresh, EndInv, Exits
<1>8. ASSUME NEW w \in Works, Begin(w) \/ FinishIdle(w) \/ FinishPublished(w) PROVE EndInv'
  BY <1>0, <1>5, <1>8 DEF Begin, FinishIdle, FinishPublished, EndInv, Exits
<1>9. ASSUME NEW t \in Turns, FinishRun(t) PROVE EndInv'
  BY <1>0, <1>5, <1>9 DEF FinishRun, EndInv, Exits
<1>10. ASSUME NEW w \in Works, Finish(w) \/ Unwound(w) PROVE EndInv'
  BY <1>0, <1>10 DEF Finish, Unwound, EndInv, Exits, CutByStop, Answered, Body, TakenOff
<1>11. ASSUME NEW h \in Shells, FinishShell(h) PROVE EndInv'
  BY <1>0, <1>11
     DEF FinishShell, AfterShell, IInv, Home, EndInv, Exits, CutByStop, Answered, Body, TakenOff
<1>12. ASSUME NEW t \in Turns, Complete(t) PROVE EndInv'
  BY <1>0, <1>12 DEF Complete, Settle, EndInv, Exits, CutByStop, Answered, Body, TakenOff
<1>13. ASSUME NEW c \in Stops, Cancel(c) PROVE EndInv'
  BY <1>0, <1>13 DEF Cancel, IInv, Taken, EndInv, Exits, CutByStop, Answered, Body, TakenOff
<1>14. ASSUME NEW c \in Stops, Interrupt(c) PROVE EndInv'
  BY <1>0, <1>14
     DEF Interrupt, Interrupted, Target, IInv, Taken, EndInv, Exits, CutByStop, Answered, Body,
         TakenOff
<1>15. ASSUME NEW c \in Stops, FailTurn(c) PROVE EndInv'
  BY <1>0, <1>15 DEF FailTurn, Settle, EndInv, Exits, CutByStop, Answered, Body, TakenOff
<1>16. CASE UNCHANGED vars
  BY <1>16, <1>u DEF vars
<1> QED
  BY <1>1, <1>2, <1>3, <1>4, <1>6, <1>7, <1>8, <1>9, <1>10, <1>11, <1>12, <1>13, <1>14, <1>15,
     <1>16
     DEF Next, System, TurnStep, RunStep, ShellStep, FiberStep, StopStep

Bodies == [w \in Works |-> Body(w)]

\* Fibers move within what the contract calls a body.
LEMMA SameBodies ==
    ASSUME \A w \in Works : Body(w)' = Body(w) PROVE Bodies' = Bodies
  BY DEF Bodies

LEMMA OneBody ==
    ASSUME NEW w \in Works, NEW b, Body(w)' = b, \A v \in Works \ {w} : Body(v)' = Body(v)
    PROVE  Bodies' = [Bodies EXCEPT ![w] = b]
  BY DEF Bodies

(* Every step of the runner is a step or a stutter of the contract.          *)
LEMMA ContractStep ==
    ASSUME IInv, EndInv, [Next]_vars PROVE [Contract!Next]_(Contract!vars)
<1> USE NamesDistinct DEF Works, Callers, TypeOK, FiberState, CallState
<1>0. TypeOK /\ TypeOK'
  BY TypeStep DEF IInv
<1>v. Bodies' = Bodies /\ UNCHANGED << run, shell, stopRun, stopShell, awaits, done >>
        => UNCHANGED Contract!vars
  BY DEF Contract!vars, Bodies, TakenOff
<1>t. UNCHANGED << stopRun, stopShell >> => TakenOff' = TakenOff
  BY DEF TakenOff
<1>u. UNCHANGED << fiber, exit >> => Bodies' = Bodies
  BY DEF Bodies, Body
<1>1. ASSUME NEW c \in Works, Lookup(c) PROVE UNCHANGED Contract!vars
  BY <1>1, <1>u, <1>v DEF Lookup
<1>2. ASSUME NEW t \in Turns, Join(t) PROVE Contract!Prompt(t, via[t])
  <2>1. awaits[t] = None /\ Bodies[t] = "none"
    BY <1>2 DEF Join, IInv, Fresh, Bodies, Body
  <2> QED BY <1>2, <1>t, <1>u, <2>1 DEF Join, Contract!Prompt, Bodies
<1>3. ASSUME NEW t \in Turns, Defer(t) PROVE Contract!Prompt(t, via[t])
  <2>1. awaits[t] = None /\ Bodies[t] = "none"
    BY <1>3 DEF Defer, IInv, Fresh, Bodies, Body
  <2> QED BY <1>3, <1>t, <1>u, <2>1 DEF Defer, Contract!Prompt, Bodies
<1>4. ASSUME NEW t \in Turns, StartRun(t) PROVE Contract!Prompt(t, via[t])
  <2>1. awaits[t] = None /\ Bodies[t] = "none"
    BY <1>4 DEF StartRun, IInv, Fresh, Bodies, Body
  <2>2. Bodies' = [Bodies EXCEPT ![t] = "working"]
    BY <1>0, <1>4, OneBody DEF StartRun, Body
  <2> QED BY <1>4, <1>t, <2>1, <2>2 DEF StartRun, Idle, Contract!Prompt, Contract!Free, Bodies
<1>5. ASSUME NEW t \in Turns, BumpQueued(t) \/ LoopPass(t) PROVE UNCHANGED Contract!vars
  BY <1>5, <1>u, <1>v DEF BumpQueued, LoopPass
<1>6. ASSUME NEW h \in Shells, RefuseShell(h) \/ AdmitShell(h) \/ OpenReady(h)
      PROVE  UNCHANGED Contract!vars
  BY <1>6, <1>u, <1>v DEF RefuseShell, AdmitShell, OpenReady
<1>7. ASSUME NEW h \in Shells, StartShell(h)
      PROVE  via[h] \in Runners /\ Contract!Command(h, via[h])
  <2>1. via[h] \in Runners /\ Idle(via[h]) /\ Bodies[h] = "none"
    BY <1>7 DEF StartShell, IInv, Fresh, Locked, Bodies, Body
  <2>2. Bodies' = [Bodies EXCEPT ![h] = "working"]
    BY <1>0, <1>7, OneBody DEF StartShell, Body
  <2> QED BY <1>7, <1>t, <2>1, <2>2 DEF StartShell, Idle, Contract!Command, Contract!Free, Bodies
<1>8. ASSUME NEW w \in Works, Begin(w) \/ FinishIdle(w) \/ FinishPublished(w)
      PROVE  UNCHANGED Contract!vars
  <2>1. \A v \in Works : Body(v)' = Body(v)
    BY <1>0, <1>8 DEF Begin, FinishIdle, FinishPublished, Body
  <2> QED
    BY <1>8, <1>v, <2>1, SameBodies DEF Begin, FinishIdle, FinishPublished
<1>9. ASSUME NEW w \in Works, Finish(w) PROVE Contract!End(w)
  <2>1. Bodies[w] = "working" /\ Bodies' = [Bodies EXCEPT ![w] = "ended"]
    BY <1>0, <1>9, OneBody DEF Finish, Body, Bodies
  <2> QED BY <1>9, <1>t, <2>1 DEF Finish, Contract!End, Bodies
<1>10. ASSUME NEW w \in Works, Unwound(w) PROVE Contract!Cut(w)
  <2>1. Bodies[w] = "working" /\ Bodies' = [Bodies EXCEPT ![w] = "cut"]
    BY <1>0, <1>10, OneBody DEF Unwound, Body, Bodies
  <2>2. w \in TakenOff
    BY <1>10 DEF Unwound, EndInv, CutByStop
  <2> QED BY <1>10, <1>t, <2>1, <2>2 DEF Unwound, Contract!Cut, Bodies
<1>h. ASSUME NEW w \in Works, NEW r \in Runners, w \in {run[r], shell[r]}, fiber[w] = "exited"
      PROVE  Bodies[w] = "ended"
  <2>1. w \notin TakenOff
    BY <1>0, <1>h DEF IInv, Taken, TakenOff
  <2> QED BY <1>h, <2>1 DEF EndInv, CutByStop, Body, Bodies
<1>11. ASSUME NEW t \in Turns, FinishRun(t) PROVE [Contract!Next]_(Contract!vars)
  <2>1. Bodies' = Bodies
    BY <1>0, <1>11, SameBodies DEF FinishRun, Body
  <2>2. CASE run[via[t]] = t /\ shell[via[t]] = None
    <3>1. via[t] \in Runners /\ Bodies[t] = "ended"
      BY <1>0, <1>11, <1>h, <2>2 DEF FinishRun
    <3>2. Contract!Leave(t, via[t])
      BY <1>11, <1>t, <2>1, <2>2, <3>1 DEF FinishRun, Contract!Leave, Bodies
    <3> QED BY <3>1, <3>2 DEF Contract!Next
  <2>3. CASE ~(run[via[t]] = t /\ shell[via[t]] = None)
    BY <1>11, <1>v, <2>1, <2>3 DEF FinishRun
  <2> QED BY <2>2, <2>3
<1>12. ASSUME NEW h \in Shells, FinishShell(h) PROVE [Contract!Next]_(Contract!vars)
  <2>1. CASE shell[via[h]] = h
    <3>1. via[h] \in Runners /\ Bodies[h] = "ended"
      BY <1>0, <1>12, <1>h, <2>1 DEF FinishShell
    <3>2. Bodies' = [w \in Works |-> IF w = run[via[h]] THEN "working" ELSE Bodies[w]]
      BY <1>0, <1>12, <2>1, <3>1 DEF FinishShell, AfterShell, Bodies, Body
    <3>3. Contract!LeaveShell(h, via[h])
      BY <1>12, <1>t, <2>1, <3>1, <3>2 
         DEF FinishShell, Contract!LeaveShell, Contract!Works, Bodies
    <3> QED BY <3>1, <3>3 DEF Contract!Next
  <2>2. CASE shell[via[h]] # h
    <3>1. Bodies' = Bodies
      BY <1>0, <1>12, <2>2, SameBodies DEF FinishShell, Body
    <3> QED BY <1>12, <1>v, <2>2, <3>1 DEF FinishShell
  <2> QED BY <2>1, <2>2
<1>13. ASSUME NEW t \in Turns, Complete(t) PROVE [Contract!Next]_(Contract!vars)
  <2>1. Bodies' = Bodies
    BY <1>0, <1>13, SameBodies DEF Complete, Body
  <2>2. CASE done[t] # "unset"
    BY <1>13, <1>v, <2>1, <2>2 DEF Complete, Settle
  <2>3. CASE done[t] = "unset" /\ exit[t] = "interrupted"
    <3>1. Bodies[t] = "cut" /\ t \in TakenOff
      BY <1>13, <2>3 DEF Complete, EndInv, CutByStop, Bodies, Body
    <3>2. Contract!Answer(t)
      BY <1>13, <1>t, <2>1, <2>3, <3>1 DEF Complete, Settle, Contract!Answer, Bodies
    <3> QED BY <3>2 DEF Contract!Next
  <2>4. CASE done[t] = "unset" /\ exit[t] = "own"
    <3>1. Bodies[t] = "ended"
      BY <1>13, <2>4 DEF Complete, Bodies, Body
    <3>2. Contract!Answer(t)
      BY <1>13, <1>t, <2>1, <2>4, <3>1 DEF Complete, Settle, Contract!Answer, Bodies
    <3> QED BY <3>2 DEF Contract!Next
  <2> QED BY <1>13, <2>2, <2>3, <2>4 DEF Complete, EndInv, Exits
<1>14. ASSUME NEW c \in Stops, StopNothing(c) \/ StopLookup(c) \/ IdleIfCurrent(c) \/ StopIdle(c)
                              \/ StopPublished(c)
       PROVE  UNCHANGED Contract!vars
  BY <1>14, <1>u, <1>v DEF StopNothing, StopLookup, IdleIfCurrent, StopIdle, StopPublished
<1>15. ASSUME NEW c \in Stops, Cancel(c) PROVE via[c] \in Runners /\ Contract!Stop(via[c])
  <2>1. via[c] \in Runners /\ stopShell[c] = None /\ stopRun[c] = None
    BY <1>0, <1>15 DEF Cancel, IInv, Taken
  <2>2. TakenOff' = TakenOff \cup ({run[via[c]], shell[via[c]]} \ {None})
    BY <1>0, <1>15, <2>1 DEF Cancel, TakenOff
  <2> QED BY <1>15, <1>u, <2>1, <2>2 DEF Cancel, WithoutRun, Contract!Stop, Bodies
<1>16. ASSUME NEW c \in Stops, Interrupt(c) PROVE [Contract!Next]_(Contract!vars)
  <2>1. Target(c) \in Works /\ Target(c) \in TakenOff
    BY <1>0, <1>16 DEF Interrupt, Target, IInv, Taken, TakenOff
  <2>2. CASE fiber[Target(c)] = "forked"
    <3>1. PICK w \in Works : w = Target(c) /\ w \in TakenOff
      BY <2>1
    <3>2. /\ exit' = exit /\ exit[w] = "none" /\ fiber'[w] = "gone"
          /\ \A v \in Works \ {w} : fiber'[v] = fiber[v]
      BY <1>0, <1>16, <2>2, <3>1 DEF Interrupt, Interrupted, EndInv, Exits
    <3>3. Body(w)' = "cut" /\ Body(w) = "working" /\ \A v \in Works \ {w} : Body(v)' = Body(v)
      BY <2>2, <3>1, <3>2 DEF Body
    <3>4. Bodies[w] = "working" /\ Bodies' = [Bodies EXCEPT ![w] = "cut"]
      BY <3>3, OneBody DEF Bodies
    <3>5. Contract!Cut(w)
      BY <1>16, <1>t, <3>1, <3>4 DEF Interrupt, Contract!Cut, Bodies
    <3> QED BY <3>5 DEF Contract!Next, Contract!Works
  <2>3. CASE fiber[Target(c)] # "forked"
    <3>1. \A v \in Works : Body(v)' = Body(v)
      BY <1>0, <1>16, <2>1, <2>3 DEF Interrupt, Interrupted, Body
    <3> QED BY <1>16, <1>v, <3>1, SameBodies DEF Interrupt
  <2> QED BY <2>2, <2>3
<1>17. ASSUME NEW c \in Stops, FailTurn(c) PROVE [Contract!Next]_(Contract!vars)
  <2>1. Bodies' = Bodies
    BY <1>17, <1>u DEF FailTurn
  <2>2. CASE stopRun[c] = None \/ done[stopRun[c]] # "unset"
    BY <1>0, <1>17, <1>v, <2>1, <2>2 DEF FailTurn, Settle
  <2>3. CASE stopRun[c] # None /\ done[stopRun[c]] = "unset"
    <3>1. stopRun[c] \in Turns /\ stopRun[c] \in TakenOff
      BY <1>0, <2>3 DEF TakenOff
    <3>2. fiber[stopRun[c]] = "none" \/ fiber[stopRun[c]] = "gone"
      BY <1>17, <2>3 DEF FailTurn, Target, IInv, Taken
    <3>3. Bodies[stopRun[c]] \in {"none", "cut"}
      BY <2>3, <3>1, <3>2 DEF EndInv, Answered, Bodies, Body
    <3>4. Contract!Answer(stopRun[c])
      BY <1>17, <1>t, <2>1, <2>3, <3>1, <3>3 DEF FailTurn, Settle, Contract!Answer, Bodies
    <3> QED BY <3>1, <3>4 DEF Contract!Next
  <2> QED BY <2>2, <2>3
<1>18. CASE UNCHANGED vars
  BY <1>18, <1>u, <1>v DEF vars
<1>w. \A c \in Works : call[c] = "looked" => via[c] \in Runners
  BY <1>0
<1> QED
  BY <1>1, <1>2, <1>3, <1>4, <1>5, <1>6, <1>7, <1>8, <1>9, <1>10, <1>11, <1>12, <1>13, <1>14,
     <1>15, <1>16, <1>17, <1>18, <1>w
     DEF Next, System, TurnStep, RunStep, ShellStep, FiberStep, StopStep, Join, Defer, StartRun,
         Contract!Next, Contract!Works

(* However prompts, shell commands and stops interleave, the works of a      *)
(* session take turns and every prompt is answered with what became of the   *)
(* turn it found or made.                                                    *)
THEOREM Implements == Spec => ImplementsTurns
<1>1. Init => Contract!Init /\ EndInv
  BY NamesDistinct DEF Init, Body, TakenOff, Works, Callers, EndInv, Exits, CutByStop, Answered,
     Contract!Init, Contract!Works
<1>2. IInv /\ EndInv /\ [Next]_vars => EndInv' /\ [Contract!Next]_(Contract!vars)
  BY EndStep, ContractStep
<1> QED
  BY <1>1, <1>2, Invariant, PTL DEF Spec, ImplementsTurns, Contract!Spec
=============================================================================
