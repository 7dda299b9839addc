------------------------ MODULE BackgroundJobsProofs ------------------------
(* Proofs about BackgroundJobs for every number of generations and runs,    *)
(* every ceiling and clock bound, and both settings of Preempt.             *)
EXTENDS BackgroundJobs, FiniteSetTheorems, TLAPS

LEMMA Bounds ==
    /\ 0 \in Seqs /\ Seqs \subseteq Nat
    /\ Gens \subseteq Nat /\ Gens \subseteq 0..MaxGen
    /\ \A n \in Nat : n < MaxSeq <=> n \in Seqs
    /\ \A c \in 0..MaxGen : c \in Gens <=> c # 0
  BY BoundsAssumption DEF Seqs, Gens

LEMMA OutputInt == \A o \in Seqs \cup {-1} : o \in Int
  BY BoundsAssumption DEF Seqs

LEMMA TypeInit == Init => TypeOK
<1> SUFFICES ASSUME Init PROVE TypeOK
  OBVIOUS
<1>1. [at |-> 0, blocked |-> 0] \in Moment
  BY DEF Moment
<1>2. run \in [Gens -> [Seqs -> {"none", "booked", "waiting", "running",
                             "unwinding", "ending", "over"}]]
  BY DEF Init
<1>3. result \in [Gens -> [Seqs -> {"none", "ok", "failed", "interrupted"}]]
  BY DEF Init
<1>4. cur \in 0..MaxGen
  BY BoundsAssumption DEF Init
<1> QED
  BY <1>1, <1>2, <1>3, <1>4, Bounds DEF Init, TypeOK, Terminal

(* Every step keeps the registry well typed.                                *)
LEMMA TypeStep == TypeOK /\ [Next]_vars => TypeOK'
<1> SUFFICES ASSUME TypeOK, [Next]_vars PROVE TypeOK'
  OBVIOUS
<1>0. Here \in Moment
  BY DEF Here, Moment, TypeOK
<1> USE BoundsAssumption, Bounds, <1>0
    DEF TypeOK, Terminal, recordVars, dogVars, timeVars, RestUnwatched
<1>1. ASSUME NEW g \in Gens, Start(g) PROVE TypeOK'
  <2>1. run' \in [Gens -> [Seqs -> {"none", "booked", "waiting", "running",
                                 "unwinding", "ending", "over"}]]
    BY <1>1 DEF Start
  <2>2. cur' \in 0..MaxGen /\ now + Ceiling \in Nat
    BY <1>1 DEF Start
  <2> QED BY <1>1, <2>1, <2>2 DEF Start
<1>2. ASSUME NEW rearm \in BOOLEAN, Extend(rearm) PROVE TypeOK'
  <2>1. cur \in Gens /\ next[cur] \in Seqs
    BY <1>2 DEF Extend
  <2>2. Rearmed(rearm) \in Nat
    BY <2>1 DEF Rearmed
  <2> QED BY <1>2, <2>1, <2>2 DEF Extend
<1>3. CASE Cancel
  BY <1>3 DEF Cancel, EndAs, Stoppable
<1>4. CASE Promote
  BY <1>4 DEF Promote, Stoppable
<1>5. CASE AskOrAnswer
  BY <1>5 DEF AskOrAnswer
<1>6. CASE Tick
  BY <1>6 DEF Tick
<1>7. ASSUME NEW g \in Gens, Resolve(g) PROVE TypeOK'
  BY <1>7 DEF Resolve, Ended
<1>8. ASSUME NEW g \in Gens, CloseScope(g) PROVE TypeOK'
  BY <1>8 DEF CloseScope, Interruptible
<1>9. ASSUME NEW g \in Gens, WatchStep(g) PROVE TypeOK'
  <2> USE DEF Watch, Current, Owed
  <2>1. CASE WatchEnds(g)    BY <2>1 DEF WatchEnds
  <2>2. CASE WatchSleeps(g)  BY <2>2 DEF WatchSleeps
  <2>3. CASE WatchDue(g)     BY <2>3 DEF WatchDue
  <2>4. CASE WatchWakes(g)   BY <2>4 DEF WatchWakes
  <2>5. CASE WatchCredits(g) BY <2>5 DEF WatchCredits
  <2>6. CASE WatchFires(g)   BY <2>6 DEF WatchFires
  <2>7. CASE Expire(g)       BY <2>7 DEF Expire, EndAs
  <2> QED BY <1>9, <2>1, <2>2, <2>3, <2>4, <2>5, <2>6, <2>7 DEF WatchStep
<1>10. ASSUME NEW g \in Gens, NEW s \in Seqs, RunStep(g, s) PROVE TypeOK'
  <2>1. CASE Fork(g, s)    BY <2>1 DEF Fork
  <2>2. CASE Proceed(g, s) BY <2>2 DEF Proceed
  <2>3. CASE Unwound(g, s) BY <2>3 DEF Unwound, Leave
  <2>4. CASE Settle(g, s)
    BY <2>4 DEF Settle, Current, Running, Final, Newer, Verdict
  <2> QED BY <1>10, <2>1, <2>2, <2>3, <2>4 DEF RunStep
<1>11. ASSUME NEW g \in Gens, NEW s \in Seqs, NEW r \in {"ok", "failed"}, BodyEnds(g, s, r)
       PROVE  TypeOK'
  BY <1>11 DEF BodyEnds, Leave
<1>12. CASE UNCHANGED vars
  BY <1>12 DEF vars
<1> QED
  BY <1>1, <1>2, <1>3, <1>4, <1>5, <1>6, <1>7, <1>8, <1>9, <1>10, <1>11, <1>12
     DEF Next, System, Caller

(* Every reachable state of the registry is well typed.                     *)
THEOREM TypeCorrect == Spec => []TypeOK
  BY TypeInit, TypeStep, PTL DEF Spec
-----------------------------------------------------------------------------
(* The inductive invariant.  What a completed job has run does not survive a *)
(* step on its own: it needs `pending` to count the runs not yet settled.    *)

\* A generation not started yet has no record, no run and an unused Deferred.
Unstarted ==
    \A g \in Gens : g > cur =>
        /\ status[g] = "none" /\ next[g] = 0 /\ output[g] = -1
        /\ done[g] = "unset" /\ open[g]

\* Only the current generation runs; every run has the number it was given.
Slots ==
    \A g \in Gens :
        /\ Running(g) => cur = g
        /\ status[g] # "none" => next[g] > 0
        /\ next[g] <= MaxSeq
        /\ \A s \in Seqs : run[g][s] = "none" <=> s >= next[g]

Unsettled(g) == { s \in 0..(next[g] - 1) : run[g][s] # "over" }

\* `pending` counts the runs not settled; those settled before it ends were ok.
Counted ==
    \A g \in Gens : Running(g) =>
        /\ pending[g] = Cardinality(Unsettled(g))
        /\ \A s \in Seqs : run[g][s] = "over" => result[g][s] = "ok"

\* The output is that of a run, and no settled run is newer.
Newest ==
    \A g \in Gens :
        /\ output[g] < next[g]
        /\ Running(g) \/ status[g] = "completed" =>
              \A s \in Seqs : run[g][s] = "over" => s <= output[g]

\* In an open scope a body has been entered only after all the earlier ones left.
Chained ==
    \A g \in Gens :
        /\ \A s \in Seqs : /\ Interruptible(run[g][s]) => open[g]
                           /\ run[g][s] = "unwinding" => ~open[g]
        /\ done[g] # "unset" => Ended(g)
        /\ ~open[g] => done[g] # "unset"
        /\ open[g] => \A s, e \in Seqs :
              e < s /\ run[g][s] \in {"running", "ending", "over"} =>
                  run[g][e] \in {"ending", "over"}

IInv ==
    /\ TypeOK /\ Unstarted /\ Slots /\ Counted /\ Newest /\ Chained
    /\ CompletedMeansAllRan

LEMMA SlotSeqs ==
  ASSUME TypeOK, Slots, NEW g \in Gens
  PROVE  \A e \in 0..(next[g] - 1) : e \in Seqs
  BY BoundsAssumption DEF TypeOK, Slots, Seqs

LEMMA InitInv == Init => IInv
<1> SUFFICES ASSUME Init PROVE IInv
  OBVIOUS
<1>1. TypeOK
  BY TypeInit
<1>2. \A g \in Gens : ~Running(g) /\ ~Ended(g)
  BY DEF Init, Running, Ended, Terminal
<1>3. Unstarted /\ Newest /\ CompletedMeansAllRan /\ Counted
  BY <1>2 DEF Init, Unstarted, Newest, CompletedMeansAllRan, Counted
<1>4. Slots
  BY <1>2, BoundsAssumption DEF Init, Slots, Seqs
<1>5. Chained
  BY <1>2 DEF Init, Chained, Interruptible
<1> QED
  BY <1>1, <1>3, <1>4, <1>5 DEF IInv

(* A started job has one unsettled run, an extension adds one, and a settle  *)
(* takes one away.                                                           *)
LEMMA UnsettledFinite ==
  ASSUME TypeOK, NEW g \in Gens
  PROVE  IsFiniteSet(Unsettled(g)) /\ Cardinality(Unsettled(g)) \in Nat
<1>1. next[g] - 1 \in Int
  BY DEF TypeOK
<1>2. IsFiniteSet(0..(next[g] - 1))
  BY <1>1, FS_Interval
<1>3. Unsettled(g) \in SUBSET (0..(next[g] - 1))
  BY DEF Unsettled
<1> QED
  BY <1>2, <1>3, FS_Subset, FS_CardinalityType
InvDefs == << status, pending, next, output, run, result, cur, done, open >>

(* A step that leaves the runs and the verdicts alone keeps the invariant.   *)
LEMMA QuietStep ==
  ASSUME IInv, TypeOK', UNCHANGED InvDefs
  PROVE  IInv'
<1> USE DEF InvDefs
<1>1. \A g \in Gens : Unsettled(g)' = Unsettled(g)
  BY DEF Unsettled
<1>2. \A g \in Gens : Running(g)' = Running(g) /\ Ended(g)' = Ended(g)
  BY DEF Running, Ended
<1>3. Unstarted' /\ Slots' /\ Counted'
  BY <1>1, <1>2 DEF IInv, Unstarted, Slots, Counted
<1>4. Newest' /\ Chained' /\ CompletedMeansAllRan'
  BY <1>2 DEF IInv, Newest, Chained, CompletedMeansAllRan
<1> QED BY <1>3, <1>4 DEF IInv

(* A cancel or an expiry of the running generation keeps the invariant.      *)
LEMMA EndStep ==
  ASSUME IInv, TypeOK', cur \in Gens, Running(cur),
         NEW v \in {"cancelled", "expired"}, EndAs(v),
         UNCHANGED << cur, done, open, run, result >>
  PROVE  IInv'
<1> USE DEF EndAs, TypeOK
<1>1. status' = [status EXCEPT ![cur] = v] /\ Ended(cur)'
  BY DEF IInv, Ended, Terminal
<1>2. \A g \in Gens \ {cur} : /\ Unsettled(g)' = Unsettled(g)
                              /\ Running(g)' = Running(g) /\ Ended(g)' = Ended(g)
                              /\ pending'[g] = pending[g]
  BY <1>1 DEF IInv, Unsettled, Running, Ended
<1>3. ~Running(cur)'
  BY <1>1 DEF IInv, Running
<1>4. Unstarted'
  BY <1>1 DEF IInv, Unstarted
<1>5. Slots'
  BY <1>1, <1>2, <1>3 DEF IInv, Slots, Running
<1>6. Counted'
  <2> SUFFICES ASSUME NEW g \in Gens, Running(g)'
               PROVE  /\ pending'[g] = Cardinality(Unsettled(g)')
                      /\ \A s \in Seqs : run[g][s] = "over" => result[g][s] = "ok"
    BY DEF Counted
  <2>1. g # cur /\ Running(g)
    BY <1>2, <1>3
  <2> QED BY <1>2, <2>1 DEF IInv, Counted
<1>7. Newest'
  BY <1>1, <1>2, <1>3 DEF IInv, Newest, Running
<1>8. Chained'
  BY <1>1, <1>2 DEF IInv, Chained
<1>9. CompletedMeansAllRan'
  BY <1>1 DEF IInv, CompletedMeansAllRan
<1> QED BY <1>4, <1>5, <1>6, <1>7, <1>8, <1>9 DEF IInv

(* Moving a run between stages, none of them `none` or `over`, keeps what    *)
(* the invariant says of verdicts and counts.                                *)
LEMMA MoveStep ==
  ASSUME IInv, TypeOK', NEW g \in Gens, NEW s \in Seqs,
         NEW to \in {"waiting", "running", "unwinding", "ending"},
         run[g][s] \notin {"none", "over"},
         run' = [run EXCEPT ![g][s] = to],
         \A h \in Gens, e \in Seqs : <<h, e>> # <<g, s>> => result'[h][e] = result[h][e],
         UNCHANGED << cur, status, pending, next, output, done, open >>
  PROVE  Unstarted' /\ Slots' /\ Counted' /\ Newest' /\ CompletedMeansAllRan'
<1> USE DEF TypeOK
<1>1. \A h \in Gens, e \in Seqs : <<h, e>> # <<g, s>> => run'[h][e] = run[h][e]
  BY DEF IInv
<1>2. run'[g][s] = to
  BY DEF IInv
<1>3. \A h \in Gens : Unsettled(h)' = Unsettled(h)
  <2> SUFFICES ASSUME NEW h \in Gens PROVE Unsettled(h)' = Unsettled(h)
    OBVIOUS
  <2>1. \A e \in 0..(next[h] - 1) : e \in Seqs
    BY SlotSeqs DEF IInv
  <2>2. \A e \in 0..(next[h] - 1) : run'[h][e] # "over" <=> run[h][e] # "over"
    BY <1>1, <1>2, <2>1 DEF IInv
  <2> QED BY <2>2 DEF Unsettled
<1>4. \A h \in Gens : Running(h)' = Running(h)
  BY DEF Running
<1>5. Unstarted'
  BY DEF IInv, Unstarted
<1>6. Slots'
  BY <1>1, <1>2, <1>4 DEF IInv, Slots
<1>7. Counted'
  BY <1>1, <1>2, <1>3, <1>4 DEF IInv, Counted
<1>8. Newest'
  BY <1>1, <1>2, <1>4 DEF IInv, Newest
<1>9. CompletedMeansAllRan'
  <2> SUFFICES ASSUME NEW h \in Gens, status[h] = "completed",
                      NEW e \in 0..(next[h] - 1)
               PROVE  result'[h][e] = "ok" /\ run'[h][e] = "over"
    BY DEF CompletedMeansAllRan
  <2>1. e \in Seqs
    BY SlotSeqs DEF IInv
  <2>2. result[h][e] = "ok" /\ run[h][e] = "over"
    BY DEF IInv, CompletedMeansAllRan
  <2> QED BY <1>1, <2>1, <2>2
<1> QED BY <1>5, <1>6, <1>7, <1>8, <1>9
(* A started run or an extension: one more slot, booked.                     *)
LEMMA BookStep ==
  ASSUME IInv, TypeOK', NEW g \in Gens, NEW s \in Seqs, cur' = g, cur \in {g, g - 1},
         \A h \in Gens : Running(h) => h = g,
         next[g] = s, next' = [next EXCEPT ![g] = s + 1],
         s = 0 <=> status[g] = "none", s > 0 => Running(g),
         status' = [status EXCEPT ![g] = "running"],
         pending'[g] = IF s = 0 THEN 1 ELSE pending[g] + 1,
         run' = [run EXCEPT ![g][s] = "booked"],
         UNCHANGED << output, done, open, result >>
  PROVE  IInv'
<1> USE DEF TypeOK
<1>0. s + 1 <= MaxSeq /\ s \in Nat /\ g \in Nat /\ cur \in Nat
  BY Bounds, BoundsAssumption
<1>1. \A h \in Gens, e \in Seqs : <<h, e>> # <<g, s>> => run'[h][e] = run[h][e]
  BY DEF IInv
<1>2. run'[g][s] = "booked" /\ run[g][s] = "none"
  BY Bounds DEF IInv, Slots
<1>3. \A h \in Gens : h # g => next'[h] = next[h] /\ status'[h] = status[h] /\ ~Running(h)
  BY DEF IInv
<1>4. next'[g] = s + 1 /\ status'[g] = "running" /\ Running(g)'
  BY DEF IInv, Running
<1>5. \A h \in Gens : h # g => ~Running(h)'
  BY <1>3 DEF Running
<1>6. Unstarted'
  BY <1>0, <1>3, Bounds DEF IInv, Unstarted
<1>7. Slots'
  <2>1. ASSUME NEW h \in Gens, h # g
        PROVE  /\ Running(h)' => cur' = h
               /\ status'[h] # "none" => next'[h] > 0
               /\ next'[h] <= MaxSeq
               /\ \A e \in Seqs : run'[h][e] = "none" <=> e >= next'[h]
    BY <2>1, <1>1, <1>3, <1>5 DEF IInv, Slots
  <2>2. /\ next'[g] > 0 /\ next'[g] <= MaxSeq
        /\ \A e \in Seqs : run'[g][e] = "none" <=> e >= next'[g]
    BY <1>0, <1>1, <1>2, <1>4, Bounds DEF IInv, Slots
  <2> QED BY <2>1, <2>2 DEF Slots
<1>8. Counted'
  <2>1. Unsettled(g)' = Unsettled(g) \cup {s}
    <3>1. \A e \in 0..(next[g] - 1) : e \in Seqs
      BY SlotSeqs DEF IInv
    <3>2. 0..(next'[g] - 1) = (0..(next[g] - 1)) \cup {s}
      BY <1>0, <1>4
    <3> QED BY <3>1, <3>2, <1>1, <1>2, <1>4 DEF Unsettled
  <2>2. s \notin Unsettled(g)
    BY <1>0 DEF Unsettled
  <2>3. IsFiniteSet(Unsettled(g)) /\ Cardinality(Unsettled(g)) \in Nat
    BY UnsettledFinite DEF IInv
  <2>4. Cardinality(Unsettled(g)') = Cardinality(Unsettled(g)) + 1
    BY <2>1, <2>2, <2>3, FS_AddElement
  <2>5. s = 0 => Cardinality(Unsettled(g)) = 0
    <3>1. s = 0 => Unsettled(g) = {}
      BY DEF Unsettled
    <3> QED BY <3>1, FS_EmptySet
  <2>6. pending'[g] = Cardinality(Unsettled(g)')
    BY <2>3, <2>4, <2>5 DEF IInv, Counted
  <2>7. \A e \in Seqs : run'[g][e] = "over" => result'[g][e] = "ok"
    <3> SUFFICES ASSUME NEW e \in Seqs, run'[g][e] = "over" PROVE result'[g][e] = "ok"
      OBVIOUS
    <3>1. e # s /\ run[g][e] = "over"
      BY <1>1, <1>2
    <3>2. CASE s = 0
      BY <3>1, <3>2, Bounds DEF IInv, Slots
    <3>3. CASE s > 0
      BY <3>1, <3>3 DEF IInv, Counted
    <3> QED BY <3>2, <3>3, <1>0
  <2> QED BY <1>5, <2>6, <2>7 DEF Counted
<1>9. Newest'
  <2>1. output'[g] < next'[g]
    <3>1. output[g] \in Int /\ output'[g] = output[g] /\ output[g] < s
      <4>1. output[g] \in Seqs \cup {-1} /\ output[g] < next[g]
        BY DEF IInv, Newest
      <4> QED BY <4>1, OutputInt
    <3> QED BY <3>1, <1>0, <1>4
  <2>2. \A e \in Seqs : run'[g][e] = "over" => e <= output'[g]
    BY <1>0, <1>1, <1>2, Bounds DEF IInv, Newest, Slots
  <2>3. ASSUME NEW h \in Gens, h # g
        PROVE  /\ output'[h] < next'[h]
               /\ Running(h)' \/ status'[h] = "completed" =>
                    \A e \in Seqs : run'[h][e] = "over" => e <= output'[h]
    BY <2>3, <1>1, <1>3, <1>5 DEF IInv, Newest
  <2> QED BY <2>1, <2>2, <2>3 DEF Newest
<1>10. Chained'
  <2>1. \A h \in Gens : h # g => Ended(h)' = Ended(h)
    BY <1>3 DEF Ended
  <2>2. done[g] = "unset" /\ open[g]
    <3>1. ~Ended(g)
      BY <1>0 DEF Ended, Running, Terminal
    <3> QED BY <3>1 DEF IInv, Chained
  <2>3. ASSUME NEW h \in Gens, NEW e \in Seqs, Interruptible(run'[h][e]) PROVE open[h]
    <3>1. CASE <<h, e>> = <<g, s>> BY <3>1, <2>2
    <3>2. CASE <<h, e>> # <<g, s>> BY <2>3, <3>2, <1>1 DEF IInv, Chained
    <3> QED BY <3>1, <3>2
  <2>4. ASSUME NEW h \in Gens, NEW e \in Seqs, NEW f \in Seqs, open[h], f < e,
               run'[h][e] \in {"running", "ending", "over"}
        PROVE  run'[h][f] \in {"ending", "over"}
    <3>1. <<h, e>> # <<g, s>> /\ run[h][e] \in {"running", "ending", "over"}
      BY <2>4, <1>1, <1>2
    <3>2. run[h][f] \in {"ending", "over"}
      BY <3>1, <2>4 DEF IInv, Chained
    <3> QED BY <3>2, <1>1, <1>2
  <2> QED BY <2>1, <2>2, <2>3, <2>4 DEF IInv, Chained
<1>11. CompletedMeansAllRan'
  <2> SUFFICES ASSUME NEW h \in Gens, status'[h] = "completed",
                      NEW e \in 0..(next'[h] - 1)
               PROVE  result'[h][e] = "ok" /\ run'[h][e] = "over"
    BY DEF CompletedMeansAllRan
  <2>1. h # g
    BY <1>4
  <2>2. e \in Seqs
    BY <2>1, <1>3, SlotSeqs DEF IInv
  <2> QED BY <2>1, <2>2, <1>1, <1>3 DEF IInv, CompletedMeansAllRan
<1> QED BY <1>6, <1>7, <1>8, <1>9, <1>10, <1>11 DEF IInv
(* A run that moves keeps the chain: a body is entered in an open scope      *)
(* once the run before it has left.                                          *)
LEMMA ChainStep ==
  ASSUME IInv, TypeOK', NEW g \in Gens, NEW s \in Seqs,
         NEW to \in {"waiting", "running", "unwinding", "ending"},
         to \in {"waiting", "running"} => open[g],
         to = "running" => TailOpen(g, s),
         to = "ending" => run[g][s] \in {"running", "unwinding"},
         to = "unwinding" => ~open[g],
         run[g][s] \notin {"ending", "over"},
         run' = [run EXCEPT ![g][s] = to],
         UNCHANGED << status, done, open >>
  PROVE  Chained'
<1> USE DEF TypeOK
<1>1. \A h \in Gens, e \in Seqs : <<h, e>> # <<g, s>> => run'[h][e] = run[h][e]
  BY DEF IInv
<1>2. run'[g][s] = to
  BY DEF IInv
<1>3. \A h \in Gens : Ended(h)' = Ended(h)
  BY DEF Ended
<1>4. ASSUME NEW h \in Gens, NEW e \in Seqs, Interruptible(run'[h][e]) PROVE open[h]
  <2>1. CASE <<h, e>> = <<g, s>> BY <1>4, <2>1, <1>2 DEF Interruptible
  <2>2. CASE <<h, e>> # <<g, s>> BY <1>4, <2>2, <1>1 DEF IInv, Chained
  <2> QED BY <2>1, <2>2
<1>5. ASSUME NEW h \in Gens, NEW e \in Seqs, NEW f \in Seqs, open[h], f < e,
             run'[h][e] \in {"running", "ending", "over"}
      PROVE  run'[h][f] \in {"ending", "over"}
  <2>1. run[h][f] \in {"ending", "over"}
    <3>1. CASE <<h, e>> # <<g, s>>
      BY <3>1, <1>1, <1>5 DEF IInv, Chained
    <3>2. CASE <<h, e>> = <<g, s>> /\ to = "ending"
      BY <3>2, <1>5 DEF IInv, Chained
    <3>3. CASE <<h, e>> = <<g, s>> /\ to = "running"
      <4>1. s - 1 \in Seqs /\ f \in Nat /\ s \in Nat /\ f < s
        BY <3>3, <1>5, BoundsAssumption DEF Seqs
      <4>2. run[g][s - 1] \in {"ending", "over"}
        BY <3>3, <4>1 DEF TailOpen
      <4>3. CASE f = s - 1
        BY <4>2, <4>3, <3>3
      <4>4. CASE f < s - 1
        BY <4>1, <4>2, <4>4, <3>3, <1>5 DEF IInv, Chained
      <4> QED BY <4>1, <4>3, <4>4
    <3> QED BY <3>1, <3>2, <3>3, <1>2, <1>5
  <2> QED BY <2>1, <1>1
<1> QED BY <1>3, <1>4, <1>5 DEF IInv, Chained

(* A body that leaves, or an interrupted run that has cleaned up, opens its  *)
(* tail.                                                                     *)
LEMMA LeaveStep ==
  ASSUME IInv, TypeOK', NEW g \in Gens, NEW s \in Seqs,
         NEW stage \in {"running", "unwinding"}, NEW r, Leave(g, s, stage, r)
  PROVE  IInv'
<1>1. \A h \in Gens, e \in Seqs : <<h, e>> # <<g, s>> => result'[h][e] = result[h][e]
  BY DEF Leave, IInv, TypeOK
<1>2. Unstarted' /\ Slots' /\ Counted' /\ Newest' /\ CompletedMeansAllRan'
  <2>1. /\ run' = [run EXCEPT ![g][s] = "ending"] /\ run[g][s] \notin {"none", "over"}
        /\ UNCHANGED << cur, status, pending, next, output, done, open >>
    BY DEF Leave, recordVars
  <2> QED BY <1>1, <2>1, MoveStep
<1>3. run[g][s] = "unwinding" => ~open[g]
  BY DEF IInv, Chained
<1>4. Chained'
  BY <1>3, ChainStep DEF Leave, recordVars
<1> QED BY <1>2, <1>4 DEF IInv

(* A settle takes its run off the pending ones, and ends the job when it was *)
(* the last or has failed.                                                   *)
LEMMA SettleStep ==
  ASSUME IInv, TypeOK', NEW g \in Gens, NEW s \in Seqs, Settle(g, s)
  PROVE  IInv'
<1> USE DEF TypeOK
<1>0. /\ run[g][s] = "ending" /\ run' = [run EXCEPT ![g][s] = "over"]
      /\ UNCHANGED << cur, done, open, result, next >>
  BY DEF Settle, recordVars
<1>1. \A h \in Gens, e \in Seqs : <<h, e>> # <<g, s>> => run'[h][e] = run[h][e]
  BY <1>0 DEF IInv
<1>2. run'[g][s] = "over"
  BY <1>0 DEF IInv
<1>3. \A h \in Gens : h # g => /\ status'[h] = status[h] /\ pending'[h] = pending[h]
                               /\ output'[h] = output[h]
  BY DEF Settle, Current, recordVars, IInv
<1>4. ~Current(g) => UNCHANGED << status, pending, output >>
  BY DEF Settle, recordVars
<1>5. Running(g) => Current(g)
  BY DEF IInv, Slots, Current
<1>6. s < next[g] /\ s \in Nat /\ next[g] \in Nat
  BY <1>0, Bounds DEF IInv, Slots
<1>7. \A h \in Gens : h # g => Unsettled(h)' = Unsettled(h)
  <2> SUFFICES ASSUME NEW h \in Gens, h # g PROVE Unsettled(h)' = Unsettled(h)
    OBVIOUS
  <2>1. \A e \in 0..(next[h] - 1) : e \in Seqs
    BY SlotSeqs DEF IInv
  <2> QED BY <1>0, <1>1, <2>1 DEF Unsettled
<1>8. Unsettled(g)' = Unsettled(g) \ {s} /\ s \in Unsettled(g)
  <2>1. \A e \in 0..(next[g] - 1) : e \in Seqs
    BY SlotSeqs DEF IInv
  <2> QED BY <1>0, <1>1, <1>2, <1>6, <2>1 DEF Unsettled
<1>9. /\ IsFiniteSet(Unsettled(g)) /\ Cardinality(Unsettled(g)) \in Nat
      /\ IsFiniteSet(Unsettled(g)')
      /\ Cardinality(Unsettled(g)') = Cardinality(Unsettled(g)) - 1
  BY <1>8, UnsettledFinite, FS_RemoveElement DEF IInv
<1>10. Current(g) => /\ pending[g] = Cardinality(Unsettled(g))
                     /\ status[g] = "running" /\ cur = g
                     /\ output' = [output EXCEPT ![g] = IF Newer(s, result[g][s]) THEN s ELSE @]
  BY DEF IInv, Counted, Current, Running, Settle
<1>a. output[g] \in Int /\ output'[g] \in Int /\ \A e \in Seqs : e \in Int
  BY Bounds, OutputInt DEF IInv
<1>11. Current(g) /\ Final(result[g][s], pending[g] - 1) =>
         status'[g] = Verdict(result[g][s])
  BY <1>10 DEF Settle, IInv
<1>12. Current(g) /\ ~Final(result[g][s], pending[g] - 1) =>
         /\ status'[g] = "running" /\ pending'[g] = pending[g] - 1
         /\ result[g][s] = "ok"
  BY <1>10 DEF Settle, IInv, Final
<1>13. Unstarted'
  BY <1>0, <1>3, <1>4, <1>10 DEF IInv, Unstarted
<1>14. Slots'
  <2>1. \A h \in Gens : Running(h)' => Running(h)
    BY <1>3, <1>4, <1>10 DEF Running
  <2>2. \A h \in Gens : status'[h] # "none" => status[h] # "none"
    BY <1>3, <1>4, <1>10
  <2> QED BY <1>0, <1>1, <1>2, <1>6, <2>1, <2>2 DEF IInv, Slots
<1>15. Counted'
  <2>1. ASSUME NEW h \in Gens, h # g, Running(h)'
        PROVE  /\ pending'[h] = Cardinality(Unsettled(h)')
               /\ \A e \in Seqs : run'[h][e] = "over" => result'[h][e] = "ok"
    <3>1. Running(h)
      BY <2>1, <1>3 DEF Running
    <3> QED BY <2>1, <3>1, <1>0, <1>1, <1>3, <1>7 DEF IInv, Counted
  <2>2. ASSUME Running(g)'
        PROVE  /\ pending'[g] = Cardinality(Unsettled(g)')
               /\ \A e \in Seqs : run'[g][e] = "over" => result'[g][e] = "ok"
    <3>1. Running(g) /\ Current(g) /\ ~Final(result[g][s], pending[g] - 1)
      BY <2>2, <1>4, <1>5, <1>10, <1>11 DEF Running, Verdict
    <3> QED BY <3>1, <1>0, <1>1, <1>9, <1>10, <1>12 DEF IInv, Counted
  <2> QED BY <2>1, <2>2 DEF Counted
<1>16. Newest'
  <2>1. ASSUME NEW h \in Gens, h # g
        PROVE  /\ output'[h] < next'[h]
               /\ Running(h)' \/ status'[h] = "completed" =>
                    \A e \in Seqs : run'[h][e] = "over" => e <= output'[h]
    BY <2>1, <1>0, <1>1, <1>3 DEF IInv, Newest, Running
  <2>2. output'[g] < next'[g] /\ output[g] <= output'[g]
    <3>1. output'[g] = output[g] \/ (output'[g] = s /\ s > output[g])
      BY <1>4, <1>10 DEF IInv, Newer
    <3> QED BY <3>1, <1>0, <1>6, <1>a DEF IInv, Newest
  <2>3. ASSUME Running(g)' \/ status'[g] = "completed",
               NEW e \in Seqs, run'[g][e] = "over"
        PROVE  e <= output'[g]
    <3>1. CASE Current(g)
      <4>1. result[g][s] = "ok"
        BY <2>3, <3>1, <1>11, <1>12 DEF Verdict, Running
      <4>2. s <= output'[g]
        <5>1. output'[g] = IF s > output[g] THEN s ELSE output[g]
          BY <4>1, <3>1, <1>10 DEF Newer, IInv
        <5> QED BY <5>1, <1>6, <1>a
      <4>3. CASE e = s BY <4>2, <4>3
      <4>4. CASE e # s
        <5>1. e <= output[g]
          BY <2>3, <4>4, <1>1, <3>1, <1>10 DEF IInv, Newest, Running
        <5> QED BY <5>1, <2>2, <1>a
      <4> QED BY <4>3, <4>4
    <3>2. CASE ~Current(g)
      <4>1. status[g] = "completed"
        BY <2>3, <3>2, <1>4, <1>5 DEF Running
      <4>2. run[g][s] = "over"
        BY <4>1, <1>6 DEF IInv, CompletedMeansAllRan
      <4> QED BY <4>2, <1>0
    <3> QED BY <3>1, <3>2
  <2> QED BY <2>1, <2>2, <2>3 DEF Newest
<1>17. Chained'
  <2>1. \A h \in Gens : Ended(h) => Ended(h)'
    BY <1>3, <1>4, <1>10 DEF Ended, Terminal
  <2>2. \A h \in Gens, e \in Seqs :
           /\ Interruptible(run'[h][e]) => Interruptible(run[h][e])
           /\ run'[h][e] \in {"ending", "over"} <=> run[h][e] \in {"ending", "over"}
           /\ run'[h][e] = "running" => run[h][e] = "running"
    BY <1>0, <1>1, <1>2 DEF Interruptible
  <2> QED BY <1>0, <2>1, <2>2 DEF IInv, Chained
<1>18. CompletedMeansAllRan'
  <2> SUFFICES ASSUME NEW h \in Gens, status'[h] = "completed",
                      NEW e \in 0..(next[h] - 1)
               PROVE  result'[h][e] = "ok" /\ run'[h][e] = "over"
    BY <1>0 DEF CompletedMeansAllRan
  <2>1. e \in Seqs
    BY SlotSeqs DEF IInv
  <2>2. CASE status[h] = "completed"
    BY <2>1, <2>2, <1>0, <1>1, <1>2 DEF IInv, CompletedMeansAllRan
  <2>3. CASE status[h] # "completed"
    <3>1. h = g /\ Current(g) /\ Running(g)
      BY <2>3, <1>3, <1>4 DEF Current
    <3>2. result[g][s] = "ok" /\ pending[g] - 1 <= 0
      BY <2>3, <3>1, <1>11, <1>12 DEF Final, Verdict
    <3>3. Cardinality(Unsettled(g)') = 0
      BY <3>1, <3>2, <1>9, <1>10, UnsettledFinite, FS_CardinalityType
    <3>4. Unsettled(g)' = {}
      BY <3>3, <1>9, FS_EmptySet
    <3>5. run'[g][e] = "over"
      BY <3>1, <3>4, <1>0 DEF Unsettled
    <3>6. result[g][e] = "ok"
      <4>1. CASE e = s
        BY <4>1, <3>2
      <4>2. CASE e # s
        <5>1. run[g][e] = "over"
          BY <4>2, <3>5, <2>1, <1>1
        <5> QED BY <5>1, <3>1, <2>1 DEF IInv, Counted
      <4> QED BY <4>1, <4>2
    <3> QED BY <3>1, <3>5, <3>6, <1>0
  <2> QED BY <2>2, <2>3
<1> QED BY <1>13, <1>14, <1>15, <1>16, <1>17, <1>18 DEF IInv
(* Every step keeps the inductive invariant: one step per action.            *)
LEMMA InductiveStep == IInv /\ [Next]_vars => IInv'
<1> SUFFICES ASSUME IInv, [Next]_vars PROVE IInv'
  OBVIOUS
<1>0. TypeOK /\ TypeOK'
  BY TypeStep DEF IInv
<1> USE <1>0 DEF recordVars, dogVars, timeVars, RestUnwatched, InvDefs
<1>1. ASSUME NEW g \in Gens, Start(g) PROVE IInv'
  <2>1. cur \in Nat /\ cur = g - 1 /\ \A h \in Gens : ~Running(h)
    BY <1>1, Bounds DEF Start, IInv, Slots, TypeOK
  <2>2. status[g] = "none" /\ next[g] = 0
    BY <2>1, Bounds DEF IInv, Unstarted
  <2>3. PICK s \in Seqs : s = 0
    BY Bounds
  <2>4. /\ cur' = g /\ cur \in {g, g - 1}
        /\ next' = [next EXCEPT ![g] = s + 1]
        /\ status' = [status EXCEPT ![g] = "running"]
        /\ run' = [run EXCEPT ![g][s] = "booked"]
        /\ UNCHANGED << output, done, open, result >>
    BY <1>1, <2>1, <2>3, Bounds DEF Start
  <2>5. pending'[g] = IF s = 0 THEN 1 ELSE pending[g] + 1
    BY <1>1, <2>3 DEF Start, TypeOK
  <2>6. /\ next[g] = s /\ (s = 0 <=> status[g] = "none") /\ (s > 0 => Running(g))
        /\ \A h \in Gens : Running(h) => h = g
    BY <2>1, <2>2, <2>3
  <2> QED BY <1>1, <2>3, <2>4, <2>5, <2>6, BookStep
<1>2. ASSUME NEW rearm \in BOOLEAN, Extend(rearm) PROVE IInv'
  <2>1. cur \in Gens /\ Running(cur) /\ next[cur] \in Seqs /\ next[cur] > 0
    BY <1>2, Bounds DEF Extend, IInv, Slots, Running, TypeOK
  <2>2. status[cur] = "running" /\ status' = [status EXCEPT ![cur] = "running"]
    BY <1>2, <2>1 DEF Extend, Running, TypeOK
  <2>3. \A h \in Gens : Running(h) => h = cur
    BY DEF IInv, Slots
  <2>4. pending'[cur] = IF next[cur] = 0 THEN 1 ELSE pending[cur] + 1
    BY <1>2, <2>1 DEF Extend, TypeOK
  <2>5. /\ next' = [next EXCEPT ![cur] = next[cur] + 1] /\ cur' = cur
        /\ run' = [run EXCEPT ![cur][next[cur]] = "booked"]
        /\ UNCHANGED << output, done, open, result >>
    BY <1>2 DEF Extend
  <2>6. cur \in {cur, cur - 1} /\ (next[cur] = 0 <=> status[cur] = "none")
    BY <2>1, <2>2
  <2> QED BY <2>1, <2>2, <2>3, <2>4, <2>5, <2>6, BookStep
<1>3. CASE Cancel
  <2>1. cur \in Gens
    BY <1>3, Bounds DEF Cancel, Stoppable, TypeOK
  <2> QED BY <1>3, <2>1, EndStep DEF Cancel, Stoppable
<1>4. CASE Promote
  BY <1>4, QuietStep DEF Promote
<1>5. CASE AskOrAnswer
  BY <1>5, QuietStep DEF AskOrAnswer
<1>6. CASE Tick
  BY <1>6, QuietStep DEF Tick
<1>7. ASSUME NEW g \in Gens, Resolve(g) PROVE IInv'
  <2>1. \A h \in Gens : Running(h)' = Running(h) /\ Ended(h)' = Ended(h)
                        /\ Unsettled(h)' = Unsettled(h)
    BY <1>7 DEF Resolve, Running, Ended, Unsettled
  <2>2. g <= cur
    BY <1>7, Bounds DEF Resolve, IInv, Unstarted, Ended, Terminal, TypeOK
  <2>3. Unstarted' /\ Slots' /\ Counted' /\ Newest' /\ CompletedMeansAllRan'
    <3>1. Unstarted' /\ Newest' /\ CompletedMeansAllRan'
      BY <1>7, <2>1, <2>2, Bounds DEF Resolve, IInv, Unstarted, Newest, CompletedMeansAllRan, TypeOK
    <3>2. Slots' /\ Counted'
      BY <1>7, <2>1 DEF Resolve, IInv, Slots, Counted
    <3> QED BY <3>1, <3>2
  <2>4. Chained'
    BY <1>7, <2>1 DEF Resolve, IInv, Chained, TypeOK, Terminal, Ended
  <2> QED BY <2>3, <2>4 DEF IInv
<1>8. ASSUME NEW g \in Gens, CloseScope(g) PROVE IInv'
  <2> USE DEF TypeOK
  <2>1. \A h \in Gens, e \in Seqs :
           /\ h # g => run'[h][e] = run[h][e]
           /\ run'[h][e] = "over" <=> run[h][e] = "over"
           /\ run'[h][e] = "none" <=> run[h][e] = "none"
           /\ ~Interruptible(run'[g][e])
    BY <1>8 DEF CloseScope, Interruptible
  <2>2. \A h \in Gens : Running(h)' = Running(h) /\ Ended(h)' = Ended(h)
    BY <1>8 DEF CloseScope, Running, Ended
  <2>3. \A h \in Gens : Unsettled(h)' = Unsettled(h)
    <3> SUFFICES ASSUME NEW h \in Gens PROVE Unsettled(h)' = Unsettled(h)
      OBVIOUS
    <3>1. \A e \in 0..(next[h] - 1) : e \in Seqs
      BY SlotSeqs DEF IInv
    <3> QED BY <1>8, <2>1, <3>1 DEF CloseScope, Unsettled
  <2>4. g <= cur
    BY <1>8, Bounds DEF CloseScope, IInv, Unstarted
  <2>5. Unstarted'
    BY <1>8, <2>4, Bounds DEF CloseScope, IInv, Unstarted
  <2>6. Slots'
    BY <1>8, <2>1, <2>2 DEF CloseScope, IInv, Slots
  <2>7. Counted'
    BY <1>8, <2>1, <2>2, <2>3 DEF CloseScope, IInv, Counted
  <2>8. Newest'
    BY <1>8, <2>1, <2>2 DEF CloseScope, IInv, Newest
  <2>9. Chained'
    BY <1>8, <2>1, <2>2 DEF CloseScope, IInv, Chained
  <2>10. CompletedMeansAllRan'
    BY <1>8, <2>1, SlotSeqs DEF CloseScope, IInv, CompletedMeansAllRan
  <2> QED BY <2>5, <2>6, <2>7, <2>8, <2>9, <2>10 DEF IInv
<1>9. ASSUME NEW g \in Gens, WatchStep(g) PROVE IInv'
  <2>1. CASE WatchEnds(g)    BY <2>1, QuietStep DEF WatchEnds
  <2>2. CASE WatchSleeps(g)  BY <2>2, QuietStep DEF WatchSleeps
  <2>3. CASE WatchDue(g)     BY <2>3, QuietStep DEF WatchDue
  <2>4. CASE WatchWakes(g)   BY <2>4, QuietStep DEF WatchWakes
  <2>5. CASE WatchCredits(g) BY <2>5, QuietStep DEF WatchCredits
  <2>6. CASE WatchFires(g)   BY <2>6, QuietStep DEF WatchFires
  <2>7. CASE Expire(g) /\ Current(g)
    BY <2>7, EndStep DEF Expire, Current
  <2>8. CASE Expire(g) /\ ~Current(g)
    BY <2>8, QuietStep DEF Expire
  <2> QED BY <1>9, <2>1, <2>2, <2>3, <2>4, <2>5, <2>6, <2>7, <2>8 DEF WatchStep
<1>10. ASSUME NEW g \in Gens, NEW s \in Seqs, RunStep(g, s) PROVE IInv'
  <2>1. CASE Fork(g, s)
    <3> DEFINE to == IF ~open[g] THEN "unwinding"
                     ELSE IF TailOpen(g, s) THEN "running" ELSE "waiting"
    <3>1. run' = [run EXCEPT ![g][s] = to]
      BY <2>1 DEF Fork
    <3>2. Unstarted' /\ Slots' /\ Counted' /\ Newest' /\ CompletedMeansAllRan'
      BY <2>1, <3>1, MoveStep DEF Fork
    <3>3. Chained'
      BY <2>1, <3>1, ChainStep DEF Fork
    <3> QED BY <3>2, <3>3 DEF IInv
  <2>2. CASE Proceed(g, s)
    <3>1. Unstarted' /\ Slots' /\ Counted' /\ Newest' /\ CompletedMeansAllRan'
      BY <2>2, MoveStep DEF Proceed
    <3>2. open[g]
      BY <2>2 DEF Proceed, IInv, Chained, Interruptible
    <3>3. Chained'
      BY <2>2, <3>2, ChainStep DEF Proceed
    <3> QED BY <3>1, <3>3 DEF IInv
  <2>3. CASE Unwound(g, s)
    BY <2>3, LeaveStep DEF Unwound
  <2>4. CASE Settle(g, s)
    BY <2>4, SettleStep
  <2> QED BY <1>10, <2>1, <2>2, <2>3, <2>4 DEF RunStep
<1>11. ASSUME NEW g \in Gens, NEW s \in Seqs, NEW r \in {"ok", "failed"}, BodyEnds(g, s, r)
       PROVE  IInv'
  BY <1>11, LeaveStep DEF BodyEnds
<1>12. CASE UNCHANGED vars
  BY <1>12, QuietStep DEF vars
<1> QED
  BY <1>1, <1>2, <1>3, <1>4, <1>5, <1>6, <1>7, <1>8, <1>9, <1>10, <1>11, <1>12
     DEF Next, System, Caller

LEMMA Invariant == Spec => []IInv
  BY InitInv, InductiveStep, PTL DEF Spec

(* A job is `completed` only when all its accepted runs returned a result.   *)
THEOREM CompletedJobsRanAll == Spec => []CompletedMeansAllRan
<1>1. IInv => CompletedMeansAllRan
  BY DEF IInv
<1> QED BY <1>1, Invariant, PTL

(* The output of a completed job is that of its newest run.                  *)
THEOREM NewestOutputWins == Spec => []OutputIsNewest
<1>1. IInv => OutputIsNewest
  <2> SUFFICES ASSUME IInv, NEW g \in Gens, status[g] = "completed"
               PROVE  output[g] = next[g] - 1
    BY DEF OutputIsNewest
  <2>1. next[g] \in Nat /\ next[g] > 0 /\ output[g] \in Seqs \cup {-1}
    BY DEF IInv, TypeOK, Slots
  <2>2. output[g] \in Int /\ next[g] - 1 \in 0..(next[g] - 1)
    BY <2>1, OutputInt
  <2>3. next[g] - 1 \in Seqs
    BY <2>2, SlotSeqs DEF IInv
  <2>4. run[g][next[g] - 1] = "over"
    BY <2>2 DEF IInv, CompletedMeansAllRan
  <2>5. next[g] - 1 <= output[g] /\ output[g] < next[g]
    BY <2>3, <2>4 DEF IInv, Newest
  <2> QED BY <2>1, <2>2, <2>5
<1> QED BY <1>1, Invariant, PTL

(* A completed job answers every prompt it accepted.                         *)
THEOREM CompletedJobsAnswerAll == Spec => []CompletedAnswersAll
  BY CompletedJobsRanAll, NewestOutputWins, PTL DEF CompletedAnswersAll

(* The bodies of a job never overlap.                                        *)
THEOREM BodiesAreSerial == Spec => []RunsAreSerial
<1>1. IInv => RunsAreSerial
  BY DEF IInv, Chained, RunsAreSerial, Interruptible
<1> QED BY <1>1, Invariant, PTL

(* Nothing changes the record of a job that has ended, whichever generation  *)
(* holds the id by then.                                                     *)
THEOREM EndedJobsStayEnded == Spec => SettledIsFrozen
<1>1. ASSUME IInv, [Next]_vars, NEW h \in Gens, Ended(h) PROVE Frozen(h)
  <2> USE <1>1 DEF TypeOK, recordVars, dogVars, timeVars, RestUnwatched, Frozen
  <2>0. TypeOK /\ status[h] \notin {"none", "running"} /\ ~Running(h)
    BY DEF IInv, Ended, Terminal, Running
  <2> USE <2>0
  <2>1. ASSUME NEW g \in Gens, Start(g) PROVE Frozen(h)
    <3>1. h # g
      BY <2>1, Bounds DEF Start, IInv, Unstarted
    <3> QED BY <2>1, <3>1 DEF Start
  <2>2. ASSUME NEW rearm \in BOOLEAN, Extend(rearm) PROVE Frozen(h)
    BY <2>2 DEF Extend
  <2>3. CASE Cancel
    BY <2>3 DEF Cancel, EndAs, Stoppable
  <2>4. CASE Promote
    BY <2>4 DEF Promote, Stoppable
  <2>5. CASE AskOrAnswer \/ Tick
    BY <2>5 DEF AskOrAnswer, Tick
  <2>6. ASSUME NEW g \in Gens, Resolve(g) \/ CloseScope(g) PROVE Frozen(h)
    BY <2>6 DEF Resolve, CloseScope
  <2>7. ASSUME NEW g \in Gens, WatchStep(g) PROVE Frozen(h)
    <3>1. CASE Expire(g)
      BY <3>1 DEF Expire, EndAs, Current
    <3>2. CASE ~Expire(g)
      BY <2>7, <3>2 DEF WatchStep, WatchEnds, WatchSleeps, WatchDue, WatchWakes,
                        WatchCredits, WatchFires
    <3> QED BY <3>1, <3>2
  <2>8. ASSUME NEW g \in Gens, NEW s \in Seqs, RunStep(g, s) PROVE Frozen(h)
    <3>1. CASE Settle(g, s)
      BY <3>1 DEF Settle, Current
    <3>2. CASE ~Settle(g, s)
      BY <2>8, <3>2 DEF RunStep, Fork, Proceed, Unwound, Leave
    <3> QED BY <3>1, <3>2
  <2>9. ASSUME NEW g \in Gens, NEW s \in Seqs, NEW r \in {"ok", "failed"}, BodyEnds(g, s, r)
        PROVE  Frozen(h)
    BY <2>9 DEF BodyEnds, Leave
  <2>10. CASE UNCHANGED vars
    BY <2>10 DEF vars
  <2> QED
    BY <2>1, <2>2, <2>3, <2>4, <2>5, <2>6, <2>7, <2>8, <2>9, <2>10 DEF Next, System, Caller
<1>2. IInv /\ [Next]_vars => [EndedFrozen]_vars
  BY <1>1 DEF EndedFrozen
<1> QED BY <1>2, Invariant, PTL DEF Spec, SettledIsFrozen
-----------------------------------------------------------------------------
(* The clock and the watchdog.  What the ceiling promises follows from where *)
(* the deadline stands: it has moved by what the watchdog credited since the *)
(* job was armed, or by more - `credited` also covers the time the session   *)
(* was blocked before - and never by less.                                   *)

\* Every generation up to the current one has a record.
Recorded == \A g \in Gens : status[g] = "none" <=> g > cur

\* A running job has a live watchdog; a generation not started yet has none.
Watched ==
    \A g \in Gens :
        /\ Running(g) => dog[g] \in {"reading", "probing", "sleeping", "firing"}
        /\ g > cur => credited[g] = 0 /\ dog[g] = "none"

\* The deadline leaves the ceiling, and what was credited since it was armed.
Accounted ==
    \A g \in Gens :
        /\ armed[g].at <= now /\ armed[g].blocked <= blocked /\ credited[g] <= blocked
        /\ Running(g) =>
              deadline[g] - armed[g].at - Ceiling >= credited[g] - armed[g].blocked

\* A watchdog past its read saw the deadline reached; one that fires owes nothing.
Due ==
    \A g \in Gens :
        /\ dog[g] \in {"probing", "firing"} /\ Current(g) => deadline[g] <= now
        /\ dog[g] = "firing" => Owed(g) <= 0

\* Between the step that books a run and its fork nothing else is under way.
Quiet ==
    \A g \in Gens, s \in Seqs : run[g][s] = "booked" =>
        /\ Running(g)
        /\ \A h \in Gens, e \in Seqs : /\ run[h][e] # "ending"
                                       /\ run[h][e] = "booked" => h = g /\ e = s
        /\ \A h \in Gens : /\ dog[h] \notin {"probing", "firing"}
                           /\ dog[h] = "reading" => Current(h) /\ now < deadline[h]
                           /\ Ended(h) => ~open[h]

CInv == IInv /\ Recorded /\ Watched /\ Accounted

LEMMA InitCInv == Init => CInv /\ Due /\ Quiet /\ ExpiredOnItsOwnTime
<1> SUFFICES ASSUME Init PROVE CInv /\ Due /\ Quiet /\ ExpiredOnItsOwnTime
  OBVIOUS
<1>1. IInv
  BY InitInv
<1>2. Recorded /\ Watched /\ Accounted
  BY Bounds DEF Init, Recorded, Watched, Accounted, Running, Gens
<1>3. Due /\ Quiet /\ ExpiredOnItsOwnTime
  BY DEF Init, Due, Quiet, ExpiredOnItsOwnTime
<1> QED BY <1>1, <1>2, <1>3 DEF CInv

(* The integers of a generation, for the arithmetic below.                   *)
LEMMA Clocks ==
  ASSUME TypeOK, NEW g \in Gens
  PROVE  /\ now \in Nat /\ blocked \in Nat /\ Ceiling \in Nat \ {0} /\ cur \in Nat /\ g \in Nat
         /\ deadline[g] \in Nat /\ credited[g] \in Nat
         /\ armed[g].at \in Nat /\ armed[g].blocked \in Nat
         /\ ended[g].at \in Nat /\ ended[g].blocked \in Nat
  BY BoundsAssumption, Bounds DEF TypeOK, Moment

(* What the clock and the watchdog do to a job's account, in both settings   *)
(* of Preempt.                                                               *)
LEMMA ClockStep ==
  ASSUME CInv, IInv', [Next]_vars
  PROVE  Recorded' /\ Watched' /\ Accounted'
<1>0. TypeOK /\ TypeOK'
  BY DEF CInv, IInv
<1>a. \A g \in Gens : /\ Running(g) => cur = g
                      /\ (Running(g) \/ Ended(g)) => g <= cur
                      /\ Running(g) => ~Ended(g)
  BY Clocks, <1>0 DEF CInv, IInv, Slots, Recorded, Running, Ended, Terminal
<1> USE <1>0, <1>a DEF recordVars, dogVars, timeVars, RestUnwatched
<1>1. ASSUME NEW g \in Gens, Start(g) PROVE Recorded' /\ Watched' /\ Accounted'
  <2>1. /\ cur' = g /\ g = cur + 1 /\ status' = [status EXCEPT ![g] = "running"]
        /\ deadline' = [deadline EXCEPT ![g] = now + Ceiling]
        /\ dog' = [dog EXCEPT ![g] = "reading"]
        /\ armed' = [armed EXCEPT ![g] = Here]
        /\ UNCHANGED << credited, now, blocked >>
    BY <1>1 DEF Start
  <2>2. Here.at = now /\ Here.blocked = blocked
    BY DEF Here
  <2>3. Recorded'
    BY <2>1, Clocks DEF CInv, Recorded, TypeOK
  <2>4. \A h \in Gens : Running(h)' <=> h = g
    BY <2>1, <1>1, Bounds DEF Running, TypeOK, Start
  <2>5. Watched'
    BY <2>1, <2>4, Clocks DEF CInv, Watched, TypeOK
  <2>6. credited[g] = 0
    BY <2>1, Clocks DEF CInv, Watched
  <2>7. Accounted'
    BY <2>1, <2>2, <2>4, <2>6, Clocks DEF CInv, Accounted, TypeOK
  <2> QED BY <2>3, <2>5, <2>7
<1>2. ASSUME NEW rearm \in BOOLEAN, Extend(rearm) PROVE Recorded' /\ Watched' /\ Accounted'
  <2>1. /\ cur \in Gens /\ UNCHANGED << cur, status, dog, credited, now, blocked >>
        /\ deadline' = [deadline EXCEPT ![cur] = Rearmed(rearm)]
        /\ armed' = [armed EXCEPT ![cur] = IF rearm THEN Here ELSE @]
    BY <1>2, Bounds DEF Extend, TypeOK
  <2>2. Here.at = now /\ Here.blocked = blocked
    BY DEF Here
  <2>3. \A h \in Gens : Running(h)' = Running(h)
    BY <2>1 DEF Running
  <2>4. Accounted'
    BY <2>1, <2>2, <2>3, Clocks DEF CInv, Accounted, TypeOK, Rearmed
  <2> QED BY <2>1, <2>3, <2>4 DEF CInv, Recorded, Watched
<1>3. ASSUME NEW v \in Terminal, Stoppable, EndAs(v),
             UNCHANGED << cur, credited, now, blocked, armed >>,
             \A h \in Gens : h # cur => dog'[h] = dog[h]
      PROVE  Recorded' /\ Watched' /\ Accounted'
  <2>1. \A h \in Gens : /\ status'[h] = "none" <=> status[h] = "none"
                        /\ Running(h)' => h # cur /\ Running(h)
    BY <1>3 DEF EndAs, Running, TypeOK, Terminal, Stoppable
  <2>2. deadline' = deadline /\ cur \in Nat
    BY <1>3, Bounds DEF EndAs, TypeOK
  <2> QED BY <1>3, <2>1, <2>2, Clocks DEF CInv, Recorded, Watched, Accounted
<1>4. CASE Cancel
  BY <1>4, <1>3 DEF Cancel, Terminal
<1>5. CASE Promote
  BY <1>5 DEF Promote, CInv, Recorded, Watched, Accounted, Running
<1>6. CASE AskOrAnswer
  BY <1>6 DEF AskOrAnswer, CInv, Recorded, Watched, Accounted, Running
<1>7. CASE Tick
  <2>1. /\ UNCHANGED << cur, status, deadline, dog, credited, armed >>
        /\ now' = now + 1 /\ blocked' \in {blocked, blocked + 1}
    BY <1>7 DEF Tick
  <2>2. Accounted'
    BY <2>1, Clocks DEF CInv, Accounted, Running
  <2> QED BY <2>1, <2>2 DEF CInv, Recorded, Watched, Running
<1>8. ASSUME NEW g \in Gens, Resolve(g) \/ CloseScope(g)
      PROVE  Recorded' /\ Watched' /\ Accounted'
  BY <1>8 DEF Resolve, CloseScope, CInv, Recorded, Watched, Accounted, Running
<1>9. ASSUME NEW g \in Gens, WatchStep(g) PROVE Recorded' /\ Watched' /\ Accounted'
  <2>1. CASE Expire(g) /\ Current(g)
    <3>1. Stoppable /\ EndAs("expired") /\ cur = g
      BY <2>1, Bounds DEF Expire, Current, Stoppable
    <3>2. UNCHANGED << cur, credited, now, blocked, armed >>
      BY <2>1 DEF Expire
    <3>3. \A h \in Gens : h # cur => dog'[h] = dog[h]
      BY <2>1, <3>1 DEF Expire, Watch, TypeOK
    <3> QED BY <3>1, <3>2, <3>3, <1>3 DEF Terminal
  <2>2. CASE WatchCredits(g)
    <3>1. /\ dog[g] = "probing" /\ dog' = [dog EXCEPT ![g] = "reading"]
          /\ credited' = [credited EXCEPT ![g] = blocked]
          /\ deadline' = [deadline EXCEPT ![g] = IF cur = g THEN @ + Owed(g) ELSE @]
          /\ UNCHANGED << cur, status, now, blocked, armed >>
      BY <2>2 DEF WatchCredits, Watch
    <3>2. \A h \in Gens : Running(h)' = Running(h)
      BY <3>1 DEF Running
    <3>3. g <= cur
      BY <3>1, Clocks DEF CInv, Watched
    <3>4. Watched'
      BY <3>1, <3>2, <3>3, Clocks DEF CInv, Watched, TypeOK
    <3>5. Accounted'
      BY <3>1, <3>2, Clocks DEF CInv, Accounted, TypeOK, Owed
    <3> QED BY <3>1, <3>4, <3>5 DEF CInv, Recorded
  <2>3. ASSUME NEW to \in {"reading", "probing", "sleeping", "firing", "off"},
               dog[g] # "none", dog' = [dog EXCEPT ![g] = to], to = "off" => ~Running(g),
               UNCHANGED << recordVars, credited, cur, timeVars, armed >>
        PROVE  Recorded' /\ Watched' /\ Accounted'
    <3>1. \A h \in Gens : Running(h)' = Running(h)
      BY <2>3 DEF Running
    <3>2. g <= cur
      BY <2>3, Clocks DEF CInv, Watched
    <3>3. Watched'
      BY <2>3, <3>1, <3>2, Clocks DEF CInv, Watched, TypeOK
    <3> QED BY <2>3, <3>1, <3>3 DEF CInv, Recorded, Accounted
  <2>4. ~Current(g) => ~Running(g)
    BY DEF Current
  <2>5. done[g] # "unset" => ~Running(g)
    BY DEF CInv, IInv, Chained
  <2>6. CASE WatchEnds(g)   BY <2>6, <2>3, <2>4 DEF WatchEnds, Watch
  <2>7. CASE WatchSleeps(g) BY <2>7, <2>3 DEF WatchSleeps, Watch
  <2>8. CASE WatchDue(g)    BY <2>8, <2>3 DEF WatchDue, Watch
  <2>9. CASE WatchWakes(g)  BY <2>9, <2>3, <2>5 DEF WatchWakes, Watch
  <2>10. CASE WatchFires(g) BY <2>10, <2>3 DEF WatchFires, Watch
  <2>11. CASE Expire(g) /\ ~Current(g)
    BY <2>11, <2>3, <2>4 DEF Expire, Watch
  <2> QED BY <1>9, <2>1, <2>2, <2>6, <2>7, <2>8, <2>9, <2>10, <2>11 DEF WatchStep
<1>10. ASSUME NEW g \in Gens, NEW s \in Seqs, RunStep(g, s)
       PROVE  Recorded' /\ Watched' /\ Accounted'
  <2>1. CASE Settle(g, s)
    <3>1. \A h \in Gens : /\ status'[h] = "none" <=> status[h] = "none"
                          /\ Running(h)' => Running(h)
      BY <2>1 DEF Settle, Current, Running, Verdict, TypeOK
    <3>2. UNCHANGED << cur, deadline, dog, credited, now, blocked, armed >>
      BY <2>1 DEF Settle
    <3> QED BY <3>1, <3>2 DEF CInv, Recorded, Watched, Accounted
  <2>2. CASE ~Settle(g, s)
    BY <1>10, <2>2 DEF RunStep, Fork, Proceed, Unwound, Leave,
                       CInv, Recorded, Watched, Accounted, Running
  <2> QED BY <2>1, <2>2
<1>11. ASSUME NEW g \in Gens, NEW s \in Seqs, NEW r \in {"ok", "failed"}, BodyEnds(g, s, r)
       PROVE  Recorded' /\ Watched' /\ Accounted'
  BY <1>11 DEF BodyEnds, Leave, CInv, Recorded, Watched, Accounted, Running
<1>12. CASE UNCHANGED vars
  BY <1>12 DEF vars, CInv, Recorded, Watched, Accounted, Running
<1> QED
  BY <1>1, <1>2, <1>4, <1>5, <1>6, <1>7, <1>8, <1>9, <1>10, <1>11, <1>12
     DEF Next, System, Caller

LEMMA ClockInvariant == Spec => []CInv
<1>1. CInv /\ [Next]_vars => CInv'
  BY InductiveStep, ClockStep DEF CInv
<1> QED BY <1>1, InitCInv, PTL DEF Spec

(* A running job's watchdog never leaves before the job does.                *)
THEOREM RunningJobsAreWatched ==
    Spec => [](\A g \in Gens : Running(g) =>
                 dog[g] \in {"reading", "probing", "sleeping", "firing"})
<1>1. CInv => \A g \in Gens : Running(g) =>
                 dog[g] \in {"reading", "probing", "sleeping", "firing"}
  BY DEF CInv, Watched
<1> QED BY <1>1, ClockInvariant, PTL
-----------------------------------------------------------------------------
(* The two promises that rest on the scheduler: a fiber that has not waited  *)
(* since its last step takes its next one before any caller, timer or body   *)
(* (Preempt = FALSE).                                                        *)

LEMMA Waited ==
  ASSUME Preempt = FALSE, Yielded
  PROVE  /\ \A g \in Gens, s \in Seqs : run[g][s] \notin {"booked", "ending"}
         /\ \A g \in Gens : /\ dog[g] \notin {"reading", "probing", "firing"}
                            /\ Ended(g) => ~open[g]
  BY DEF Yielded

(* Between its read and its verdict the watchdog sees neither the deadline   *)
(* nor the blocked total move.                                               *)
LEMMA DueStep ==
  ASSUME Preempt = FALSE, CInv, CInv', Due, [Next]_vars
  PROVE  Due'
<1>0. TypeOK /\ TypeOK'
  BY DEF CInv, IInv
<1> USE <1>0 DEF recordVars, dogVars, timeVars, RestUnwatched
<1>1. ASSUME UNCHANGED << cur, dog, deadline, now, blocked, credited >>,
             \A h \in Gens : Running(h)' => Running(h)
      PROVE  Due'
  <2>1. \A h \in Gens : Current(h)' => Current(h)
    BY <1>1, Bounds DEF Current, Running
  <2> QED BY <1>1, <2>1 DEF Due, Owed
<1>2. ASSUME \A h \in Gens : dog'[h] \notin {"probing", "firing"} PROVE Due'
  BY <1>2 DEF Due
<1>3. ASSUME NEW g \in Gens, Start(g) PROVE Due'
  <2>1. \A h \in Gens : dog[h] \notin {"probing", "firing"}
    BY <1>3, Waited DEF Start
  <2>2. dog' = [dog EXCEPT ![g] = "reading"]
    BY <1>3 DEF Start
  <2> QED BY <2>1, <2>2, <1>2 DEF TypeOK
<1>4. ASSUME NEW rearm \in BOOLEAN, Extend(rearm) PROVE Due'
  BY <1>4, <1>2, Waited DEF Extend
<1>5. CASE Cancel
  BY <1>5, <1>2, Waited DEF Cancel
<1>6. CASE Promote \/ AskOrAnswer
  BY <1>6, <1>1 DEF Promote, AskOrAnswer, Running
<1>7. CASE Tick
  BY <1>7, <1>2, Waited DEF Tick
<1>8. ASSUME NEW g \in Gens, Resolve(g) \/ CloseScope(g) PROVE Due'
  BY <1>8, <1>1 DEF Resolve, CloseScope, Running
<1>9. ASSUME NEW g \in Gens, WatchStep(g) PROVE Due'
  <2> USE DEF Watch
  <2>1. ASSUME dog' = [dog EXCEPT ![g] = dog'[g]], UNCHANGED << cur, now, blocked >>,
               \A h \in Gens : h # g => credited'[h] = credited[h] /\ deadline'[h] = deadline[h],
               \A h \in Gens : Running(h)' => Running(h),
               dog'[g] \in {"probing", "firing"} /\ Current(g)' => deadline'[g] <= now,
               dog'[g] = "firing" => Owed(g)' <= 0
        PROVE  Due'
    <3>1. \A h \in Gens : Current(h)' => Current(h)
      BY <2>1, Bounds DEF Current, Running
    <3>2. ASSUME NEW h \in Gens, h # g
          PROVE  dog'[h] = dog[h] /\ deadline'[h] = deadline[h] /\ Owed(h)' = Owed(h)
      BY <2>1, <3>2 DEF Owed, TypeOK
    <3>3. ASSUME NEW h \in Gens, h # g
          PROVE  /\ dog'[h] \in {"probing", "firing"} /\ Current(h)' => deadline'[h] <= now'
                 /\ dog'[h] = "firing" => Owed(h)' <= 0
      BY <2>1, <3>1, <3>2, <3>3 DEF Due
    <3> QED BY <2>1, <3>3 DEF Due
  <2>2. ASSUME UNCHANGED status PROVE \A h \in Gens : Running(h)' => Running(h)
    BY <2>2 DEF Running
  <2>3. CASE WatchEnds(g) \/ WatchSleeps(g) \/ WatchWakes(g)
    BY <2>3, <2>1, <2>2 DEF WatchEnds, WatchSleeps, WatchWakes, TypeOK
  <2>4. CASE WatchDue(g)
    BY <2>4, <2>1, <2>2 DEF WatchDue, TypeOK
  <2>5. CASE WatchCredits(g)
    BY <2>5, <2>1, <2>2 DEF WatchCredits, TypeOK
  <2>6. CASE WatchFires(g)
    <3>1. Current(g)' = Current(g) /\ Owed(g)' = Owed(g)
      BY <2>6 DEF WatchFires, Current, Running, Owed
    <3> QED BY <2>6, <3>1, <2>1, <2>2 DEF WatchFires, Due, TypeOK
  <2>7. CASE Expire(g)
    <3>1. \A h \in Gens : Running(h)' => Running(h)
      BY <2>7 DEF Expire, EndAs, Running, TypeOK
    <3> QED BY <2>7, <3>1, <2>1 DEF Expire, EndAs, TypeOK
  <2> QED BY <1>9, <2>3, <2>4, <2>5, <2>6, <2>7 DEF WatchStep
<1>10. ASSUME NEW g \in Gens, NEW s \in Seqs, RunStep(g, s) PROVE Due'
  <2>1. CASE Settle(g, s)
    <3>1. \A h \in Gens : Running(h)' => Running(h)
      BY <2>1 DEF Settle, Current, Running, Verdict, TypeOK
    <3> QED BY <2>1, <3>1, <1>1 DEF Settle
  <2>2. CASE ~Settle(g, s)
    BY <1>10, <2>2, <1>1 DEF RunStep, Fork, Proceed, Unwound, Leave, Running
  <2> QED BY <2>1, <2>2
<1>11. ASSUME NEW g \in Gens, NEW s \in Seqs, NEW r \in {"ok", "failed"}, BodyEnds(g, s, r)
       PROVE  Due'
  BY <1>11, <1>1 DEF BodyEnds, Leave, Running
<1>12. CASE UNCHANGED vars
  BY <1>12, <1>1 DEF vars, Running
<1> QED
  BY <1>3, <1>4, <1>5, <1>6, <1>7, <1>8, <1>9, <1>10, <1>11, <1>12 DEF Next, System, Caller

(* A run is booked while everything else waits, and is forked before         *)
(* anything else acts.                                                       *)
LEMMA QuietlyBooked ==
  ASSUME Preempt = FALSE, CInv, CInv', Quiet, [Next]_vars
  PROVE  Quiet'
<1>0. TypeOK /\ TypeOK'
  BY DEF CInv, IInv
<1> DEFINE Booked(h, e) == run[h][e] = "booked"
           Nobody == \A h \in Gens, e \in Seqs : ~Booked(h, e)
<1> USE <1>0 DEF recordVars, dogVars, timeVars, RestUnwatched
<1>1. ASSUME Nobody,
             \A h \in Gens, e \in Seqs : run'[h][e] = "booked" => Booked(h, e)
      PROVE  Quiet'
  BY <1>1 DEF Quiet
<1>2. ASSUME Yielded PROVE Nobody
  BY <1>2, Waited
<1>3. ASSUME NEW g \in Gens, Start(g) PROVE Quiet'
  <2>0. /\ \A h \in Gens, e \in Seqs : run[h][e] \notin {"booked", "ending"}
        /\ run' = [run EXCEPT ![g][0] = "booked"] /\ 0 \in Seqs
    BY <1>3, Waited, Bounds DEF Start
  <2>1. \A h \in Gens, e \in Seqs : run'[h][e] = "booked" => h = g /\ e = 0
    BY <2>0 DEF TypeOK
  <2>2. \A h \in Gens, e \in Seqs : run'[h][e] # "ending"
    BY <2>0 DEF TypeOK
  <2>3. status' = [status EXCEPT ![g] = "running"] /\ cur' = g /\ Running(g)' /\ Current(g)'
    BY <1>3 DEF Start, Running, Current, TypeOK
  <2>4. \A h \in Gens : /\ dog'[h] = "reading" => h = g
                        /\ dog'[h] \notin {"probing", "firing"}
                        /\ Ended(h)' => ~open'[h]
    BY <1>3, Waited, <2>3 DEF Start, Ended, Terminal, TypeOK
  <2>5. now' < deadline'[g]
    BY <1>3, Clocks DEF Start, TypeOK
  <2> QED BY <2>1, <2>2, <2>3, <2>4, <2>5 DEF Quiet
<1>4. ASSUME NEW rearm \in BOOLEAN, Extend(rearm) PROVE Quiet'
  <2>0. cur \in Gens /\ next[cur] \in Seqs
    BY <1>4, Bounds DEF Extend, CInv, IInv, Slots, TypeOK
  <2>1. \A h \in Gens, e \in Seqs : /\ run'[h][e] = "booked" => h = cur /\ e = next[cur]
                                    /\ run'[h][e] # "ending"
    <3>1. /\ \A h \in Gens, e \in Seqs : run[h][e] \notin {"booked", "ending"}
          /\ run' = [run EXCEPT ![cur][next[cur]] = "booked"]
      BY <1>4, Waited DEF Extend
    <3> QED BY <2>0, <3>1 DEF TypeOK
  <2>2. Running(cur)' /\ \A h \in Gens : Ended(h)' = Ended(h)
    BY <1>4 DEF Extend, Running, Ended
  <2>3. \A h \in Gens : /\ dog'[h] \notin {"reading", "probing", "firing"}
                        /\ Ended(h)' => ~open'[h]
    BY <1>4, <2>2, Waited DEF Extend
  <2>4. \A h \in Gens : h = cur => Running(h)'
    BY <1>4 DEF Extend, Running
  <2> QED BY <2>1, <2>3, <2>4 DEF Quiet
<1>5. CASE Cancel \/ Promote \/ AskOrAnswer \/ Tick
  BY <1>5, <1>1, <1>2 DEF Cancel, Promote, AskOrAnswer, Tick
<1>6. ASSUME NEW g \in Gens, Resolve(g) PROVE Quiet'
  <2>1. Ended(g) /\ open[g]
    BY <1>6 DEF Resolve, CInv, IInv, Chained
  <2>2. Nobody
    BY <2>1 DEF Quiet
  <2> QED BY <1>6, <1>1, <2>2 DEF Resolve
<1>7. ASSUME NEW g \in Gens, CloseScope(g) PROVE Quiet'
  <2>1. Ended(g) /\ open[g]
    BY <1>7 DEF CloseScope, CInv, IInv, Chained
  <2>2. Nobody
    BY <2>1 DEF Quiet
  <2> QED BY <1>7, <1>1, <2>2 DEF CloseScope, TypeOK
<1>8. ASSUME NEW g \in Gens, WatchStep(g) PROVE Quiet'
  <2> USE DEF Watch
  <2>1. CASE WatchSleeps(g)
    <3>1. UNCHANGED << cur, run, status, open, now, deadline >>
      BY <2>1 DEF WatchSleeps
    <3>2. \A h \in Gens : Running(h)' = Running(h) /\ Current(h)' = Current(h)
                          /\ Ended(h)' = Ended(h)
      BY <3>1 DEF Running, Current, Ended
    <3>3. \A h \in Gens : /\ dog'[h] = "reading" => dog[h] = "reading"
                          /\ dog'[h] \in {"probing", "firing"} => dog'[h] = dog[h]
      BY <2>1 DEF WatchSleeps, TypeOK
    <3> QED BY <3>1, <3>2, <3>3 DEF Quiet
  <2>2. CASE WatchEnds(g)
    <3>1. Nobody BY <2>2 DEF WatchEnds, Quiet
    <3> QED BY <2>2, <3>1, <1>1 DEF WatchEnds
  <2>3. CASE WatchDue(g)
    <3>1. Nobody BY <2>3, Clocks DEF WatchDue, Quiet
    <3> QED BY <2>3, <3>1, <1>1 DEF WatchDue
  <2>4. CASE WatchWakes(g)
    <3>1. CASE Yielded
      BY <2>4, <3>1, <1>1, <1>2 DEF WatchWakes
    <3>2. CASE dog' = [dog EXCEPT ![g] = "off"]
      <4>1. UNCHANGED << cur, run, status, open, now, deadline >>
        BY <2>4 DEF WatchWakes
      <4>2. \A h \in Gens : Running(h)' = Running(h) /\ Current(h)' = Current(h)
                            /\ Ended(h)' = Ended(h)
        BY <4>1 DEF Running, Current, Ended
      <4>3. \A h \in Gens : dog'[h] \in {"reading", "probing", "firing"} => dog'[h] = dog[h]
        BY <3>2
      <4> QED BY <4>1, <4>2, <4>3 DEF Quiet
    <3> QED BY <2>4, <3>1, <3>2 DEF WatchWakes
  <2>5. CASE WatchCredits(g) \/ WatchFires(g) \/ Expire(g)
    <3>1. Nobody BY <2>5 DEF WatchCredits, WatchFires, Expire, Quiet
    <3> QED BY <2>5, <3>1, <1>1 DEF WatchCredits, WatchFires, Expire
  <2> QED BY <1>8, <2>1, <2>2, <2>3, <2>4, <2>5 DEF WatchStep
<1>9. ASSUME NEW g \in Gens, NEW s \in Seqs, RunStep(g, s) PROVE Quiet'
  <2>1. CASE Fork(g, s)
    <3>1. \A h \in Gens, e \in Seqs : run'[h][e] # "booked"
      BY <2>1 DEF Fork, Quiet, TypeOK
    <3> QED BY <3>1 DEF Quiet
  <2>2. CASE Proceed(g, s)
    <3>1. UNCHANGED << cur, dog, status, open, now, deadline >>
      BY <2>2 DEF Proceed
    <3>2. \A h \in Gens : Running(h)' = Running(h) /\ Current(h)' = Current(h)
                          /\ Ended(h)' = Ended(h)
      BY <3>1 DEF Running, Current, Ended
    <3>3. \A h \in Gens, e \in Seqs : run'[h][e] \in {"booked", "ending"} => run'[h][e] = run[h][e]
      BY <2>2 DEF Proceed, TypeOK
    <3> QED BY <3>1, <3>2, <3>3 DEF Quiet
  <2>4. CASE Unwound(g, s)
    BY <2>4, <1>1, <1>2 DEF Unwound, Leave, TypeOK
  <2>3. CASE Settle(g, s)
    <3>1. Nobody BY <2>3 DEF Settle, Quiet
    <3> QED BY <2>3, <3>1, <1>1 DEF Settle, TypeOK
  <2> QED BY <1>9, <2>1, <2>2, <2>3, <2>4 DEF RunStep
<1>10. ASSUME NEW g \in Gens, NEW s \in Seqs, NEW r \in {"ok", "failed"}, BodyEnds(g, s, r)
       PROVE  Quiet'
  <2>1. Nobody
    <3>1. CASE Yielded
      BY <3>1, <1>2
    <3>2. CASE InHandOver(g, s)
      <4>1. s - 1 \in Seqs
        BY <3>2, BoundsAssumption DEF InHandOver, Seqs
      <4> QED BY <3>2, <4>1 DEF InHandOver, Quiet
    <3> QED BY <1>10, <3>1, <3>2 DEF BodyEnds
  <2> QED BY <1>10, <1>1, <2>1 DEF BodyEnds, Leave, TypeOK
<1>11. CASE UNCHANGED vars
  <2>1. UNCHANGED << cur, run, status, open, now, deadline, dog >>
    BY <1>11 DEF vars
  <2>2. \A h \in Gens : Running(h)' = Running(h) /\ Current(h)' = Current(h)
                        /\ Ended(h)' = Ended(h)
    BY <2>1 DEF Running, Current, Ended
  <2> QED BY <2>1, <2>2 DEF Quiet
<1> QED
  BY <1>3, <1>4, <1>5, <1>6, <1>7, <1>8, <1>9, <1>10, <1>11 DEF Next, System, Caller

\* The runs that have opened their tails and not settled follow one another, the
\* watchdogs sleep meanwhile, and what such a run resumes belongs to a job that runs.
Handing ==
    \A g \in Gens, s \in Seqs :
        /\ run[g][s] = "ending" =>
              /\ \A e, m \in Seqs : run[g][e] = "ending" /\ s < m /\ m < e => run[g][m] = "ending"
              /\ \A h \in Gens : dog[h] \notin {"reading", "probing", "firing"}
        /\ run[g][s] = "waiting" => s > 0 /\ run[g][s - 1] # "over"
        /\ InHandOver(g, s) /\ run[g][s] \in {"waiting", "running"} => Running(g)

(* A run hands over to the one behind it while the job runs.                 *)
LEMMA HandOverStep ==
  ASSUME Preempt = FALSE, CInv, CInv', Quiet, Handing, [Next]_vars
  PROVE  Handing'
<1>0. TypeOK /\ TypeOK'
  BY DEF CInv, IInv
<1> DEFINE Ending(h, e) == run[h][e] = "ending"
           Busy == {"reading", "probing", "firing"}
           Nobody == \A h \in Gens, e \in Seqs : ~Ending(h, e)
<1> USE <1>0 DEF recordVars, dogVars, timeVars, RestUnwatched
<1>s. \A s \in Seqs : s \in Int /\ (s > 0 => s - 1 \in Seqs)
  BY BoundsAssumption DEF Seqs
<1>y. Yielded => Nobody /\ \A h \in Gens : dog[h] \notin Busy
  BY Waited
<1>1. ASSUME \A h \in Gens, e \in Seqs :
               /\ run'[h][e] \in {"ending", "waiting", "over"} => run'[h][e] = run[h][e]
               /\ run'[h][e] = "running" => run[h][e] \in {"waiting", "running"},
             \A h \in Gens, e \in Seqs : run[h][e] = "ending" => run'[h][e] = "ending",
             Nobody \/ \A h \in Gens : dog'[h] \in Busy => dog[h] \in Busy,
             Nobody \/ \A h \in Gens : Running(h) => Running(h)'
      PROVE  Handing'
  <2>1. ASSUME NEW g \in Gens, NEW s \in Seqs, run'[g][s] = "ending"
        PROVE  /\ \A e, m \in Seqs : run'[g][e] = "ending" /\ s < m /\ m < e => run'[g][m] = "ending"
               /\ \A h \in Gens : dog'[h] \notin Busy
    BY <1>1, <2>1 DEF Handing
  <2>2. ASSUME NEW g \in Gens, NEW s \in Seqs, run'[g][s] = "waiting"
        PROVE  s > 0 /\ run'[g][s - 1] # "over"
    BY <1>1, <1>s, <2>2 DEF Handing
  <2>3. ASSUME NEW g \in Gens, NEW s \in Seqs, InHandOver(g, s)', run'[g][s] \in {"waiting", "running"}
        PROVE  Running(g)'
    BY <1>1, <1>s, <2>3 DEF Handing, InHandOver
  <2> QED BY <2>1, <2>2, <2>3 DEF Handing
<1>2. ASSUME UNCHANGED << run, status >>, Nobody \/ \A h \in Gens : dog'[h] \in Busy => dog[h] \in Busy
      PROVE  Handing'
  BY <1>2, <1>1 DEF Running
<1>3. ASSUME NEW g \in Gens, NEW s \in Seqs, Nobody, run' = [run EXCEPT ![g][s] = "booked"]
      PROVE  Handing'
  <2>1. \A h \in Gens, e \in Seqs : run'[h][e] # "booked" => run'[h][e] = run[h][e]
    BY <1>3
  <2>2. \A h \in Gens, e \in Seqs : run'[h][e] # "ending"
    BY <1>3, <2>1
  <2>3. \A h \in Gens, e \in Seqs : run'[h][e] = "waiting" => e > 0 /\ run'[h][e - 1] # "over"
    BY <1>s, <2>1 DEF Handing
  <2> QED BY <1>s, <2>2, <2>3 DEF Handing, InHandOver
<1>4. ASSUME NEW g \in Gens, Start(g) PROVE Handing'
  BY <1>4, <1>3, <1>y, Bounds DEF Start
<1>5. ASSUME NEW rearm \in BOOLEAN, Extend(rearm) PROVE Handing'
  <2>1. cur \in Gens /\ next[cur] \in Seqs
    BY <1>5, Bounds DEF Extend, CInv, IInv, Slots, TypeOK
  <2> QED BY <1>5, <2>1, <1>3, <1>y DEF Extend
<1>6. CASE Cancel
  <2>1. Nobody /\ UNCHANGED run
    BY <1>6, <1>y DEF Cancel
  <2> QED BY <2>1, <1>1
<1>7. CASE Promote \/ AskOrAnswer \/ Tick
  BY <1>7, <1>2 DEF Promote, AskOrAnswer, Tick
<1>8. ASSUME NEW g \in Gens, Resolve(g) PROVE Handing'
  BY <1>8, <1>2 DEF Resolve
<1>9. ASSUME NEW g \in Gens, CloseScope(g) PROVE Handing'
  <2>1. /\ \A h \in Gens, e \in Seqs : run'[h][e] # "unwinding" => run'[h][e] = run[h][e]
        /\ \A h \in Gens, e \in Seqs : run[h][e] = "ending" => run'[h][e] = "ending"
        /\ UNCHANGED << dog, status >>
    BY <1>9 DEF CloseScope, Interruptible
  <2> QED BY <2>1, <1>1 DEF Running
<1>10. ASSUME NEW g \in Gens, WatchStep(g) PROVE Handing'
  <2> USE DEF Watch
  <2>1. CASE WatchWakes(g)
    <3>1. UNCHANGED << run, status >>
      BY <2>1 DEF WatchWakes
    <3>2. CASE Yielded
      BY <3>1, <3>2, <1>y, <1>2
    <3>3. CASE dog' = [dog EXCEPT ![g] = "off"]
      <4>1. \A h \in Gens : dog'[h] \in Busy => dog[h] \in Busy
        BY <3>3
      <4> QED BY <3>1, <4>1, <1>2
    <3> QED BY <2>1, <3>2, <3>3 DEF WatchWakes
  <2>2. CASE ~WatchWakes(g)
    <3>1. dog[g] \in Busy /\ UNCHANGED run
      BY <1>10, <2>2 DEF WatchStep, WatchEnds, WatchSleeps, WatchDue, WatchCredits, WatchFires, Expire
    <3>2. Nobody
      BY <3>1 DEF Handing
    <3> QED BY <3>1, <3>2, <1>1
  <2> QED BY <2>1, <2>2
<1>11. ASSUME NEW g \in Gens, NEW s \in Seqs, RunStep(g, s) PROVE Handing'
  <2>1. CASE Fork(g, s)
    <3>1. \A h \in Gens, e \in Seqs : run'[h][e] # "ending"
      BY <2>1 DEF Fork, Quiet
    <3>2. \A h \in Gens, e \in Seqs : run'[h][e] = "waiting" => e > 0 /\ run'[h][e - 1] # "over"
      <4>1. ASSUME NEW h \in Gens, NEW e \in Seqs, run'[h][e] = "waiting", <<h, e>> # <<g, s>>
            PROVE  e > 0 /\ run'[h][e - 1] # "over"
        <5>1. run[h][e] = "waiting" /\ \A m \in Seqs : run'[h][m] = "over" => run[h][m] = "over"
          BY <2>1, <4>1 DEF Fork
        <5> QED BY <1>s, <5>1 DEF Handing
      <4>2. ASSUME run'[g][s] = "waiting" PROVE s > 0 /\ run'[g][s - 1] # "over"
        <5>1. ~TailOpen(g, s)
          BY <2>1, <4>2 DEF Fork
        <5>2. s > 0 /\ s - 1 # s /\ s - 1 \in Seqs /\ run[g][s - 1] # "over"
          BY <5>1, Bounds, <1>s DEF TailOpen
        <5> QED BY <2>1, <5>2 DEF Fork
      <4> QED BY <4>1, <4>2
    <3> QED BY <1>s, <3>1, <3>2 DEF Handing, InHandOver
  <2>2. CASE Proceed(g, s)
    <3>1. /\ run' = [run EXCEPT ![g][s] = "running"] /\ run[g][s] = "waiting"
          /\ UNCHANGED << dog, status >>
      BY <2>2 DEF Proceed
    <3> QED BY <3>1, <1>1 DEF Running
  <2>3. CASE Unwound(g, s)
    <3>1. /\ run' = [run EXCEPT ![g][s] = "ending"] /\ run[g][s] = "unwinding"
          /\ Yielded /\ UNCHANGED << dog, status, open >>
      BY <2>3 DEF Unwound, Leave
    <3>2. \A h \in Gens, e \in Seqs : /\ <<h, e>> # <<g, s>> => run'[h][e] = run[h][e]
                                      /\ run'[h][e] = "ending" => h = g /\ e = s
      BY <3>1, <1>y
    <3>3. \A h \in Gens, e \in Seqs : run'[h][e] = "waiting" => e > 0 /\ run'[h][e - 1] # "over"
      BY <1>s, <3>1, <3>2 DEF Handing
    <3>4. ~open[g]
      BY <3>1 DEF CInv, IInv, Chained
    <3>5. \A e \in Seqs : run'[g][e] \notin {"waiting", "running"}
      BY <3>1, <3>2, <3>4 DEF CInv, IInv, Chained, Interruptible
    <3>6. \A h \in Gens : dog'[h] \notin Busy
      BY <3>1, <1>y
    <3> QED BY <1>s, <3>2, <3>3, <3>5, <3>6 DEF Handing, InHandOver
  <2>4. CASE Settle(g, s)
    <3>1. /\ run' = [run EXCEPT ![g][s] = "over"] /\ run[g][s] = "ending" /\ HandedOver(g, s)
          /\ UNCHANGED << dog, open >>
      BY <2>4 DEF Settle
    <3>2. \A h \in Gens, e \in Seqs : <<h, e>> # <<g, s>> => run'[h][e] = run[h][e]
      BY <3>1
    <3>3. ASSUME NEW h \in Gens, NEW b \in Seqs, NEW e \in Seqs, NEW m \in Seqs,
                 run'[h][b] = "ending", run'[h][e] = "ending", b < m, m < e
          PROVE  run'[h][m] = "ending"
      <4>1. run[h][b] = "ending" /\ run[h][e] = "ending" /\ run[h][m] = "ending"
        BY <3>1, <3>2, <3>3 DEF Handing
      <4>2. CASE h = g /\ m = s
        <5>1. s + 1 \in Seqs /\ s < s + 1 /\ (s + 1 = e \/ s + 1 < e)
          BY <3>3, <4>2, BoundsAssumption DEF Seqs
        <5>2. run[g][s + 1] = "ending"
          BY <3>1, <4>1, <4>2, <5>1 DEF Handing
        <5> QED BY <3>1, <5>1, <5>2 DEF HandedOver
      <4> QED BY <3>2, <4>1, <4>2
    <3>4. \A h \in Gens, e \in Seqs : run'[h][e] = "ending" => run[h][e] = "ending"
      BY <3>1, <3>2
    <3>5. ASSUME NEW h \in Gens, NEW e \in Seqs, run'[h][e] = "waiting"
          PROVE  e > 0 /\ run'[h][e - 1] # "over"
      <4>1. run[h][e] = "waiting" /\ e > 0 /\ e - 1 \in Seqs /\ run[h][e - 1] # "over"
        BY <1>s, <3>1, <3>2, <3>5 DEF Handing
      <4>2. <<h, e - 1>> # <<g, s>>
        BY <1>s, <3>1, <4>1 DEF HandedOver
      <4> QED BY <3>2, <4>1, <4>2
    <3>6. ASSUME NEW h \in Gens, NEW e \in Seqs, InHandOver(h, e)', run'[h][e] \in {"waiting", "running"}
          PROVE  Running(h)'
      <4>0. /\ e - 1 \in Seqs /\ run'[h][e - 1] = "ending" /\ run'[g][s] = "over"
            /\ e > 0
        BY <1>s, <3>1, <3>6 DEF InHandOver, TypeOK
      <4>a. <<h, e - 1>> # <<g, s>> /\ <<h, e>> # <<g, s>>
        BY <3>6, <4>0
      <4>b. run[h][e - 1] = "ending" /\ run[h][e] \in {"waiting", "running"}
        BY <3>2, <3>6, <4>0, <4>a
      <4>1. /\ e - 1 \in Seqs /\ run[h][e - 1] = "ending" /\ <<h, e - 1>> # <<g, s>>
            /\ run[h][e] \in {"waiting", "running"} /\ Running(h)
        BY <4>0, <4>a, <4>b DEF Handing, InHandOver
      <4>2. CASE h # g
        <5>1. status' = status \/ (cur = g /\ \E v : status' = [status EXCEPT ![cur] = v])
          BY <2>4 DEF Settle, Current
        <5> QED BY <4>1, <4>2, <5>1 DEF Running, TypeOK
      <4>3. CASE h = g
        <5>1. open[g]
          BY <4>1, <4>3 DEF CInv, IInv, Chained, Interruptible
        <5>2. ~(e < s) /\ e # s
          BY <3>1, <4>1, <4>3, <5>1 DEF CInv, IInv, Chained
        <5>3. s < e - 1 /\ s + 1 \in Seqs /\ (s + 1 = e - 1 \/ s + 1 < e - 1) /\ s < s + 1
          BY <4>1, <4>3, <5>2, <1>s, BoundsAssumption DEF Seqs
        <5>4. run[g][s + 1] = "ending"
          BY <3>1, <4>1, <4>3, <5>3 DEF Handing
        <5> QED BY <3>1, <5>3, <5>4 DEF HandedOver
      <4> QED BY <4>2, <4>3
    <3>7. ASSUME NEW h \in Gens, NEW e \in Seqs, run'[h][e] = "ending"
          PROVE  \A k \in Gens : dog'[k] \notin Busy
      BY <3>1, <3>4, <3>7 DEF Handing
    <3> QED BY <3>3, <3>5, <3>6, <3>7 DEF Handing
  <2> QED BY <1>11, <2>1, <2>2, <2>3, <2>4 DEF RunStep
<1>12. ASSUME NEW g \in Gens, NEW s \in Seqs, NEW r \in {"ok", "failed"}, BodyEnds(g, s, r)
       PROVE  Handing'
  <2>1. /\ run' = [run EXCEPT ![g][s] = "ending"] /\ run[g][s] = "running"
        /\ UNCHANGED << dog, status, open >>
    BY <1>12 DEF BodyEnds, Leave
  <2>2. \A h \in Gens, e \in Seqs : <<h, e>> # <<g, s>> => run'[h][e] = run[h][e]
    BY <2>1
  <2>3. open[g] /\ \A e \in Seqs : s < e => run[g][e] \notin {"running", "ending", "over"}
    BY <2>1 DEF CInv, IInv, Chained, Interruptible
  <2>4. /\ Running(g)
        /\ \A h \in Gens : dog[h] \notin Busy
        /\ \A h \in Gens, e \in Seqs : Ending(h, e) => InHandOver(g, s)
    <3>1. CASE Yielded
      <4>1. ~Ended(g) /\ Nobody /\ \A h \in Gens : dog[h] \notin Busy
        BY <2>3, <3>1, <1>y, Waited
      <4>2. status[g] # "none"
        BY <2>1, Clocks, Bounds DEF CInv, IInv, Recorded, Unstarted, Slots
      <4> QED BY <4>1, <4>2 DEF Ended, Running, TypeOK
    <3>2. CASE InHandOver(g, s)
      BY <2>1, <3>2, <1>s DEF InHandOver, Handing
    <3> QED BY <1>12, <3>1, <3>2 DEF BodyEnds
  <2>5. ASSUME NEW h \in Gens, NEW b \in Seqs, NEW e \in Seqs, NEW m \in Seqs,
               run'[h][b] = "ending", run'[h][e] = "ending", b < m, m < e
        PROVE  run'[h][m] = "ending"
    <3>1. CASE h # g \/ (e # s /\ b # s)
      BY <2>1, <2>2, <2>5, <3>1 DEF Handing
    <3>2. CASE h = g /\ b = s
      <4>1. s < e /\ run[g][e] = "ending"
        BY <2>2, <2>5, <3>2, <1>s
      <4> QED BY <2>3, <4>1
    <3>3. CASE h = g /\ e = s
      <4>1. run[g][b] = "ending" /\ b \in Int /\ m \in Int /\ s \in Int
        BY <2>2, <2>5, <3>3, <1>s
      <4>2. s - 1 \in Seqs /\ run[g][s - 1] = "ending"
        BY <2>4, <4>1, <1>s DEF InHandOver
      <4>3. m = s - 1 \/ m < s - 1
        BY <2>5, <3>3, <4>1
      <4>4. run[g][m] = "ending"
        BY <2>5, <4>1, <4>2, <4>3 DEF Handing
      <4> QED BY <2>1, <2>2, <3>3, <4>4
    <3> QED BY <3>1, <3>2, <3>3
  <2>6. ASSUME NEW h \in Gens, NEW e \in Seqs, run'[h][e] = "waiting"
        PROVE  e > 0 /\ run'[h][e - 1] # "over"
    BY <1>s, <2>1, <2>2, <2>6 DEF Handing
  <2>7. ASSUME NEW h \in Gens, NEW e \in Seqs, InHandOver(h, e)', run'[h][e] \in {"waiting", "running"}
        PROVE  Running(h)'
    <3>1. run[h][e] \in {"waiting", "running"} /\ e > 0 /\ e - 1 \in Seqs /\ run'[h][e - 1] = "ending"
      BY <1>s, <2>1, <2>2, <2>7 DEF InHandOver
    <3>2. CASE <<h, e - 1>> = <<g, s>>
      BY <2>1, <2>4, <3>2 DEF Running
    <3>3. CASE <<h, e - 1>> # <<g, s>>
      BY <2>1, <2>2, <3>1, <3>3 DEF InHandOver, Handing, Running
    <3> QED BY <3>2, <3>3
  <2>8. \A h \in Gens : dog'[h] \notin Busy
    BY <2>1, <2>4
  <2> QED BY <2>5, <2>6, <2>7, <2>8 DEF Handing
<1>13. CASE UNCHANGED vars
  BY <1>13, <1>2 DEF vars
<1> QED
  BY <1>4, <1>5, <1>6, <1>7, <1>8, <1>9, <1>10, <1>11, <1>12, <1>13 DEF Next, System, Caller

(* The ceiling fires on time that was the job's own.                         *)
LEMMA ExpiryStep ==
  ASSUME CInv, Due, ExpiredOnItsOwnTime, [Next]_vars
  PROVE  ExpiredOnItsOwnTime'
<1>0. TypeOK
  BY DEF CInv, IInv
<1> USE <1>0 DEF recordVars, dogVars, timeVars, RestUnwatched
<1>1. ASSUME \A h \in Gens : status'[h] = "expired" =>
               status[h] = "expired" /\ ended'[h] = ended[h] /\ armed'[h] = armed[h]
      PROVE  ExpiredOnItsOwnTime'
  BY <1>1 DEF ExpiredOnItsOwnTime
<1>2. ASSUME NEW g \in Gens, Start(g) PROVE ExpiredOnItsOwnTime'
  BY <1>2, <1>1 DEF Start, TypeOK, CInv, Recorded
<1>3. ASSUME NEW rearm \in BOOLEAN, Extend(rearm) PROVE ExpiredOnItsOwnTime'
  BY <1>3, <1>1, Bounds DEF Extend, TypeOK, Running
<1>4. CASE Cancel
  BY <1>4, <1>1 DEF Cancel, EndAs, TypeOK
<1>5. CASE Promote \/ AskOrAnswer \/ Tick
  BY <1>5, <1>1 DEF Promote, AskOrAnswer, Tick
<1>6. ASSUME NEW g \in Gens, Resolve(g) \/ CloseScope(g) PROVE ExpiredOnItsOwnTime'
  BY <1>6, <1>1 DEF Resolve, CloseScope
<1>7. ASSUME NEW g \in Gens, WatchStep(g) PROVE ExpiredOnItsOwnTime'
  <2>1. CASE Expire(g) /\ Current(g)
    <3>1. /\ cur = g /\ Running(g) /\ dog[g] = "firing"
          /\ status' = [status EXCEPT ![g] = "expired"]
          /\ ended' = [ended EXCEPT ![g] = Here]
          /\ armed' = armed
      BY <2>1 DEF Expire, Watch, EndAs, Current
    <3>2. ended'[g].at = now /\ ended'[g].blocked = blocked
      BY <3>1 DEF Here, TypeOK
    <3>3. deadline[g] <= now /\ blocked - credited[g] <= 0
      BY <2>1, <3>1 DEF Due, Owed
    <3>4. deadline[g] - armed[g].at - Ceiling >= credited[g] - armed[g].blocked
      BY <3>1 DEF CInv, Accounted
    <3>5. (now - armed[g].at) - (blocked - armed[g].blocked) >= Ceiling
      BY <3>3, <3>4, Clocks
    <3>6. \A h \in Gens : h # g => status'[h] = status[h] /\ ended'[h] = ended[h]
      BY <3>1 DEF TypeOK
    <3> QED BY <3>1, <3>2, <3>5, <3>6 DEF ExpiredOnItsOwnTime
  <2>2. CASE ~(Expire(g) /\ Current(g))
    BY <1>7, <2>2, <1>1 DEF WatchStep, WatchEnds, WatchSleeps, WatchDue, WatchWakes,
                            WatchCredits, WatchFires, Expire
  <2> QED BY <2>1, <2>2
<1>8. ASSUME NEW g \in Gens, NEW s \in Seqs, RunStep(g, s) PROVE ExpiredOnItsOwnTime'
  <2>1. CASE Settle(g, s)
    <3>1. \A h \in Gens : status'[h] = "expired" => status[h] = "expired" /\ ended'[h] = ended[h]
      BY <2>1 DEF Settle, Current, Running, Verdict, TypeOK
    <3> QED BY <2>1, <3>1, <1>1 DEF Settle
  <2>2. CASE ~Settle(g, s)
    BY <1>8, <2>2, <1>1 DEF RunStep, Fork, Proceed, Unwound, Leave
  <2> QED BY <2>1, <2>2
<1>9. ASSUME NEW g \in Gens, NEW s \in Seqs, NEW r \in {"ok", "failed"}, BodyEnds(g, s, r)
      PROVE  ExpiredOnItsOwnTime'
  BY <1>9, <1>1 DEF BodyEnds, Leave
<1>10. CASE UNCHANGED vars
  BY <1>10, <1>1 DEF vars
<1> QED
  BY <1>2, <1>3, <1>4, <1>5, <1>6, <1>7, <1>8, <1>9, <1>10 DEF Next, System, Caller

Cooperative == CInv /\ Due /\ Quiet /\ Handing /\ ExpiredOnItsOwnTime

LEMMA CooperativeInvariant ==
  ASSUME Preempt = FALSE
  PROVE  Spec => []Cooperative
<1>1. Init => Handing
  BY DEF Init, Handing, InHandOver
<1>2. Cooperative /\ [Next]_vars => Cooperative'
  <2> SUFFICES ASSUME Cooperative, [Next]_vars PROVE Cooperative'
    OBVIOUS
  <2>1. CInv'
    BY InductiveStep, ClockStep DEF Cooperative, CInv
  <2> QED BY <2>1, DueStep, QuietlyBooked, HandOverStep, ExpiryStep DEF Cooperative
<1> QED BY <1>1, <1>2, InitCInv, PTL DEF Spec, Cooperative

(* A job the watchdog ended has had its ceiling of time of its own.          *)
THEOREM CeilingIsOwnTime ==
  ASSUME Preempt = FALSE
  PROVE  Spec => []ExpiredOnItsOwnTime
<1>1. Cooperative => ExpiredOnItsOwnTime
  BY DEF Cooperative
<1> QED BY <1>1, CooperativeInvariant, PTL

\* A job whose runs have all settled so far and whose scope is open has had no failure.
LEMMA NoneFailed ==
  ASSUME CInv, NEW g \in Gens, Running(g), NEW s \in Seqs, NEW e \in 0..(s - 1),
         run[g][e] = "over"
  PROVE  result[g][e] = "ok"
<1>1. e \in Seqs
  BY BoundsAssumption DEF Seqs
<1> QED BY <1>1 DEF CInv, IInv, Counted

(* A body that is entered belongs to a job that runs, and whatever failed    *)
(* before it is still handing over to it; and once the hand-over is done, no *)
(* body of a job that failed or was stopped is left running.                 *)
THEOREM BodiesStopAtTheEnd ==
  ASSUME Preempt = FALSE
  PROVE  Spec => NoBodyAfterTheEnd
<1>s. \A s \in Seqs : /\ s \in Int /\ (s > 0 => s - 1 \in Seqs)
                      /\ \A e \in 0..(s - 1) : e \in Seqs /\ e < s /\ s > 0 /\ (e = s - 1 \/ e < s - 1)
  BY BoundsAssumption DEF Seqs
<1>1. ASSUME Cooperative, [Next]_vars, NEW g \in Gens, NEW s \in Seqs, Enters(g, s)
      PROVE  EnteredBeforeTheEnd(g, s)
  <2>0. TypeOK /\ CInv
    BY <1>1 DEF Cooperative, CInv, IInv
  <2>1. Fork(g, s) \/ Proceed(g, s)
    BY <1>1, <2>0, Bounds
       DEF Next, Caller, System, RunStep, WatchStep, Start, Extend, Cancel, Promote, AskOrAnswer,
           Tick, Resolve, CloseScope, WatchEnds, WatchSleeps, WatchDue, WatchWakes, WatchCredits,
           WatchFires, Expire, Fork, Proceed, Unwound, Leave, Settle, BodyEnds, vars,
           RestUnwatched, TypeOK, Enters
  <2>2. TailOpen(g, s) /\ open[g]
    BY <1>1, <2>0, <2>1 DEF Fork, Proceed, CInv, IInv, Chained, Interruptible, TypeOK, Enters
  <2>3. Running(g)
    <3>1. CASE Fork(g, s)
      BY <1>1, <3>1 DEF Fork, Cooperative, Quiet
    <3>2. CASE Proceed(g, s)
      <4>1. InHandOver(g, s)
        BY <1>1, <1>s, <2>2, <3>2 DEF Proceed, TailOpen, InHandOver, Cooperative, Handing
      <4> QED BY <1>1, <3>2, <4>1 DEF Proceed, Cooperative, Handing
    <3> QED BY <2>1, <3>1, <3>2
  <2>4. ASSUME NEW e \in 0..(s - 1) PROVE result[g][e] = "ok" \/ run[g][e] = "ending"
    <3>1. run[g][s - 1] \in {"ending", "over"} /\ s - 1 \in Seqs
      BY <1>s, <2>2 DEF TailOpen
    <3>2. run[g][e] \in {"ending", "over"}
      BY <1>s, <2>0, <2>2, <3>1 DEF CInv, IInv, Chained
    <3> QED BY <2>0, <2>3, <3>2, NoneFailed
  <2> QED BY <2>3, <2>4 DEF EnteredBeforeTheEnd
<1>2. ASSUME Cooperative, Yielded, NEW g \in Gens, NEW s \in Seqs, run[g][s] = "running"
      PROVE  Running(g) /\ \A e \in 0..(s - 1) : result[g][e] = "ok"
  <2>0. TypeOK /\ CInv
    BY <1>2 DEF Cooperative, CInv, IInv
  <2>1. open[g] /\ ~Ended(g) /\ \A e \in Seqs : run[g][e] # "ending"
    BY <1>2, <2>0, Waited DEF CInv, IInv, Chained, Interruptible
  <2>2. status[g] # "none"
    BY <1>2, <2>0, Clocks, Bounds DEF CInv, IInv, Recorded, Unstarted, Slots, TypeOK
  <2>3. Running(g)
    BY <2>0, <2>1, <2>2 DEF Ended, Running, TypeOK
  <2>4. ASSUME NEW e \in 0..(s - 1) PROVE run[g][e] = "over"
    BY <1>2, <1>s, <2>0, <2>1 DEF CInv, IInv, Chained
  <2> QED BY <2>0, <2>3, <2>4, NoneFailed
<1>3. Cooperative => StoppedAtOnce
  BY <1>2 DEF StoppedAtOnce
<1>4. Cooperative /\ [Next]_vars
        => [\A g \in Gens, s \in Seqs : Enters(g, s) => EnteredBeforeTheEnd(g, s)]_vars
  BY <1>1
<1> QED BY <1>3, <1>4, CooperativeInvariant, PTL DEF Spec, NoBodyAfterTheEnd
-----------------------------------------------------------------------------
(* The registry implements JobLedger.  The record's fields are the ledger's  *)
(* and an action that writes none of them is a stutter; the work is in a     *)
(* settle, where the code asks whether the pending count is down to zero and *)
(* the ledger whether all the accepted runs have returned.                   *)

LEMMA SameReturns ==
  ASSUME \A g \in Gens, s \in Seqs :
           (run'[g][s] = "over" /\ result'[g][s] = "ok")
             <=> (run[g][s] = "over" /\ result[g][s] = "ok")
  PROVE  Returned' = Returned
<1>1. \A g \in Gens : {s \in Seqs : run'[g][s] = "over" /\ result'[g][s] = "ok"}
                        = {s \in Seqs : run[g][s] = "over" /\ result[g][s] = "ok"}
  OBVIOUS
<1> QED BY <1>1 DEF Returned

\* A run that moves, and not to or from its settle, returns nothing.
LEMMA MovesReturnNothing ==
  ASSUME NEW g \in Gens, NEW s \in Seqs, run[g][s] # "over", run'[g][s] # "over",
         \A h \in Gens, e \in Seqs : <<h, e>> # <<g, s>> =>
             run'[h][e] = run[h][e] /\ result'[h][e] = result[h][e]
  PROVE  Returned' = Returned
<1>1. \A h \in Gens, e \in Seqs :
         (run'[h][e] = "over" /\ result'[h][e] = "ok")
           <=> (run[h][e] = "over" /\ result[h][e] = "ok")
  OBVIOUS
<1> QED BY <1>1, SameReturns

\* A run whose settle is still to come has not returned.
LEMMA FreshReturn ==
  ASSUME TypeOK, NEW g \in Gens, NEW s \in Seqs, run[g][s] = "ending",
         result[g][s] = "ok", run' = [run EXCEPT ![g][s] = "over"], result' = result
  PROVE  s \notin Returned[g] /\ Returned' = [Returned EXCEPT ![g] = @ \cup {s}]
<1>1. \A h \in Gens \ {g} :
        {e \in Seqs : run'[h][e] = "over" /\ result'[h][e] = "ok"}
          = {e \in Seqs : run[h][e] = "over" /\ result[h][e] = "ok"}
  BY DEF TypeOK
<1>2. {e \in Seqs : run'[g][e] = "over" /\ result'[g][e] = "ok"}
        = {e \in Seqs : run[g][e] = "over" /\ result[g][e] = "ok"} \cup {s}
  BY DEF TypeOK
<1>3. s \notin Returned[g]
  BY DEF Returned
<1>4. Returned = [h \in Gens |-> Returned[h]] /\ Returned' = [h \in Gens |-> Returned'[h]]
  BY DEF Returned
<1>5. \A h \in Gens \ {g} : Returned'[h] = Returned[h]
  BY <1>1 DEF Returned
<1>6. Returned'[g] = Returned[g] \cup {s}
  BY <1>2 DEF Returned
<1> QED BY <1>3, <1>4, <1>5, <1>6

\* The count the code keeps is at one exactly when the ledger misses one run.
LEMMA LastIsLast ==
  ASSUME IInv, NEW g \in Gens, NEW s \in Seqs, Running(g), run[g][s] = "ending"
  PROVE  pending[g] - 1 <= 0 <=> 0..(next[g] - 1) = Returned[g] \cup {s}
<1>0. next[g] \in Nat /\ \A e \in Seqs : e \in Nat
  BY Bounds DEF IInv, TypeOK
<1>1. \A e \in Seqs : e \in 0..(next[g] - 1) <=> run[g][e] # "none"
  BY <1>0 DEF IInv, Slots
<1>2. \A e \in 0..(next[g] - 1) : e \in Seqs
  BY SlotSeqs DEF IInv
<1>3. \A e \in Seqs : e \in Returned[g] <=> run[g][e] = "over"
  BY DEF Returned, IInv, Counted
<1>4. Returned[g] \subseteq Seqs
  BY DEF Returned
<1>5. s \in Unsettled(g)
  BY <1>1 DEF Unsettled
<1>6. pending[g] = Cardinality(Unsettled(g))
  BY DEF IInv, Counted
<1>7. /\ IsFiniteSet(Unsettled(g) \ {s})
      /\ Cardinality(Unsettled(g) \ {s}) = pending[g] - 1
      /\ pending[g] - 1 \in Nat
  <2>1. TypeOK
    BY DEF IInv
  <2>2. IsFiniteSet(Unsettled(g))
    BY <2>1, UnsettledFinite
  <2>3. /\ IsFiniteSet(Unsettled(g) \ {s})
        /\ Cardinality(Unsettled(g) \ {s}) = Cardinality(Unsettled(g)) - 1
    BY <1>5, <2>2, FS_RemoveElement
  <2>4. Cardinality(Unsettled(g) \ {s}) \in Nat
    BY <2>3, FS_CardinalityType
  <2> QED BY <1>6, <2>3, <2>4
<1>8. pending[g] - 1 <= 0 <=> Unsettled(g) \ {s} = {}
  BY <1>7, FS_EmptySet
<1>9. Unsettled(g) \ {s} = {} <=> \A e \in 0..(next[g] - 1) : e = s \/ e \in Returned[g]
  BY <1>2, <1>3 DEF Unsettled
<1>10. \A e \in Returned[g] \cup {s} : e \in 0..(next[g] - 1)
  BY <1>1, <1>3, <1>4
<1> QED BY <1>8, <1>9, <1>10

(* A settle is the return of its run, or the end of a job by a run that      *)
(* failed or was interrupted, or nothing.                                    *)
LEMMA SettleIsReturn ==
  ASSUME IInv, NEW g \in Gens, NEW s \in Seqs, Settle(g, s)
  PROVE  [Ledger!Next]_(Ledger!vars)
<1> USE DEF TypeOK
<1>0. TypeOK /\ s \in Nat
  BY Bounds DEF IInv
<1>1. /\ run[g][s] = "ending" /\ run' = [run EXCEPT ![g][s] = "over"]
      /\ UNCHANGED << cur, done, open, result, next, background >>
  BY DEF Settle, recordVars
<1>2. s < next[g]
  BY <1>0, <1>1, Bounds DEF IInv, Slots
<1>3. Current(g) <=> Running(g)
  BY DEF IInv, Slots, Current, Running
<1>4. CASE result[g][s] = "ok"
  <2>1. s \notin Returned[g] /\ Returned' = [Returned EXCEPT ![g] = @ \cup {s}]
    BY <1>0, <1>1, <1>4, FreshReturn
  <2>2. Ledger!Return(g, s)
    <3>1. CASE ~Running(g)
      <4>1. UNCHANGED << output, status >>
        BY <1>3, <3>1 DEF Settle, recordVars
      <4> QED BY <1>1, <1>2, <2>1, <3>1, <4>1 DEF Ledger!Return, Ledger!Running, Running
    <3>2. CASE Running(g)
      <4>1. Current(g) /\ cur = g
        BY <1>3, <3>2 DEF Current
      <4>2. output' = [output EXCEPT ![g] = Ledger!Newest(@, s)]
        <5>1. output' = [output EXCEPT ![g] = IF s > output[g] THEN s ELSE @]
          BY <1>4, <4>1 DEF Settle, Newer
        <5> QED BY <5>1, <1>0 DEF Ledger!Newest
      <4>3. pending[g] - 1 <= 0 <=> 0..(next[g] - 1) = Returned[g] \cup {s}
        BY <1>1, <3>2, LastIsLast
      <4>4. status' = [status EXCEPT ![g] =
                         IF pending[g] - 1 <= 0 THEN "completed" ELSE @]
        BY <1>0, <1>4, <4>1 DEF Settle, Final, Verdict
      <4>5. status' = [status EXCEPT ![g] =
                         IF 0..(next[g] - 1) = Returned[g] \cup {s} THEN "completed" ELSE @]
        BY <4>3, <4>4
      <4> QED BY <1>1, <1>2, <2>1, <3>2, <4>2, <4>5
                 DEF Ledger!Return, Ledger!Running, Running
    <3> QED BY <3>1, <3>2
  <2> QED BY <2>2 DEF Ledger!Next
<1>5. CASE result[g][s] # "ok"
  <2>1. Returned' = Returned
    BY <1>0, <1>1, <1>5, SameReturns
  <2>2. CASE ~Running(g)
    BY <1>1, <1>3, <2>1, <2>2 DEF Settle, recordVars, Ledger!vars
  <2>3. CASE Running(g)
    <3>1. Current(g) /\ cur = g
      BY <1>3, <2>3 DEF Current
    <3>2. output' = output
      BY <1>0, <1>5, <3>1 DEF Settle, Newer
    <3>3. status' = [status EXCEPT ![g] = Verdict(result[g][s])]
      BY <1>5, <3>1 DEF Settle, Final
    <3>4. Verdict(result[g][s]) \in Ledger!Stopped
      BY <1>5 DEF Verdict, Ledger!Stopped
    <3>5. Ledger!Stop(g, Verdict(result[g][s]))
      BY <1>1, <2>1, <2>3, <3>2, <3>3 DEF Ledger!Stop, Ledger!Running, Running
    <3> QED BY <3>4, <3>5 DEF Ledger!Next
  <2> QED BY <2>2, <2>3
<1> QED BY <1>4, <1>5

(* Every step of the registry is a step or a stutter of the ledger.          *)
LEMMA LedgerStep == IInv /\ [Next]_vars => [Ledger!Next]_(Ledger!vars)
<1> SUFFICES ASSUME IInv, [Next]_vars PROVE [Ledger!Next]_(Ledger!vars)
  OBVIOUS
<1> USE DEF TypeOK, recordVars, dogVars, timeVars, RestUnwatched
<1>0. TypeOK
  BY DEF IInv
<1>r. UNCHANGED << run, result >> => Returned' = Returned
  BY DEF Returned
<1>l. ASSUME NEW g \in Gens, NEW s \in Seqs, NEW stage \in {"running", "unwinding"}, NEW r,
             Leave(g, s, stage, r)
      PROVE  Returned' = Returned
  <2>1. run[g][s] # "over" /\ run'[g][s] # "over"
    BY <1>0, <1>l DEF Leave
  <2>2. \A h \in Gens, e \in Seqs : <<h, e>> # <<g, s>> =>
            run'[h][e] = run[h][e] /\ result'[h][e] = result[h][e]
    BY <1>0, <1>l DEF Leave
  <2> QED BY <2>1, <2>2, MovesReturnNothing
<1>1. ASSUME NEW g \in Gens, Start(g) PROVE Ledger!Start(g)
  <2>1. Returned' = Returned
    <3>1. run[g][0] = "none"
      BY <1>0, <1>1, Bounds, BoundsAssumption DEF Start, IInv, Unstarted, Slots
    <3>2. \A h \in Gens, e \in Seqs : <<h, e>> # <<g, 0>> => run'[h][e] = run[h][e]
      BY <1>0, <1>1 DEF Start
    <3>3. run'[g][0] = "booked" /\ result' = result
      BY <1>0, <1>1, Bounds DEF Start
    <3> QED BY <3>1, <3>2, <3>3, Bounds, MovesReturnNothing
  <2>2. \A h \in Gens : status[h] # "running"
    BY <1>0, <1>1, Bounds DEF Start, IInv, Slots, Running
  <2>3. next[g] = 0
    BY <1>0, <1>1, Bounds DEF Start, IInv, Unstarted
  <2> QED BY <1>1, <2>1, <2>2 DEF Start, Ledger!Start, Ledger!Running
<1>2. ASSUME NEW rearm \in BOOLEAN, Extend(rearm)
      PROVE  cur \in Gens /\ Ledger!Accept(cur)
  <2>1. cur \in Gens /\ next[cur] \in Seqs
    BY <1>0, <1>2, Bounds, BoundsAssumption DEF Extend, IInv
  <2>2. run[cur][next[cur]] = "none"
    BY <1>0, <2>1, Bounds DEF IInv, Slots
  <2>3. Returned' = Returned
    <3>1. \A h \in Gens, e \in Seqs : <<h, e>> # <<cur, next[cur]>> => run'[h][e] = run[h][e]
      BY <1>0, <1>2 DEF Extend
    <3>2. run'[cur][next[cur]] = "booked" /\ result' = result
      BY <1>0, <1>2, <2>1 DEF Extend
    <3> QED BY <2>1, <2>2, <3>1, <3>2, MovesReturnNothing
  <2> QED BY <1>2, <2>1, <2>3 DEF Extend, Ledger!Accept, Ledger!Running, Running
<1>3. CASE Cancel
  <2>1. cur \in Gens
    BY <1>0, <1>3, Bounds DEF Cancel, Stoppable
  <2>2. Ledger!Stop(cur, "cancelled")
    BY <1>3, <1>r DEF Cancel, Stoppable, EndAs, Ledger!Stop, Ledger!Running, Running
  <2> QED BY <2>1, <2>2 DEF Ledger!Next, Ledger!Stopped
<1>4. CASE Promote
  <2>1. cur \in Gens
    BY <1>0, <1>4, Bounds DEF Promote, Stoppable
  <2>2. Ledger!Promote(cur)
    BY <1>4, <1>r DEF Promote, Stoppable, Ledger!Promote, Ledger!Running, Running
  <2> QED BY <2>1, <2>2 DEF Ledger!Next
<1>5. CASE AskOrAnswer \/ Tick
  BY <1>5, <1>r DEF AskOrAnswer, Tick, Ledger!vars
<1>6. ASSUME NEW g \in Gens, Resolve(g) PROVE Ledger!Tell(g)
  BY <1>6, <1>r DEF Resolve, Ended, Terminal, Ledger!Tell, Ledger!Stopped
<1>7. ASSUME NEW g \in Gens, CloseScope(g) PROVE UNCHANGED Ledger!vars
  <2>1. \A h \in Gens, e \in Seqs : run'[h][e] = "over" <=> run[h][e] = "over"
    BY <1>0, <1>7 DEF CloseScope, Interruptible
  <2>2. Returned' = Returned
    BY <1>7, <2>1, SameReturns DEF CloseScope
  <2> QED BY <1>7, <2>2 DEF CloseScope, Ledger!vars
<1>8. ASSUME NEW g \in Gens, WatchStep(g) PROVE [Ledger!Next]_(Ledger!vars)
  <2>1. CASE Expire(g) /\ Current(g)
    <3>1. cur = g /\ Running(g)
      BY <2>1 DEF Current
    <3>2. Ledger!Stop(g, "expired")
      BY <1>r, <2>1, <3>1 DEF Expire, EndAs, Ledger!Stop, Ledger!Running, Running
    <3> QED BY <3>2 DEF Ledger!Next, Ledger!Stopped
  <2>2. CASE ~(Expire(g) /\ Current(g))
    BY <1>8, <1>r, <2>2
       DEF WatchStep, WatchEnds, WatchSleeps, WatchDue, WatchWakes, WatchCredits, WatchFires,
           Expire, Ledger!vars
  <2> QED BY <2>1, <2>2
<1>9. ASSUME NEW g \in Gens, NEW s \in Seqs, RunStep(g, s) PROVE [Ledger!Next]_(Ledger!vars)
  <2>1. CASE Settle(g, s)
    BY <2>1, SettleIsReturn
  <2>2. CASE Fork(g, s) \/ Proceed(g, s)
    <3>1. \A h \in Gens, e \in Seqs : <<h, e>> # <<g, s>> => run'[h][e] = run[h][e]
      BY <1>0, <2>2 DEF Fork, Proceed
    <3>2. run[g][s] # "over" /\ run'[g][s] # "over" /\ result' = result
      BY <1>0, <2>2 DEF Fork, Proceed
    <3>3. Returned' = Returned
      BY <3>1, <3>2, MovesReturnNothing
    <3> QED BY <2>2, <3>3 DEF Fork, Proceed, Ledger!vars
  <2>3. CASE Unwound(g, s)
    <3>1. Returned' = Returned
      BY <2>3, <1>l DEF Unwound
    <3> QED BY <2>3, <3>1 DEF Unwound, Leave, Ledger!vars
  <2> QED BY <1>9, <2>1, <2>2, <2>3 DEF RunStep
<1>10. ASSUME NEW g \in Gens, NEW s \in Seqs, NEW r \in {"ok", "failed"}, BodyEnds(g, s, r)
       PROVE  UNCHANGED Ledger!vars
  <2>1. Returned' = Returned
    BY <1>10, <1>l DEF BodyEnds
  <2> QED BY <1>10, <2>1 DEF BodyEnds, Leave, Ledger!vars
<1>11. CASE UNCHANGED vars
  BY <1>11, <1>r DEF vars, Ledger!vars
<1> QED
  BY <1>1, <1>2, <1>3, <1>4, <1>5, <1>6, <1>7, <1>8, <1>9, <1>10, <1>11
     DEF Next, System, Caller, Ledger!Next

(* Whatever its runs, its watchdog and its callers do, the registry keeps    *)
(* the ledger of JobLedger.                                                  *)
THEOREM Implements == Spec => ImplementsLedger
<1>1. Init => Ledger!Init
  <2>1. Init => Returned = [g \in Gens |-> {}]
    BY DEF Init, Returned
  <2> QED BY <2>1 DEF Init, Ledger!Init
<1> QED BY <1>1, LedgerStep, Invariant, PTL DEF Spec, ImplementsLedger, Ledger!Spec
=============================================================================
