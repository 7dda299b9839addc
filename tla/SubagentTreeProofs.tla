------------------------- MODULE SubagentTreeProofs -------------------------
(* Proofs about SubagentTree for every tree of sub-agents, every set of     *)
(* stops, every bound and both settings of Preempt.                         *)
EXTENDS SubagentTree, TLAPS

(* A running job has been started: its id is a session, its generation one  *)
(* that clean-ups and aborts are named by.                                  *)
Started == \A k \in Kids : Running(k) => gen[k] # 0

Typed == TypeOK /\ Started

LEMMA WalkerShape ==
    ASSUME NEW w \in Walkers
    PROVE  /\ Target(w) \in Sessions
           /\ Kind(w) \in {"stop", "end", "clean", "abort"}
  BY TreeAssumption DEF Walkers, Target, Kind, Sessions

LEMMA OwnWalkers ==
    ASSUME NEW k \in Kids, NEW g \in Gens
    PROVE  /\ << "clean", k, g >> \in Walkers /\ << "abort", k, g >> \in Walkers
           /\ Target(<< "clean", k, g >>) = k /\ Target(<< "abort", k, g >>) = k
           /\ Kind(<< "clean", k, g >>) = "clean" /\ Kind(<< "abort", k, g >>) = "abort"
  BY DEF Walkers, Target, Kind

LEMMA CleanUpsAreWalkers ==
    ASSUME Typed, NEW S \in SUBSET Kids
    PROVE  CleanUps(S) \subseteq Walkers
<1> SUFFICES ASSUME NEW k \in S, run[k] = "first"
             PROVE  << "clean", k, gen[k] >> \in Walkers
  BY DEF CleanUps
<1>1. k \in Kids /\ gen[k] \in Gens
  BY TreeAssumption DEF Typed, TypeOK, Started, Running, Gens
<1> QED BY <1>1, OwnWalkers

LEMMA TypeInit == Init => Typed
  BY TreeAssumption DEF Init, Typed, TypeOK, Started, Running, Sessions

(* Every step keeps the tree well typed.                                    *)
LEMMA TypeStep == Typed /\ [Next]_vars => Typed'
<1> SUFFICES ASSUME Typed, [Next]_vars PROVE Typed'
  OBVIOUS
<1> USE TreeAssumption DEF Typed, TypeOK, Started, Running, jobVars, walkVars
<1>1. ASSUME NEW s \in Sessions, Prompt(s) PROVE Typed'
  BY <1>1 DEF Prompt
<1>2. ASSUME NEW k \in Kids, Extend(k) PROVE Typed'
  BY <1>2 DEF Extend
<1>3. ASSUME NEW k \in Kids, Promote(k) PROVE Typed'
  BY <1>3 DEF Promote
<1>4. ASSUME NEW k \in Kids, NEW det \in BOOLEAN, Start(k, det) PROVE Typed'
  BY <1>4 DEF Start, Sessions
<1>5. ASSUME NEW s \in Sessions, NEW ok \in BOOLEAN, BodyLeaves(s, ok)
      PROVE  /\ turn' \in [Sessions -> {"none", "own", "job", "extension"}]
             /\ run' \in [Kids -> {"off", "first", "extended"}]
             /\ queued' \in [Kids -> 0..MaxExt]
             /\ \A k \in Kids : run'[k] # "off" => run[k] # "off"
  BY <1>5 DEF BodyLeaves, Continues, Sessions
<1>6. ASSUME NEW s \in Sessions, NEW ok \in BOOLEAN, TurnEnds(s, ok) PROVE Typed'
  BY <1>5, <1>6 DEF TurnEnds
<1>7. ASSUME NEW w \in Walkers, StopTurn(w) PROVE Typed'
  BY <1>7 DEF StopTurn
<1>8. ASSUME NEW w \in Walkers, EndJob(w) PROVE Typed'
  <2> DEFINE S == {k \in Kids : k = Target(w) /\ Running(k)}
  <2>1. CleanUps(S) \subseteq Walkers
    BY CleanUpsAreWalkers
  <2> QED BY <1>8, <2>1 DEF EndJob, CancelJobs
<1>9. ASSUME NEW w \in Walkers, List(w) PROVE Typed'
  <2>1. {<< k, gen[k] >> : k \in {x \in Kids : Eligible(w, x)}} \subseteq Kids \X Gens
    BY DEF Eligible, Gens
  <2> QED BY <1>9, <2>1 DEF List
<1>10. ASSUME NEW w \in Walkers, Walk(w) PROVE Typed'
  <2> DEFINE S == {k \in Batch(w) : Running(k)}
  <2>1. S \subseteq Kids /\ Batch(w) \subseteq Kids
    BY DEF Batch
  <2>2. CleanUps(S) \subseteq Walkers
    BY <2>1, CleanUpsAreWalkers
  <2> QED BY <1>10, <2>1, <2>2 DEF Walk, CancelJobs
<1>11. ASSUME NEW w \in Walkers, NEW ok \in BOOLEAN, Finish(w, ok) PROVE Typed'
  <2>1. CASE Kind(w) = "end" \/ ~Busy(Target(w))
    BY <1>11, <2>1 DEF Finish
  <2>2. CASE ~(Kind(w) = "end" \/ ~Busy(Target(w)))
    <3>1. BodyLeaves(Target(w), ok) /\ Target(w) \in Sessions
      BY <1>11, <2>2, WalkerShape DEF Finish
    <3>2. phase' \in [Walkers -> {"off", "listing", "listed", "walking", "done"}]
      BY <1>11, <2>2 DEF Finish
    <3> QED BY <1>5, <1>11, <3>1, <3>2 DEF Finish
  <2> QED BY <2>1, <2>2
<1>12. CASE UNCHANGED vars
  BY <1>12 DEF vars
<1> QED
  BY <1>1, <1>2, <1>3, <1>4, <1>6, <1>7, <1>8, <1>9, <1>10, <1>11, <1>12 DEF Next

-----------------------------------------------------------------------------
(* A generation is cleaned up after once: when its first run is interrupted. *)
CleanedOnce ==
    \A k \in Kids, g \in Gens : phase[<< "clean", k, g >>] # "off" =>
        g < gen[k] \/ (g = gen[k] /\ run[k] # "first")

LEMMA CleanedInit == Init => CleanedOnce
  BY OwnWalkers DEF Init, CleanedOnce

LEMMA CleanedStep == Typed /\ CleanedOnce /\ [Next]_vars => CleanedOnce'
<1> SUFFICES ASSUME Typed, CleanedOnce, [Next]_vars, NEW k \in Kids, NEW g \in Gens
             PROVE  phase'[<< "clean", k, g >>] # "off" =>
                        g < gen'[k] \/ (g = gen'[k] /\ run'[k] # "first")
  BY DEF CleanedOnce
<1> DEFINE c == << "clean", k, g >>
           Goal == phase'[c] # "off" => g < gen'[k] \/ (g = gen'[k] /\ run'[k] # "first")
<1> SUFFICES Goal
  OBVIOUS
<1>0. c \in Walkers /\ Target(c) = k /\ Kind(c) = "clean" /\ g \in Int /\ gen[k] \in Int
  <2>1. c \in Walkers /\ Target(c) = k /\ Kind(c) = "clean"
    BY OwnWalkers
  <2>2. g \in Int /\ gen[k] \in Int
    BY TreeAssumption DEF Typed, TypeOK, Gens
  <2> QED BY <2>1, <2>2
<1>c. phase[c] # "off" => g < gen[k] \/ (g = gen[k] /\ run[k] # "first")
  BY DEF CleanedOnce
<1> HIDE DEF c
<1> USE DEF jobVars, walkVars, Typed, TypeOK
<1>1. ASSUME NEW s \in Sessions, Prompt(s) PROVE Goal
  BY <1>c, <1>1 DEF Prompt
<1>2. ASSUME NEW x \in Kids, Extend(x) PROVE Goal
  BY <1>c, <1>2 DEF Extend
<1>3. ASSUME NEW x \in Kids, Promote(x) PROVE Goal
  BY <1>c, <1>3 DEF Promote
<1>4. ASSUME NEW x \in Kids, NEW det \in BOOLEAN, Start(x, det) PROVE Goal
  BY <1>0, <1>c, <1>4 DEF Start
<1>5. ASSUME NEW s \in Sessions, NEW ok \in BOOLEAN, BodyLeaves(s, ok)
      PROVE  run[k] # "first" => run'[k] # "first"
  BY <1>5 DEF BodyLeaves
<1>6. ASSUME NEW s \in Sessions, NEW ok \in BOOLEAN, TurnEnds(s, ok) PROVE Goal
  BY <1>c, <1>5, <1>6 DEF TurnEnds
<1>7. ASSUME NEW w \in Walkers, StopTurn(w) PROVE Goal
  <2>1. w # c
    BY <1>0, <1>7 DEF StopTurn
  <2> QED BY <1>0, <1>c, <1>7, <2>1 DEF StopTurn
<1>8. ASSUME NEW S \in SUBSET Kids, CancelJobs(S), gen' = gen,
             phase'[c] # "off" => phase[c] # "off" \/ c \in CleanUps(S)
      PROVE  Goal
  <2>1. c \in CleanUps(S) => g = gen[k] /\ k \in S
    BY DEF CleanUps, c
  <2>2. run[k] # "first" => run'[k] # "first"
    BY <1>8 DEF CancelJobs
  <2>3. k \in S => run'[k] = "off"
    BY <1>8 DEF CancelJobs
  <2> QED BY <1>8, <1>c, <2>1, <2>2, <2>3
<1>9. ASSUME NEW w \in Walkers, EndJob(w) PROVE Goal
  <2> DEFINE S == {x \in Kids : x = Target(w) /\ Running(x)}
  <2>1. w # c
    BY <1>0, <1>9 DEF EndJob
  <2>2. CancelJobs(S) /\ gen' = gen
    BY <1>9 DEF EndJob
  <2>3. phase'[c] # "off" => phase[c] # "off" \/ c \in CleanUps(S)
    BY <1>0, <1>9, <2>1 DEF EndJob
  <2> QED BY <1>8, <2>2, <2>3
<1>10. ASSUME NEW w \in Walkers, List(w) PROVE Goal
  BY <1>c, <1>10 DEF List
<1>11. ASSUME NEW w \in Walkers, Walk(w) PROVE Goal
  <2> DEFINE S == {x \in Batch(w) : Running(x)}
  <2>1. CancelJobs(S) /\ gen' = gen /\ S \in SUBSET Kids
    BY <1>11 DEF Walk, Batch
  <2>2. phase[w] # "off"
    BY <1>11 DEF Walk, Proceeds
  <2>3. phase'[c] # "off" => phase[c] # "off" \/ c \in CleanUps(S)
    BY <1>0, <1>11, <2>2 DEF Walk
  <2> QED BY <1>8, <2>1, <2>3
<1>12. ASSUME NEW w \in Walkers, NEW ok \in BOOLEAN, Finish(w, ok) PROVE Goal
  <2>1. phase[w] # "off" /\ gen' = gen
    BY <1>12 DEF Finish, WalkOver, Proceeds
  <2>2. CASE Kind(w) = "end" \/ ~Busy(Target(w))
    <3>1. run' = run /\ phase' = [phase EXCEPT ![w] = "done"]
      BY <1>12, <2>2 DEF Finish
    <3>2. phase'[c] # "off" => phase[c] # "off"
      BY <1>0, <2>1, <3>1
    <3> QED BY <1>c, <2>1, <3>1, <3>2
  <2>3. CASE ~(Kind(w) = "end" \/ ~Busy(Target(w)))
    <3>1. run[k] # "first" => run'[k] # "first"
      BY <1>5, <1>12, <2>3, WalkerShape DEF Finish
    <3>2. c \notin Aborts(w)
      BY DEF Aborts, c
    <3>3. phase'[c] # "off" => phase[c] # "off"
      BY <1>0, <1>12, <2>1, <2>3, <3>2 DEF Finish
    <3> QED BY <1>c, <2>1, <3>1, <3>3
  <2> QED BY <2>2, <2>3
<1>13. CASE UNCHANGED vars
  BY <1>c, <1>13 DEF vars
<1> QED
  BY <1>1, <1>2, <1>3, <1>4, <1>6, <1>7, <1>9, <1>10, <1>11, <1>12, <1>13 DEF Next

(* A walker that has not listed yet has marked nothing.                     *)
Fresh == \A w \in Walkers : phase[w] \in {"off", "listing"} => gone[w] = {}

LEMMA FreshStep == Typed /\ CleanedOnce /\ Fresh /\ [Next]_vars => Fresh'
<1> SUFFICES ASSUME Typed, CleanedOnce, Fresh, [Next]_vars, NEW v \in Walkers
             PROVE  phase'[v] \in {"off", "listing"} => gone'[v] = {}
  BY DEF Fresh
<1> DEFINE Goal == phase'[v] \in {"off", "listing"} => gone'[v] = {}
<1> SUFFICES Goal
  OBVIOUS
<1>0. phase[v] \in {"off", "listing"} => gone[v] = {}
  BY DEF Fresh
<1>1. ASSUME NEW S \in SUBSET Kids, v \in CleanUps(S) PROVE phase[v] = "off"
  <2>1. PICK k \in Kids : v = << "clean", k, gen[k] >> /\ run[k] = "first"
    BY <1>1 DEF CleanUps
  <2>2. gen[k] \in Gens
    BY <2>1, TreeAssumption DEF Typed, TypeOK, Started, Running, Gens
  <2>3. ~(gen[k] < gen[k])
    BY <2>2, TreeAssumption DEF Gens
  <2> QED BY <2>1, <2>2, <2>3 DEF CleanedOnce
<1> USE <1>0 DEF jobVars, walkVars, Typed, TypeOK
<1>2. ASSUME NEW w \in Walkers, EndJob(w) PROVE Goal
  <2>1. v \in CleanUps({x \in Kids : x = Target(w) /\ Running(x)}) => phase[v] = "off"
    BY <1>1
  <2> QED BY <1>2, <2>1 DEF EndJob
<1>3. ASSUME NEW w \in Walkers, Walk(w) PROVE Goal
  <2>1. {x \in Batch(w) : Running(x)} \in SUBSET Kids
    BY DEF Batch
  <2>2. v \in CleanUps({x \in Batch(w) : Running(x)}) => phase[v] = "off"
    BY <1>1, <2>1
  <2>3. CASE v = w
    BY <1>3, <2>3 DEF Walk
  <2>4. CASE v # w
    BY <1>3, <2>2, <2>4 DEF Walk
  <2> QED BY <2>3, <2>4
<1>4. ASSUME NEW w \in Walkers, NEW ok \in BOOLEAN, Finish(w, ok) PROVE Goal
  <2>1. CASE v = w
    BY <1>4, <2>1 DEF Finish
  <2>2. CASE v # w
    <3>1. gone'[v] = gone[v] /\ (phase'[v] = phase[v] \/ phase[v] = "off")
      BY <1>4, <2>2 DEF Finish
    <3> QED BY <3>1
  <2> QED BY <2>1, <2>2
<1>5. CASE UNCHANGED walkVars
  BY <1>5
<1>6. ASSUME NEW w \in Walkers, StopTurn(w) \/ List(w) PROVE Goal
  BY <1>6 DEF StopTurn, List
<1> QED
  BY <1>2, <1>3, <1>4, <1>5, <1>6
     DEF Next, vars, Prompt, Extend, Promote, Start, TurnEnds

-----------------------------------------------------------------------------
(* What a walk has behind it: it lists only generations there have been, and *)
(* the jobs it marks cancelled are over for good, since an id comes back     *)
(* only as a later generation.                                               *)
ListedBefore ==
    \A w \in Walkers, k \in Kids, g \in Gens : << k, g >> \in listed[w] => g <= gen[k]

GoneIsOver ==
    \A w \in Walkers, k \in Kids, g \in Gens :
        k \in gone[w] /\ << k, g >> \in listed[w] => Over(k, g)

WalkInv == Typed /\ CleanedOnce /\ Fresh /\ ListedBefore /\ GoneIsOver

(* A job that is over stays over in a step that only starts later            *)
(* generations.                                                              *)
Restartless ==
    \A k \in Kids : /\ gen'[k] >= gen[k]
                    /\ run'[k] # "off" => run[k] # "off" \/ gen'[k] > gen[k]

LEMMA StepIsRestartless == Typed /\ [Next]_vars => Restartless
<1> SUFFICES ASSUME Typed, [Next]_vars PROVE Restartless
  OBVIOUS
<1> USE TreeAssumption DEF Restartless, Typed, TypeOK, jobVars, walkVars
<1>1. ASSUME NEW s \in Sessions, NEW ok \in BOOLEAN, BodyLeaves(s, ok), gen' = gen
      PROVE  Restartless
  BY <1>1 DEF BodyLeaves, Continues, Running
<1>2. ASSUME NEW w \in Walkers, NEW ok \in BOOLEAN, Finish(w, ok) PROVE Restartless
  <2>1. gen' = gen /\ (run' = run \/ BodyLeaves(Target(w), ok))
    BY <1>2 DEF Finish
  <2>2. CASE run' = run
    BY <2>1, <2>2
  <2> QED BY <1>1, <2>1, <2>2, WalkerShape
<1>3. ASSUME NEW w \in Walkers, EndJob(w) \/ Walk(w) PROVE Restartless
  BY <1>3 DEF EndJob, Walk, CancelJobs
<1>4. ASSUME NEW w \in Walkers, StopTurn(w) \/ List(w) PROVE Restartless
  BY <1>4 DEF StopTurn, List
<1>5. ASSUME NEW k \in Kids, NEW det \in BOOLEAN, Start(k, det) PROVE Restartless
  BY <1>5 DEF Start
<1>6. ASSUME NEW s \in Sessions, Prompt(s) PROVE Restartless
  BY <1>6 DEF Prompt
<1>7. ASSUME NEW k \in Kids, Extend(k) \/ Promote(k) PROVE Restartless
  BY <1>7 DEF Extend, Promote
<1>8. ASSUME NEW s \in Sessions, NEW ok \in BOOLEAN, TurnEnds(s, ok) PROVE Restartless
  BY <1>1, <1>8 DEF TurnEnds
<1>9. CASE UNCHANGED vars
  BY <1>9 DEF vars
<1> QED
  BY <1>2, <1>3, <1>4, <1>5, <1>6, <1>7, <1>8, <1>9 DEF Next

LEMMA WalkInvInit == Init => WalkInv
  BY TypeInit, CleanedInit DEF Init, WalkInv, Fresh, ListedBefore, GoneIsOver

(* Only List adds to a walker's list, which it finds with nothing marked;    *)
(* only Walk marks, and what it marks it has cancelled.                      *)
LEMMA WalkInvStep == WalkInv /\ [Next]_vars => WalkInv'
<1> SUFFICES ASSUME WalkInv, [Next]_vars PROVE WalkInv'
  OBVIOUS
<1>0. Typed /\ Typed' /\ CleanedOnce' /\ Fresh'
  BY TypeStep, CleanedStep, FreshStep DEF WalkInv
<1>1. Restartless
  BY <1>0, StepIsRestartless
<1>2. ASSUME NEW w \in Walkers, NEW k \in Kids, NEW g \in Gens,
             << k, g >> \in listed[w]
      PROVE  g <= gen'[k]
  <2>1. g <= gen[k] /\ gen[k] <= gen'[k]
    BY <1>1, <1>2 DEF WalkInv, ListedBefore, Restartless
  <2> QED BY <1>0, <2>1, TreeAssumption DEF Typed, TypeOK, Gens
<1>3. ASSUME NEW w \in Walkers, NEW k \in Kids, NEW g \in Gens,
             << k, g >> \in listed[w], Over(k, g)
      PROVE  Over(k, g)'
  <2>1. g <= gen[k]
    BY <1>3 DEF WalkInv, ListedBefore
  <2> QED BY <1>0, <1>1, <1>3, <2>1, TreeAssumption
          DEF Over, Running, Restartless, Typed, TypeOK, Gens
<1>4. ASSUME \A w \in Walkers : listed'[w] \subseteq listed[w] /\ gone'[w] \subseteq gone[w]
      PROVE  WalkInv'
  <2>1. ListedBefore'
    BY <1>2, <1>4 DEF ListedBefore
  <2>2. GoneIsOver'
    BY <1>3, <1>4 DEF GoneIsOver, WalkInv
  <2> QED BY <1>0, <2>1, <2>2 DEF WalkInv
<1>5. ASSUME NEW w \in Walkers, List(w) PROVE WalkInv'
  <2>1. \A v \in Walkers : v # w => listed'[v] = listed[v]
    BY <1>0, <1>5 DEF List, Typed, TypeOK
  <2>2. listed'[w] = {<< k, gen[k] >> : k \in {x \in Kids : Eligible(w, x)}}
    BY <1>0, <1>5 DEF List, Typed, TypeOK
  <2>3. gen' = gen /\ gone' = gone /\ gone[w] = {}
    BY <1>5 DEF List, WalkInv, Fresh, jobVars
  <2>4. \A k \in Kids, g \in Gens : << k, g >> \in listed'[w] => g <= gen'[k]
    BY <1>0, <2>2, <2>3, TreeAssumption DEF Typed, TypeOK
  <2>5. ListedBefore'
    BY <1>2, <2>1, <2>4 DEF ListedBefore
  <2>6. GoneIsOver'
    BY <1>3, <2>1, <2>3 DEF GoneIsOver, WalkInv
  <2> QED BY <1>0, <2>5, <2>6 DEF WalkInv
<1>6. ASSUME NEW w \in Walkers, Walk(w) PROVE WalkInv'
  <2>1. listed' = listed
    BY <1>6 DEF Walk
  <2>2. \A v \in Walkers : v # w => gone'[v] = gone[v]
    BY <1>0, <1>6 DEF Walk, Typed, TypeOK
  <2>3. gone'[w] = gone[w] \cup Batch(w)
    BY <1>0, <1>6 DEF Walk, Typed, TypeOK
  <2>4. \A k \in Batch(w), g \in Gens : Over(k, g)'
    BY <1>0, <1>6 DEF Walk, CancelJobs, Batch, Over, Running, Typed, TypeOK
  <2>5. ListedBefore'
    BY <1>2, <2>1 DEF ListedBefore
  <2>6. GoneIsOver'
    BY <1>3, <2>1, <2>2, <2>3, <2>4 DEF GoneIsOver, WalkInv
  <2> QED BY <1>0, <2>5, <2>6 DEF WalkInv
<1>7. ASSUME NEW w \in Walkers, NEW ok \in BOOLEAN, Finish(w, ok) PROVE WalkInv'
  BY <1>0, <1>4, <1>7 DEF Finish, Typed, TypeOK
<1>8. ASSUME NEW w \in Walkers, EndJob(w) \/ StopTurn(w) PROVE WalkInv'
  BY <1>4, <1>8 DEF EndJob, StopTurn
<1>9. CASE UNCHANGED walkVars
  BY <1>4, <1>9 DEF walkVars
<1> QED
  BY <1>5, <1>6, <1>7, <1>8, <1>9 DEF Next, vars, Prompt, Extend, Promote, Start, TurnEnds

(* A walk that is over has marked all it reaches: what it marked is closed   *)
(* under its list.                                                           *)
LEMMA WalkReaches == WalkInv => WalkReachesAll
<1> SUFFICES ASSUME WalkInv, NEW w \in Walkers, WalkOver(w),
                    NEW k \in Under(w), NEW g \in Gens, << k, g >> \in listed[w]
             PROVE  Over(k, g)
  BY DEF WalkReachesAll
<1>1. Reached(w, gone[w])
  BY DEF WalkOver, Batch, Matches, Pending, Reached
<1>2. gone[w] \in SUBSET Kids
  BY DEF WalkInv, Typed, TypeOK
<1>3. k \in gone[w] /\ k \in Kids
  BY <1>1, <1>2 DEF Under
<1> QED BY <1>3 DEF WalkInv, GoneIsOver

-----------------------------------------------------------------------------
(* The abort listener of a foreground call fires once, for the generation it *)
(* was made for.  Until its walk has cancelled the job that walk still has   *)
(* it to list, or listed and unmarked.                                       *)
Abort(k) == << "abort", k, gen[k] >>

FiredBefore ==
    \A k \in Kids, g \in Gens : phase[<< "abort", k, g >>] # "off" => g <= gen[k]

StillToCancel(k) ==
    \/ phase[Abort(k)] \in {"off", "listing"}
    \/ /\ phase[Abort(k)] \in {"listed", "walking"}
       /\ << k, gen[k] >> \in listed[Abort(k)] /\ k \notin gone[Abort(k)]

Held ==
    \A k \in Kids :
        /\ Running(k) => StillToCancel(k)
        /\ Waiting(k) => Busy(Parent[k]) \/ phase[Abort(k)] # "off"

CallInv == Typed /\ CleanedOnce /\ Fresh /\ FiredBefore /\ Held

LEMMA AbortIsWalker ==
    ASSUME Typed, NEW k \in Kids, Running(k)
    PROVE  /\ gen[k] \in Gens /\ Abort(k) \in Walkers
           /\ Target(Abort(k)) = k /\ Kind(Abort(k)) = "abort"
<1>1. gen[k] \in Gens
  BY TreeAssumption DEF Typed, TypeOK, Started, Gens
<1> QED BY <1>1, OwnWalkers DEF Abort

LEMMA CallInvInit == Init => CallInv
<1> SUFFICES ASSUME Init PROVE CallInv
  OBVIOUS
<1>1. Typed /\ CleanedOnce
  BY TypeInit, CleanedInit
<1>2. Fresh /\ FiredBefore
  BY OwnWalkers DEF Init, Fresh, FiredBefore
<1>3. Held
  BY DEF Init, Held, Running, Waiting
<1> QED BY <1>1, <1>2, <1>3 DEF CallInv

LEMMA FiredStep == Typed /\ FiredBefore /\ [Next]_vars => FiredBefore'
<1> SUFFICES ASSUME Typed, FiredBefore, [Next]_vars, NEW k \in Kids, NEW g \in Gens
             PROVE  phase'[<< "abort", k, g >>] # "off" => g <= gen'[k]
  BY DEF FiredBefore
<1> DEFINE a == << "abort", k, g >>
           Goal == phase'[a] # "off" => g <= gen'[k]
<1> SUFFICES Goal
  OBVIOUS
<1>1. a \in Walkers /\ Kind(a) = "abort"
  BY OwnWalkers
<1>2. g \in Int /\ gen[k] \in Int /\ gen'[k] \in Int /\ gen[k] <= gen'[k]
  BY TypeStep, StepIsRestartless, TreeAssumption DEF Typed, TypeOK, Gens, Restartless
<1>3. ASSUME phase'[a] # "off" => phase[a] # "off" PROVE Goal
  BY <1>2, <1>3 DEF FiredBefore
<1>4. \A S : a \notin CleanUps(S)
  BY DEF CleanUps
<1>5. a \in {<< "abort", x, gen[x] >> : x \in Kids} => g = gen[k]
  OBVIOUS
<1> HIDE DEF a
<1> USE DEF jobVars, walkVars, Typed, TypeOK
<1>6. ASSUME NEW w \in Walkers, StopTurn(w) PROVE Goal
  <2>1. w # a
    BY <1>1, <1>6 DEF StopTurn
  <2> QED BY <1>1, <1>3, <1>6, <2>1 DEF StopTurn
<1>7. ASSUME NEW w \in Walkers, EndJob(w) PROVE Goal
  <2>1. w # a
    BY <1>1, <1>7 DEF EndJob
  <2>2. phase'[a] = phase[a]
    BY <1>1, <1>4, <1>7, <2>1 DEF EndJob
  <2> QED BY <1>3, <2>2
<1>8. ASSUME NEW w \in Walkers, List(w) PROVE Goal
  BY <1>1, <1>3, <1>8 DEF List
<1>9. ASSUME NEW w \in Walkers, Walk(w) PROVE Goal
  <2>1. phase[w] # "off"
    BY <1>9 DEF Walk, Proceeds
  <2>2. phase'[a] # "off" => phase[a] # "off"
    BY <1>1, <1>4, <1>9, <2>1 DEF Walk
  <2> QED BY <1>3, <2>2
<1>10. ASSUME NEW w \in Walkers, NEW ok \in BOOLEAN, Finish(w, ok) PROVE Goal
  <2>1. phase[w] # "off" /\ gen' = gen
    BY <1>10 DEF Finish, WalkOver, Proceeds
  <2>2. phase'[a] # "off" => phase[a] # "off" \/ a \in Aborts(w)
    BY <1>1, <1>10, <2>1 DEF Finish
  <2>3. a \in Aborts(w) => g = gen[k]
    BY <1>5 DEF Aborts
  <2> QED BY <1>2, <1>3, <2>1, <2>2, <2>3
<1>11. CASE UNCHANGED phase
  BY <1>3, <1>11
<1> QED
  BY <1>6, <1>7, <1>8, <1>9, <1>10, <1>11
     DEF Next, vars, Prompt, Extend, Promote, Start, TurnEnds

LEMMA HeldStep == CallInv /\ [Next]_vars => Held'
<1> SUFFICES ASSUME CallInv, [Next]_vars, NEW k \in Kids, Running(k)'
             PROVE  /\ StillToCancel(k)'
                    /\ ~detached'[k] => Busy(Parent[k])' \/ phase'[Abort(k)'] # "off"
  BY DEF Held, Waiting, Running
<1> DEFINE a == Abort(k)
           Calm == ~detached'[k] => Busy(Parent[k])' \/ phase'[Abort(k)'] # "off"
           Goal == StillToCancel(k)' /\ Calm
<1> SUFFICES Goal
  OBVIOUS
<1>0. Typed /\ Typed' /\ Parent[k] \in Sessions
  BY TypeStep, TreeAssumption DEF CallInv
(* The job was not started in this step.                                     *)
<1>1. ASSUME Running(k), gen'[k] = gen[k]
      PROVE  /\ a \in Walkers /\ Target(a) = k /\ Kind(a) = "abort" /\ Abort(k)' = a
             /\ StillToCancel(k) /\ (~detached[k] => Busy(Parent[k]) \/ phase[a] # "off")
  BY <1>0, <1>1, AbortIsWalker DEF CallInv, Held, Waiting, Abort
(* Nor did the step touch the abort of the call, or the turn that made it.   *)
<1>2. ASSUME Running(k), gen'[k] = gen[k], detached[k] => detached'[k],
             phase'[a] = phase[a], listed'[a] = listed[a], gone'[a] = gone[a],
             Busy(Parent[k]) => Busy(Parent[k])'
      PROVE  Goal
  BY <1>1, <1>2 DEF StillToCancel, Abort
<1>a. a = Abort(k)
  OBVIOUS
<1> HIDE DEF a
<1> USE DEF jobVars, walkVars, Typed, TypeOK
<1>3. ASSUME NEW s \in Sessions, Prompt(s) PROVE Goal
  BY <1>0, <1>2, <1>3 DEF Prompt, Running, Busy
<1>4. ASSUME NEW x \in Kids, Extend(x) PROVE Goal
  BY <1>0, <1>2, <1>4 DEF Extend, Running, Busy
<1>5. ASSUME NEW x \in Kids, Promote(x) PROVE Goal
  <2>1. detached[k] => detached'[k]
    BY <1>0, <1>5 DEF Promote
  <2> QED BY <1>0, <1>2, <1>5, <2>1 DEF Promote, Running, Busy
<1>6. ASSUME NEW x \in Kids, NEW det \in BOOLEAN, Start(x, det) PROVE Goal
  <2>1. Busy(Parent[k]) => Busy(Parent[k])'
    BY <1>0, <1>6 DEF Start, Busy, Sessions
  <2>2. CASE x = k
    <3>1. gen'[k] = gen[k] + 1 /\ gen[k] \in Int /\ phase' = phase
      BY <1>0, <1>6, <2>2, TreeAssumption DEF Start
    <3>2. Abort(k)' = << "abort", k, gen[k] + 1 >> /\ gen[k] + 1 \in Gens
      BY <1>0, <1>6, <2>2, <3>1, TreeAssumption DEF Abort, Start, Gens
    <3>3. ~(gen[k] + 1 <= gen[k])
      BY <3>1
    <3>4. phase'[Abort(k)'] = "off"
      BY <3>1, <3>2, <3>3 DEF CallInv, FiredBefore
    <3>5. Busy(Parent[k])'
      BY <1>6, <2>1, <2>2 DEF Start
    <3> QED BY <3>4, <3>5 DEF StillToCancel
  <2>3. CASE x # k
    <3>1. Running(k) /\ gen'[k] = gen[k] /\ detached'[k] = detached[k]
      BY <1>0, <1>6, <2>3 DEF Start, Running
    <3> QED BY <1>2, <1>6, <2>1, <3>1 DEF Start
  <2> QED BY <2>2, <2>3
<1>7. ASSUME NEW s \in Sessions, NEW ok \in BOOLEAN, BodyLeaves(s, ok)
      PROVE  /\ Running(k)
             /\ Parent[k] # s => (Busy(Parent[k]) => Busy(Parent[k])')
  BY <1>0, <1>7 DEF BodyLeaves, Continues, Running, Busy
<1>8. ASSUME NEW s \in Sessions, NEW ok \in BOOLEAN, TurnEnds(s, ok) PROVE Goal
  <2>1. Running(k) /\ gen' = gen /\ detached' = detached
    BY <1>7, <1>8 DEF TurnEnds
  <2>2. CASE Parent[k] # s
    BY <1>2, <1>7, <1>8, <2>1, <2>2 DEF TurnEnds
  <2>3. CASE Parent[k] = s
    <3>1. detached'[k]
      BY <1>8, <2>1, <2>3 DEF TurnEnds, Waiting
    <3> QED BY <1>1, <1>a, <1>8, <2>1, <3>1 DEF TurnEnds, StillToCancel
  <2> QED BY <2>2, <2>3
<1>9. \A S : a \notin CleanUps(S)
  BY DEF CleanUps, a, Abort
<1>10. ASSUME NEW w \in Walkers, StopTurn(w) \/ EndJob(w) PROVE Goal
  <2>1. Running(k) /\ gen' = gen /\ detached' = detached /\ turn' = turn
    BY <1>0, <1>10 DEF StopTurn, EndJob, CancelJobs, Running
  <2>2. a \in Walkers /\ w # a
    BY <1>1, <1>10, <2>1 DEF StopTurn, EndJob
  <2>3. phase'[a] = phase[a] /\ listed' = listed /\ gone' = gone
    BY <1>0, <1>9, <1>10, <2>2 DEF StopTurn, EndJob
  <2> QED BY <1>2, <2>1, <2>3 DEF Busy
<1>11. ASSUME NEW w \in Walkers, List(w) PROVE Goal
  <2>1. Running(k) /\ gen' = gen /\ detached' = detached /\ turn' = turn /\ gone' = gone
    BY <1>11 DEF List, Running
  <2>2. a \in Walkers /\ Target(a) = k /\ Kind(a) = "abort"
    BY <1>1, <2>1
  <2>3. CASE w # a
    BY <1>0, <1>2, <1>11, <2>1, <2>2, <2>3 DEF List, Busy
  <2>4. CASE w = a
    <3>1. phase'[a] = "listed" /\ gone[a] = {}
      BY <1>0, <1>11, <2>2, <2>4 DEF List, CallInv, Fresh
    <3>2. Eligible(a, k)
      BY <2>1, <2>2 DEF Eligible, IncludesRoot, SparesDetached
    <3>3. << k, gen[k] >> \in listed'[a]
      BY <1>0, <1>11, <2>2, <2>4, <3>2 DEF List
    <3> QED BY <1>1, <2>1, <3>1, <3>3 DEF StillToCancel
  <2> QED BY <2>3, <2>4
<1>12. ASSUME NEW w \in Walkers, Walk(w) PROVE Goal
  <2>1. Running(k) /\ gen' = gen /\ detached' = detached /\ turn' = turn /\ listed' = listed
    BY <1>0, <1>12 DEF Walk, CancelJobs, Running
  <2>2. a \in Walkers /\ Target(a) = k
    BY <1>1, <2>1
  <2>3. CASE w # a
    <3>1. phase'[a] = phase[a] /\ gone'[a] = gone[a]
      BY <1>0, <1>9, <1>12, <2>2, <2>3 DEF Walk
    <3> QED BY <1>2, <2>1, <3>1 DEF Busy
  <2>4. CASE w = a
    <3>1. phase[a] \in {"listed", "walking"}
      BY <1>12, <2>4 DEF Walk, Proceeds
    <3>2. << k, gen[k] >> \in listed[a] /\ k \notin gone[a] /\ gen[k] \in Gens
      BY <1>0, <1>1, <2>1, <3>1, AbortIsWalker DEF StillToCancel, a
    <3>3. k \in Batch(a)
      BY <2>2, <3>2 DEF Batch, Matches, Pending
    <3>4. run'[k] = "off"
      BY <1>12, <2>1, <2>4, <3>3 DEF Walk, CancelJobs
    <3> QED BY <3>4 DEF Running
  <2> QED BY <2>3, <2>4
<1>13. ASSUME NEW w \in Walkers, NEW ok \in BOOLEAN, Finish(w, ok) PROVE Goal
  <2>1. gen' = gen /\ detached' = detached /\ Target(w) \in Sessions
    BY <1>13, WalkerShape DEF Finish
  <2>2. Running(k)
    <3>1. CASE run' = run
      BY <3>1 DEF Running
    <3>2. CASE BodyLeaves(Target(w), ok)
      BY <1>7, <2>1, <3>2
    <3> QED BY <1>13, <3>1, <3>2 DEF Finish
  <2>3. a \in Walkers /\ Target(a) = k /\ Kind(a) = "abort"
    BY <1>1, <2>1, <2>2
  <2>4. w # a
    <3> SUFFICES ASSUME w = a PROVE FALSE
      OBVIOUS
    <3>1. phase[a] \in {"listed", "walking"} /\ Batch(a) = {}
      BY <1>13 DEF Finish, WalkOver, Proceeds
    <3>2. << k, gen[k] >> \in listed[a] /\ k \notin gone[a] /\ gen[k] \in Gens
      BY <1>0, <1>1, <2>1, <2>2, <3>1, AbortIsWalker DEF StillToCancel, a
    <3>3. k \in Batch(a)
      BY <2>3, <3>2 DEF Batch, Matches, Pending
    <3> QED BY <3>1, <3>3
  <2>5. listed'[a] = listed[a] /\ gone'[a] = gone[a]
    BY <1>0, <1>13, <2>3, <2>4 DEF Finish
  <2>6. CASE Kind(w) = "end" \/ ~Busy(Target(w))
    <3>1. turn' = turn /\ phase'[a] = phase[a]
      BY <1>0, <1>13, <2>3, <2>4, <2>6 DEF Finish
    <3> QED BY <1>2, <2>1, <2>2, <2>5, <3>1 DEF Busy
  <2>7. CASE ~(Kind(w) = "end" \/ ~Busy(Target(w)))
    <3>1. BodyLeaves(Target(w), ok)
      BY <1>13, <2>7 DEF Finish
    <3>2. phase'[a] = IF a \in Aborts(w) /\ phase[a] = "off" THEN "listing" ELSE phase[a]
      BY <1>13, <2>3, <2>4, <2>7 DEF Finish
    <3>3. StillToCancel(k)'
      BY <1>1, <1>a, <2>1, <2>2, <2>5, <3>2 DEF StillToCancel
    <3>4. CASE Parent[k] # Target(w)
      BY <1>1, <1>7, <2>1, <2>2, <3>1, <3>2, <3>3, <3>4
    <3>5. CASE Parent[k] = Target(w)
      <4>1. ~detached[k] => a \in Aborts(w)
        BY <2>2, <3>5 DEF Aborts, Waiting, a, Abort
      <4> QED BY <1>1, <2>1, <2>2, <3>2, <3>3, <4>1
    <3> QED BY <3>4, <3>5
  <2> QED BY <2>6, <2>7
<1>14. CASE UNCHANGED vars
  BY <1>2, <1>14 DEF vars, Running, Busy
<1> QED
  BY <1>3, <1>4, <1>5, <1>6, <1>8, <1>10, <1>11, <1>12, <1>13, <1>14 DEF Next

LEMMA CallInvStep == CallInv /\ [Next]_vars => CallInv'
  BY TypeStep, CleanedStep, FreshStep, FiredStep, HeldStep DEF CallInv

LEMMA HeldMeansNoOrphan == CallInv => NoForegroundOrphan
<1> SUFFICES ASSUME CallInv, \A w \in Walkers : ~Walking(w), NEW k \in Kids, Waiting(k)
             PROVE  Busy(Parent[k])
  BY DEF NoForegroundOrphan
<1>1. Abort(k) \in Walkers /\ Running(k)
  BY AbortIsWalker DEF CallInv, Waiting
<1>2. phase[Abort(k)] = "off"
  BY <1>1 DEF CallInv, Held, StillToCancel, Walking
<1> QED BY <1>2 DEF CallInv, Held

-----------------------------------------------------------------------------
(* Only an extension's body waits for the turn of an extension, so whoever   *)
(* cancels a job whose first run has a turn finds it in its first run, and   *)
(* leaves a clean-up that stops the turn.                                    *)
OwnTurns == \A k \in Kids : run[k] = "extended" => turn[k] = "extension"

JobInv == Typed /\ OwnTurns /\ JobTurnsEndWithJobs

LEMMA JobInvInit == Init => JobInv
  BY TypeInit DEF Init, JobInv, OwnTurns, JobTurnsEndWithJobs, Sessions

LEMMA JobInvStep == JobInv /\ [Next]_vars => JobInv'
<1> SUFFICES ASSUME JobInv, [Next]_vars, NEW k \in Kids
             PROVE  /\ run'[k] = "extended" => turn'[k] = "extension"
                    /\ turn'[k] = "job" => Running(k)' \/ CleaningUp(k)'
  BY TypeStep DEF JobInv, OwnTurns, JobTurnsEndWithJobs
<1> DEFINE Goal == /\ run'[k] = "extended" => turn'[k] = "extension"
                   /\ turn'[k] = "job" => Running(k)' \/ CleaningUp(k)'
<1> SUFFICES Goal
  OBVIOUS
<1>0. Typed /\ k \in Sessions
  BY DEF JobInv, Sessions
<1>1. /\ run[k] = "extended" => turn[k] = "extension"
      /\ turn[k] = "job" => Running(k) \/ CleaningUp(k)
  BY DEF JobInv, OwnTurns, JobTurnsEndWithJobs
<1>2. ASSUME run'[k] = run[k], turn'[k] = turn[k], CleaningUp(k) => CleaningUp(k)'
      PROVE  Goal
  BY <1>1, <1>2 DEF Running
<1> USE DEF jobVars, walkVars, Typed, TypeOK
<1>3. ASSUME UNCHANGED phase PROVE CleaningUp(k) => CleaningUp(k)'
  BY <1>3 DEF CleaningUp, Walking
<1>4. ASSUME NEW s \in Sessions, Prompt(s) PROVE Goal
  BY <1>0, <1>1, <1>3, <1>4 DEF Prompt, Busy, Running
<1>5. ASSUME NEW x \in Kids, Extend(x) \/ Promote(x) PROVE Goal
  BY <1>2, <1>3, <1>5 DEF Extend, Promote
<1>6. ASSUME NEW x \in Kids, NEW det \in BOOLEAN, Start(x, det) PROVE Goal
  <2>1. CASE x = k
    BY <1>0, <1>6, <2>1 DEF Start, Running
  <2>2. CASE x # k
    BY <1>0, <1>2, <1>3, <1>6, <2>2 DEF Start, Sessions
  <2> QED BY <2>1, <2>2
<1>7. ASSUME NEW s \in Sessions, NEW ok \in BOOLEAN, BodyLeaves(s, ok)
      PROVE  /\ s = k => Goal
             /\ s # k => run'[k] = run[k] /\ turn'[k] = turn[k]
  BY <1>0, <1>7 DEF BodyLeaves
<1>8. ASSUME NEW s \in Sessions, NEW ok \in BOOLEAN, TurnEnds(s, ok) PROVE Goal
  BY <1>2, <1>3, <1>7, <1>8 DEF TurnEnds
<1>9. ASSUME NEW w \in Walkers, StopTurn(w) \/ List(w) PROVE Goal
  <2>1. CleaningUp(k) => CleaningUp(k)'
    BY <1>0, <1>9, OwnWalkers DEF StopTurn, List, CleaningUp, Walking
  <2> QED BY <1>2, <1>9, <2>1 DEF StopTurn, List
(* The job is cancelled, or not, with a set of jobs.                         *)
<1>10. ASSUME NEW S \in SUBSET Kids, CancelJobs(S), turn' = turn,
              \A x \in S : Running(x),
              \A v \in Walkers : Walking(v) \/ v \in CleanUps(S) => Walking(v)'
       PROVE  Goal
  <2>1. CleaningUp(k) => CleaningUp(k)'
    BY <1>10, OwnWalkers DEF CleaningUp
  <2>2. CASE k \notin S
    <3>1. run'[k] = run[k]
      BY <1>10, <2>2 DEF CancelJobs
    <3> QED BY <1>2, <1>10, <2>1, <3>1
  <2>3. CASE k \in S /\ run[k] = "first"
    <3>1. << "clean", k, gen[k] >> \in CleanUps(S)
      BY <2>3 DEF CleanUps
    <3>2. gen[k] \in Gens
      BY <1>0, <2>3, TreeAssumption DEF Started, Running, Gens
    <3>3. CleaningUp(k)'
      BY <1>10, <3>1, <3>2, OwnWalkers DEF CleaningUp
    <3>4. run'[k] = "off"
      BY <1>10, <2>3 DEF CancelJobs
    <3> QED BY <3>3, <3>4
  <2>4. CASE k \in S /\ run[k] # "first"
    <3>1. run[k] = "extended"
      BY <1>0, <1>10, <2>4 DEF Running
    <3>2. turn'[k] = "extension"
      BY <1>1, <1>10, <3>1
    <3> QED BY <3>2
  <2> QED BY <2>2, <2>3, <2>4
<1>11. ASSUME NEW w \in Walkers, EndJob(w) PROVE Goal
  <2> DEFINE S == {x \in Kids : x = Target(w) /\ Running(x)}
  <2>1. CancelJobs(S) /\ turn' = turn
    BY <1>11 DEF EndJob
  <2>2. \A v \in Walkers : Walking(v) \/ v \in CleanUps(S) => Walking(v)'
    BY <1>11 DEF EndJob, Walking
  <2> QED BY <1>10, <2>1, <2>2
<1>12. ASSUME NEW w \in Walkers, Walk(w) PROVE Goal
  <2> DEFINE S == {x \in Batch(w) : Running(x)}
  <2>1. CancelJobs(S) /\ turn' = turn /\ S \in SUBSET Kids
    BY <1>12 DEF Walk, Batch
  <2>2. \A v \in Walkers : Walking(v) \/ v \in CleanUps(S) => Walking(v)'
    BY <1>12 DEF Walk, Walking
  <2> QED BY <1>10, <2>1, <2>2
<1>13. ASSUME NEW w \in Walkers, NEW ok \in BOOLEAN, Finish(w, ok) PROVE Goal
  <2>1. Target(w) \in Sessions
    BY WalkerShape
  <2>2. ASSUME NEW g \in Gens, << "clean", k, g >> # w
        PROVE  Walking(<< "clean", k, g >>) => Walking(<< "clean", k, g >>)'
    <3> DEFINE c == << "clean", k, g >>
    <3>1. c \in Walkers
      BY OwnWalkers
    <3> HIDE DEF c
    <3>2. phase'[c] = phase[c] \/ phase'[c] = "listing"
      BY <1>0, <1>13, <2>2, <3>1 DEF Finish, c
    <3> QED BY <3>2 DEF Walking, c
  <2>3. CASE Kind(w) = "end" \/ ~Busy(Target(w))
    <3>1. run' = run /\ turn' = turn
      BY <1>13, <2>3 DEF Finish
    <3>2. CASE \A g \in Gens : << "clean", k, g >> # w
      <4>1. CleaningUp(k) => CleaningUp(k)'
        BY <2>2, <3>2 DEF CleaningUp
      <4> QED BY <1>2, <3>1, <4>1
    <3>3. ASSUME NEW g \in Gens, << "clean", k, g >> = w PROVE Goal
      <4>1. turn[k] = "none"
        BY <2>3, <3>3, OwnWalkers DEF Busy
      <4> QED BY <1>1, <3>1, <4>1
    <3> QED BY <3>2, <3>3
  <2>4. CASE ~(Kind(w) = "end" \/ ~Busy(Target(w)))
    <3>1. BodyLeaves(Target(w), ok)
      BY <1>13, <2>4 DEF Finish
    <3>2. CASE Target(w) = k
      BY <1>7, <2>1, <3>1, <3>2
    <3>3. CASE Target(w) # k
      <4>1. \A g \in Gens : << "clean", k, g >> # w
        BY <3>3, OwnWalkers
      <4>2. CleaningUp(k) => CleaningUp(k)'
        BY <2>2, <4>1 DEF CleaningUp
      <4> QED BY <1>2, <1>7, <2>1, <3>1, <3>3, <4>2
    <3> QED BY <3>2, <3>3
  <2> QED BY <2>3, <2>4
<1>14. CASE UNCHANGED vars
  BY <1>2, <1>3, <1>14 DEF vars
<1> QED
  BY <1>4, <1>5, <1>6, <1>8, <1>9, <1>11, <1>12, <1>13, <1>14 DEF Next

-----------------------------------------------------------------------------
(* Who waits for whom.  A walk waits for the clean-ups its own cancels set   *)
(* off, and a job is cleaned up after once, so a walk only ever waits for    *)
(* walks that set out after it: the waits never close into a circle.         *)

\* A walk that is over or has not begun waits for nobody, and nobody waits for
\* one that has not begun.
Awaited ==
    \A w \in Walkers :
        /\ ~Walking(w) => waits[w] = {}
        /\ \A v \in waits[w] : phase[v] # "off"

\* Of any walks under way one waits for none of the others.
NoCircularWait ==
    \A S \in SUBSET Walkers :
        S # {} /\ (\A w \in S : Walking(w)) => \E w \in S : waits[w] \cap S = {}

WaitInv == Typed /\ CleanedOnce /\ Awaited /\ NoCircularWait

LEMMA WaitInvInit == Init => WaitInv
<1> SUFFICES ASSUME Init PROVE WaitInv
  OBVIOUS
<1>1. Awaited /\ NoCircularWait
  BY DEF Init, Awaited, NoCircularWait, Walking
<1> QED BY <1>1, TypeInit, CleanedInit DEF WaitInv

(* Whoever begins without waiting for anybody closes no circle.              *)
LEMMA BeginsAlone ==
    ASSUME Awaited, NoCircularWait, waits' = waits,
           \A v \in Walkers : phase[v] # "off" => phase'[v] # "off",
           \A v \in Walkers : Walking(v) => Walking(v)',
           \A v \in Walkers : Walking(v)' => Walking(v) \/ waits[v] = {},
           waits \in [Walkers -> SUBSET Walkers]
    PROVE  Awaited' /\ NoCircularWait'
<1>1. Awaited'
  BY DEF Awaited
<1>2. ASSUME NEW S \in SUBSET Walkers, S # {}, \A w \in S : Walking(w)'
      PROVE  \E w \in S : waits'[w] \cap S = {}
  <2>1. CASE \E v \in S : ~Walking(v)
    BY <1>2, <2>1
  <2>2. CASE \A v \in S : Walking(v)
    BY <1>2, <2>2 DEF NoCircularWait
  <2> QED BY <2>1, <2>2
<1> QED BY <1>1, <1>2 DEF NoCircularWait

(* A walk that turns to waiting for clean-ups that begin with this step, or  *)
(* for nobody, closes no circle.                                             *)
LEMMA WaitsForBeginners ==
    ASSUME Awaited, NoCircularWait, NEW w \in Walkers, NEW B \in SUBSET Walkers,
           waits' = [waits EXCEPT ![w] = B], Walking(w)' \/ B = {}, w \notin B,
           \A v \in B : phase[v] = "off" /\ phase'[v] # "off",
           \A v \in Walkers : phase[v] # "off" => phase'[v] # "off",
           \A v \in Walkers \ {w} : Walking(v) => Walking(v)',
           \A v \in Walkers \ {w} : Walking(v)' => Walking(v) \/ waits[v] = {},
           waits \in [Walkers -> SUBSET Walkers]
    PROVE  Awaited' /\ NoCircularWait'
<1>1. Awaited'
  BY DEF Awaited
<1>2. ASSUME NEW S \in SUBSET Walkers, S # {}, \A v \in S : Walking(v)'
      PROVE  \E v \in S : waits'[v] \cap S = {}
  <2>1. CASE \E v \in S : v # w /\ waits[v] = {}
    BY <2>1
  <2>2. CASE w \in S /\ \A v \in S \ {w} : waits[v] # {}
    <3>1. \A v \in S : v \notin B
      BY <2>2 DEF Awaited, Walking
    <3> QED BY <2>2, <3>1
  <2>3. CASE w \notin S /\ \A v \in S : waits[v] # {}
    <3>1. \A v \in S : Walking(v) /\ waits'[v] = waits[v]
      BY <1>2, <2>3
    <3> QED BY <1>2, <3>1 DEF NoCircularWait
  <2> QED BY <2>1, <2>2, <2>3
<1> QED BY <1>1, <1>2 DEF NoCircularWait

LEMMA CleanUpsBegin ==
    ASSUME Typed, CleanedOnce, NEW S \in SUBSET Kids
    PROVE  \A v \in CleanUps(S) : phase[v] = "off"
<1> SUFFICES ASSUME NEW k \in S, run[k] = "first"
             PROVE  phase[<< "clean", k, gen[k] >>] = "off"
  BY DEF CleanUps
<1>1. k \in Kids /\ gen[k] \in Gens /\ gen[k] \in Int
  BY TreeAssumption DEF Typed, TypeOK, Started, Running, Gens
<1> QED BY <1>1 DEF CleanedOnce

LEMMA WaitInvStep == WaitInv /\ [Next]_vars => WaitInv'
<1> SUFFICES ASSUME WaitInv, [Next]_vars PROVE Awaited' /\ NoCircularWait'
  BY TypeStep, CleanedStep DEF WaitInv
<1>0. /\ Typed /\ CleanedOnce /\ Awaited /\ NoCircularWait
      /\ phase \in [Walkers -> {"off", "listing", "listed", "walking", "done"}]
      /\ waits \in [Walkers -> SUBSET Walkers]
  BY DEF WaitInv, Typed, TypeOK
<1>1. CASE UNCHANGED << phase, waits >>
  BY <1>0, <1>1, BeginsAlone DEF Walking
<1>2. ASSUME NEW w \in Walkers, StopTurn(w) PROVE Awaited' /\ NoCircularWait'
  <2>1. waits' = waits /\ phase' = [phase EXCEPT ![w] = "listing"] /\ waits[w] = {}
    BY <1>0, <1>2 DEF StopTurn, Awaited, Walking
  <2> QED BY <1>0, <2>1, BeginsAlone DEF Walking
<1>3. ASSUME NEW w \in Walkers, List(w) PROVE Awaited' /\ NoCircularWait'
  <2>1. waits' = waits /\ phase' = [phase EXCEPT ![w] = "listed"] /\ phase[w] = "listing"
    BY <1>3 DEF List
  <2> QED BY <1>0, <2>1, BeginsAlone DEF Walking
<1>4. ASSUME NEW w \in Walkers, EndJob(w) PROVE Awaited' /\ NoCircularWait'
  <2> DEFINE S == {k \in Kids : k = Target(w) /\ Running(k)}
             B == CleanUps(S)
  <2>1. B \in SUBSET Walkers /\ \A v \in B : phase[v] = "off"
    BY <1>0, CleanUpsAreWalkers, CleanUpsBegin
  <2>2. w \notin B
    BY <1>4 DEF EndJob, CleanUps, Kind
  <2>3. /\ phase[w] = "off" /\ waits' = [waits EXCEPT ![w] = B]
        /\ phase' = [v \in Walkers |-> IF v \in B \cup {w} THEN "listing" ELSE phase[v]]
    BY <1>4 DEF EndJob
  <2> HIDE DEF B
  <2>4. \A v \in Walkers \ {w} : Walking(v)' => Walking(v) \/ waits[v] = {}
    BY <1>0, <2>1, <2>3 DEF Awaited, Walking
  <2> QED BY <1>0, <2>1, <2>2, <2>3, <2>4, WaitsForBeginners DEF Walking
<1>5. ASSUME NEW w \in Walkers, Walk(w) PROVE Awaited' /\ NoCircularWait'
  <2> DEFINE S == {k \in Batch(w) : Running(k)}
             B == CleanUps(S)
  <2>1. B \in SUBSET Walkers /\ \A v \in B : phase[v] = "off"
    BY <1>0, CleanUpsAreWalkers, CleanUpsBegin DEF Batch
  <2>2. phase[w] \in {"listed", "walking"}
    BY <1>5 DEF Walk, Proceeds
  <2>3. /\ waits' = [waits EXCEPT ![w] = B]
        /\ phase' = [v \in Walkers |-> IF v = w THEN "walking"
                                       ELSE IF v \in B THEN "listing" ELSE phase[v]]
    BY <1>5 DEF Walk
  <2> HIDE DEF B
  <2>4. \A v \in Walkers \ {w} : Walking(v)' => Walking(v) \/ waits[v] = {}
    BY <1>0, <2>1, <2>3 DEF Awaited, Walking
  <2>5. w \notin B
    BY <2>1, <2>2
  <2> QED BY <1>0, <2>1, <2>3, <2>4, <2>5, WaitsForBeginners DEF Walking
<1>6. ASSUME NEW w \in Walkers, NEW ok \in BOOLEAN, Finish(w, ok)
      PROVE  Awaited' /\ NoCircularWait'
  <2>1. waits' = [waits EXCEPT ![w] = {}]
    BY <1>6 DEF Finish
  <2>2. \A v \in Walkers \ {w} :
           \/ phase'[v] = phase[v]
           \/ phase[v] = "off" /\ phase'[v] = "listing"
    BY <1>0, <1>6 DEF Finish
  <2>3. phase'[w] = "done"
    BY <1>0, <1>6 DEF Finish
  <2>4. \A v \in Walkers \ {w} : Walking(v)' => Walking(v) \/ waits[v] = {}
    BY <1>0, <2>2 DEF Awaited, Walking
  <2>5. \A v \in Walkers : phase[v] # "off" => phase'[v] # "off"
    BY <2>2, <2>3
  <2>6. \A v \in Walkers \ {w} : Walking(v) => Walking(v)'
    BY <2>2 DEF Walking
  <2> QED BY <1>0, <2>1, <2>4, <2>5, <2>6, WaitsForBeginners
<1>7. CASE (\E s \in Sessions : Prompt(s)) \/ (\E k \in Kids : Extend(k) \/ Promote(k))
           \/ (\E k \in Kids, det \in BOOLEAN : Start(k, det))
           \/ (\E s \in Sessions, ok \in BOOLEAN : TurnEnds(s, ok))
  BY <1>1, <1>7 DEF Prompt, Extend, Promote, Start, TurnEnds, walkVars
<1>8. CASE UNCHANGED vars
  BY <1>1, <1>8 DEF vars, walkVars
<1> QED
  BY <1>2, <1>3, <1>4, <1>5, <1>6, <1>7, <1>8 DEF Next

\* What a walk needs to take its next step: the guards of List, Walk and Finish.
GoesOn(w) == (phase[w] = "listing" /\ Returned(w) /\ Yielded) \/ Proceeds(w)

SomeWalkGoesOn == (\E w \in Walkers : Walking(w)) => \E w \in Walkers : GoesOn(w)

LEMMA OneGoesOn == WaitInv => SomeWalkGoesOn
<1> SUFFICES ASSUME WaitInv, \E w \in Walkers : Walking(w)
             PROVE  \E w \in Walkers : GoesOn(w)
  BY DEF SomeWalkGoesOn
<1> DEFINE S == {w \in Walkers : Walking(w)}
<1>1. PICK w \in S : waits[w] \cap S = {}
  BY DEF WaitInv, NoCircularWait
<1>2. Returned(w)
  BY <1>1 DEF WaitInv, Awaited, Typed, TypeOK, Returned, Walking
<1>3. CASE Yielded
  BY <1>1, <1>2, <1>3 DEF GoesOn, Proceeds, Walking
<1>4. CASE ~Yielded
  BY <1>4 DEF GoesOn, Proceeds, Yielded
<1> QED BY <1>3, <1>4

-----------------------------------------------------------------------------
(* The variables keep their types, for every tree and every bound.          *)
THEOREM TypeCorrect == Spec => []TypeOK
<1>1. Typed => TypeOK
  BY DEF Typed
<1> QED BY <1>1, TypeInit, TypeStep, PTL DEF Spec

(* A walk reaches every generation it listed, whatever jobs end, restart or  *)
(* are extended while it waits.                                              *)
THEOREM WalksReachAll == Spec => []WalkReachesAll
  BY WalkInvInit, WalkInvStep, WalkReaches, PTL DEF Spec

(* A foreground child never outlives the turn that waits for it, for every   *)
(* tree, however stops, expiries, restarts and promotions interleave.        *)
THEOREM CallsEndWithTurns == Spec => []NoForegroundOrphan
  BY CallInvInit, CallInvStep, HeldMeansNoOrphan, PTL DEF Spec

(* The turn of a job's first run stops with the job, whoever cancels it.     *)
THEOREM JobsStopTheirTurns == Spec => []JobTurnsEndWithJobs
<1>1. JobInv => JobTurnsEndWithJobs
  BY DEF JobInv
<1> QED BY <1>1, JobInvInit, JobInvStep, PTL DEF Spec

(* Stops never wait for each other in a circle: while walks are under way,   *)
(* one of them can take its next step, for every tree, with every set of     *)
(* stops, expiries and restarts (the safety half of StopsReturn).            *)
THEOREM StopsDoNotDeadlock == Spec => []SomeWalkGoesOn
  BY WaitInvInit, WaitInvStep, OneGoesOn, PTL DEF Spec

=============================================================================
