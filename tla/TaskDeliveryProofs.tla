------------------------- MODULE TaskDeliveryProofs -------------------------
(* Proofs about TaskDelivery for every number of results and attempts and   *)
(* every bound on faults and events.                                        *)
EXTENDS TaskDelivery, FiniteSetTheorems, TLAPS

(* Every result has a fiber for its notify and one for a confirmation.       *)
LEMMA FiberIds ==
    \A r \in Results : << "notify", r >> \in Fibers /\ << "confirm", r >> \in Fibers
  BY DEF Fibers

(* They are two.                                                             *)
LEMMA OtherFiber == \A r, s \in Results : << "notify", r >> # << "confirm", s >>
  OBVIOUS

(* The parts of an item.                                                     *)
LEMMA ItemType == \A i \in Items : i.of \in Results /\ i.again \in BOOLEAN
  BY DEF Items

(* A re-queued item is an item.                                              *)
LEMMA AgainType == \A i \in Items : Redelivered(i) \in Items
  BY DEF Items, Redelivered

(* The inductive invariant.                                                 *)
Working == Draining \ {"peek"}

(* Only a result that was handed over has a fiber.                          *)
Unposted == \A r \in Results : r \notin posted => pc[<< "notify", r >>] = "off"

(* Each attempt of a drainer cost two failed writes.                        *)
Tally == \A f \in Fibers :
    /\ pc[f] \in {"write", "join", "turn", "landed"} =>
          tries[f] >= 1 /\ faults >= 2 * (tries[f] - 1)
    /\ pc[f] \in {"failed", "fallback"} => tries[f] >= 1 /\ faults >= 2 * tries[f] - 1
    /\ pc[f] = "retry" => tries[f] >= 1 /\ tries[f] < Attempts /\ faults >= 2 * tries[f]
    /\ pc[f] = "standdown" => faults >= 2 * Attempts

(* Ids are given out once.                                                  *)
Numbered ==
    /\ \A m \in stored : m.id < nextId
    /\ \A f \in Fibers : msg[f] < nextId
    /\ lastAsst < nextId

(* What a writer holds is what the store has under its id.                  *)
Own == \A f \in Fibers : \A m \in stored :
    pc[f] \in Working /\ m.id = msg[f] => m.items = batch[f] /\ m.busy = busy[f]

(* A writer's message is newer than every message with results before it.   *)
Newest == \A f \in Fibers : \A m \in stored :
    pc[f] \in Working /\ m.items # {} => m.id <= msg[f]

Written == {"join", "turn", "landed", "poll", "check"}

There == \A f \in Fibers : pc[f] \in Written => msg[f] \in Ids

AllWhole == \A m \in stored : m.whole

(* Where the parent's turn stands with a message that is to be confirmed.   *)
Tracked == \A f \in Fibers : pc[f] \in {"landed", "poll", "check"} =>
    /\ phase = "read" => msg[f] \in window
    /\ phase = "step" => msg[f] \in seen
    /\ phase = "ending" => msg[f] < lastAsst \/ msg[f] \in seen

Pursues(f, m) ==
    /\ pc[f] \in {"join", "turn", "landed", "failed", "poll", "check"}
    /\ msg[f] = m.id /\ batch[f] = m.items

(* A message written into a busy parent is followed up or still pursued.    *)
FollowedUp(m) ==
    \/ m.id \in seen \/ m.id < lastAsst
    \/ \E i \in m.items : i.again \/ WrittenAfter(m, i.of) \/ Redelivered(i) \in queue

Followed == \A m \in stored : m.busy /\ m.items # {} /\ m.id \notin turnless =>
    FollowedUp(m) \/ \E f \in Fibers : Pursues(f, m)

(* Held whatever a failed write leaves behind, and only when it never leaves *)
(* half a message.                                                           *)
Core == /\ TypeOK /\ Tally /\ Unposted /\ OneDrainer /\ LeftQueuedOnlyAfterRetries
        /\ Numbered /\ Own /\ Newest /\ There
Landing == AllWhole /\ Tracked /\ ResultsSurvive /\ Followed

----------------------------------------------------------------------------
(* Types *)

(* The initial state is well typed.                                          *)
LEMMA TypeInit == Init => TypeOK
<1> SUFFICES ASSUME Init PROVE TypeOK
  OBVIOUS
<1>1. FiberTypes BY BoundsAssumption DEF Init, FiberTypes, Stages
<1>2. StoreTypes BY DEF Init, StoreTypes
<1>3. FlagTypes  BY DEF Init, FlagTypes
<1> QED BY <1>1, <1>2, <1>3 DEF TypeOK

(* What a writer writes is a message.                                        *)
LEMMA MessageType ==
    ASSUME TypeOK, NEW f \in Fibers, NEW whole \in BOOLEAN
    PROVE  Message(f, whole) \in Messages
<1>1. msg[f] \in Nat /\ batch[f] \in SUBSET Items
  BY DEF TypeOK, FiberTypes
<1>2. busy[f] \in BOOLEAN
  BY DEF TypeOK, FlagTypes
<1> QED BY <1>1, <1>2 DEF Message, Messages

(* So is what a failed write leaves.                                         *)
LEMMA LeftType ==
    ASSUME TypeOK, NEW f \in Fibers, NEW kind \in FaultKinds
    PROVE  Left(f, kind) \subseteq Messages
<1>1. (kind = "late") \in BOOLEAN
  OBVIOUS
<1> QED BY <1>1, MessageType DEF Left

(* The end of a turn leaves stages.                                          *)
LEMMA AnswerType ==
    ASSUME TypeOK, NEW outcome \in Stages
    PROVE  Answer(outcome) \in [Fibers -> Stages]
  BY DEF TypeOK, FiberTypes, Answer

(* What a write that may fail does to the count of faults.                   *)
LEMMA WriteCounts ==
    ASSUME NEW f \in Fibers, Write(f)
    PROVE  faults' = faults \/ faults' = faults + 1
  BY DEF Write

(* The same for the write without a turn.                                    *)
LEMMA FallbackCounts ==
    ASSUME NEW f \in Fibers, FallbackFails(f)
    PROVE  faults' = faults + 1 /\ turnless' = turnless \cup {msg[f]}
  BY DEF FallbackFails

(* The stages, spelled out.                                                  *)
LEMMA StageNames ==
    /\ Stages = {"peek", "write", "join", "turn", "landed", "failed", "fallback", "retry",
                 "standdown", "off", "poll", "check", "done"}
    /\ Draining = {"peek", "write", "join", "turn", "landed", "failed", "fallback",
                   "retry", "standdown"}
  BY DEF Draining, Stages

(* A step keeps the types of the flags,                                      *)
LEMMA FlagStep == TypeOK /\ [Next]_vars => FlagTypes'
<1> SUFFICES ASSUME TypeOK, [Next]_vars PROVE FlagTypes'
  OBVIOUS
<1> USE DEF TypeOK, FlagTypes, fiberVars, turnVars
<1>1. CASE Prompt
  BY <1>1 DEF Prompt, Happens
<1>2. CASE Read
  BY <1>2 DEF Read
<1>3. CASE Step
  BY <1>3 DEF Step
<1>4. CASE StepEnds
  BY <1>4 DEF StepEnds, Happens
<1>5. CASE TurnEnds
  BY <1>5 DEF TurnEnds, EndTurn
<1>6. CASE Stop
  BY <1>6 DEF Stop, EndTurn, Happens
<1>7. CASE TurnFails
  BY <1>7 DEF TurnFails, EndTurn
<1>8. ASSUME NEW r \in Results, Post(r) PROVE FlagTypes'
  BY <1>8 DEF Post, Become
<1>9. ASSUME NEW f \in Fibers, Peek(f) PROVE FlagTypes'
  BY <1>9 DEF Peek, Prepare, Become
<1>10. ASSUME NEW f \in Fibers, PeekNothing(f) PROVE FlagTypes'
  BY <1>10 DEF PeekNothing, Release, Become
<1>11. ASSUME NEW f \in Fibers, StandDown(f) PROVE FlagTypes'
  BY <1>11 DEF StandDown, Release, Become
<1>12. ASSUME NEW f \in Fibers, Write(f) PROVE FlagTypes'
  BY <1>12 DEF Write, Become
<1>13. ASSUME NEW f \in Fibers, Join(f) PROVE FlagTypes'
  BY <1>13 DEF Join, Become
<1>14. ASSUME NEW f \in Fibers, Landed(f) PROVE FlagTypes'
  BY <1>14 DEF Landed, Become, Drop
<1>15. ASSUME NEW f \in Fibers, Failed(f) PROVE FlagTypes'
  BY <1>15 DEF Failed, Settled, Become, Drop
<1>16. ASSUME NEW f \in Fibers, FallbackLands(f) PROVE FlagTypes'
  BY <1>16 DEF FallbackLands, Settled, Become, Drop
<1>17. ASSUME NEW f \in Fibers, FallbackFails(f) PROVE FlagTypes'
  BY <1>17 DEF FallbackFails, Become
<1>18. ASSUME NEW f \in Fibers, Retry(f) PROVE FlagTypes'
  BY <1>18 DEF Retry, Prepare, Become
<1>19. ASSUME NEW f \in Fibers, SeesIdle(f) PROVE FlagTypes'
  BY <1>19 DEF SeesIdle, Become
<1>20. ASSUME NEW f \in Fibers, GivesUp(f) PROVE FlagTypes'
  BY <1>20 DEF GivesUp, Become
<1>21. ASSUME NEW f \in Fibers, Check(f) PROVE FlagTypes'
  BY <1>21 DEF Check, Become
<1>22. CASE UNCHANGED vars
  BY <1>22 DEF vars
<1> QED BY <1>1, <1>2, <1>3, <1>4, <1>5, <1>6, <1>7, <1>8, <1>9, <1>10, <1>11,
       <1>12, <1>13, <1>14, <1>15, <1>16, <1>17, <1>18, <1>19, <1>20, <1>21, <1>22
       DEF Next, System, Turn, Drain, Confirm

(* those of the fibers,                                                      *)
LEMMA FiberStep == TypeOK /\ Tally /\ [Next]_vars => FiberTypes'
<1> SUFFICES ASSUME TypeOK, Tally, [Next]_vars PROVE FiberTypes'
  OBVIOUS
<1>b. Attempts \in Nat /\ nextId \in Nat /\ queue \subseteq Items
  BY BoundsAssumption DEF TypeOK, StoreTypes
<1>f. FiberTypes BY DEF TypeOK
<1> USE <1>b, <1>f
<1> USE DEF FiberTypes, fiberVars, turnVars
<1>1. CASE Prompt
  BY <1>1, StageNames DEF Prompt, Happens
<1>2. CASE Read
  BY <1>2, StageNames DEF Read
<1>3. CASE Step
  BY <1>3, StageNames DEF Step
<1>4. CASE StepEnds
  BY <1>4, StageNames DEF StepEnds, Happens
<1>5. CASE TurnEnds
  BY <1>5, StageNames, AnswerType DEF TurnEnds, EndTurn
<1>6. CASE Stop
  BY <1>6, StageNames, AnswerType DEF Stop, EndTurn, Happens
<1>7. CASE TurnFails
  BY <1>7, StageNames, AnswerType DEF TurnFails, EndTurn
<1>8. ASSUME NEW r \in Results, Post(r) PROVE FiberTypes'
  BY <1>8, StageNames, FiberIds DEF Post, Become
<1>9. ASSUME NEW f \in Fibers, Peek(f) PROVE FiberTypes'
  BY BoundsAssumption, <1>9, StageNames DEF Peek, Prepare, Become
<1>10. ASSUME NEW f \in Fibers, PeekNothing(f) PROVE FiberTypes'
  BY <1>10, StageNames DEF PeekNothing, Release, Become
<1>11. ASSUME NEW f \in Fibers, StandDown(f) PROVE FiberTypes'
  BY <1>11, StageNames DEF StandDown, Release, Become
<1>12. ASSUME NEW f \in Fibers, Write(f) PROVE FiberTypes'
  BY <1>12, StageNames DEF Write, Become
<1>13. ASSUME NEW f \in Fibers, Join(f) PROVE FiberTypes'
  BY <1>13, StageNames DEF Join, Become
<1>14. ASSUME NEW f \in Fibers, Landed(f) PROVE FiberTypes'
  <2>1. \A i \in batch[f] : << "confirm", i.of >> \in Fibers
    BY FiberIds, ItemType
  <2>2. CASE Confirms(f)
    <3>1. PICK i \in batch[f] : LET c == << "confirm", i.of >> IN
             /\ pc' = [pc EXCEPT ![f] = "peek", ![c] = "poll"]
             /\ batch' = [batch EXCEPT ![f] = {}, ![c] = batch[f]]
             /\ msg' = [msg EXCEPT ![f] = 0, ![c] = msg[f]]
      BY <1>14, <2>2 DEF Landed
    <3>2. << "confirm", i.of >> \in Fibers
      BY <2>1
    <3>3. pc' \in [Fibers -> Stages] /\ batch' \in [Fibers -> SUBSET Items]
          /\ msg' \in [Fibers -> Nat]
      BY <3>1, <3>2, StageNames
    <3>4. tries' \in [Fibers -> 0..Attempts]
      BY <1>14 DEF Landed
    <3> QED BY <3>3, <3>4
  <2>3. CASE ~Confirms(f)
    BY <1>14, <2>3, StageNames DEF Landed, Become
  <2> QED BY <2>2, <2>3
<1>15. ASSUME NEW f \in Fibers, Failed(f) PROVE FiberTypes'
  BY <1>15, StageNames DEF Failed, Settled, Become, Drop
<1>16. ASSUME NEW f \in Fibers, FallbackLands(f) PROVE FiberTypes'
  BY <1>16, StageNames DEF FallbackLands, Settled, Become, Drop
<1>17. ASSUME NEW f \in Fibers, FallbackFails(f) PROVE FiberTypes'
  BY <1>17, StageNames DEF FallbackFails, Become
<1>18. ASSUME NEW f \in Fibers, Retry(f) PROVE FiberTypes'
  BY <1>18, StageNames DEF Retry, Tally, Prepare, Become
<1>19. ASSUME NEW f \in Fibers, SeesIdle(f) PROVE FiberTypes'
  BY <1>19, StageNames DEF SeesIdle, Become
<1>20. ASSUME NEW f \in Fibers, GivesUp(f) PROVE FiberTypes'
  BY <1>20, StageNames DEF GivesUp, Become
<1>21. ASSUME NEW f \in Fibers, Check(f) PROVE FiberTypes'
  BY <1>21, StageNames DEF Check, Become
<1>22. CASE UNCHANGED vars
  BY <1>22 DEF vars
<1> QED BY <1>1, <1>2, <1>3, <1>4, <1>5, <1>6, <1>7, <1>8, <1>9, <1>10, <1>11,
       <1>12, <1>13, <1>14, <1>15, <1>16, <1>17, <1>18, <1>19, <1>20, <1>21, <1>22
       DEF Next, System, Turn, Drain, Confirm

(* and those of the queue, the store and the turn.                           *)
LEMMA StoreStep == TypeOK /\ [Next]_vars => StoreTypes'
<1> SUFFICES ASSUME TypeOK, [Next]_vars PROVE StoreTypes'
  OBVIOUS
<1>s. StoreTypes BY DEF TypeOK
<1>f. FiberTypes BY DEF TypeOK
<1>i. Ids \subseteq Nat BY DEF TypeOK, StoreTypes, Ids, Messages
<1> USE <1>s
<1> USE DEF StoreTypes, fiberVars, turnVars
<1>1. CASE Prompt
  <2>1. UserMessage \in Messages
    BY DEF UserMessage, Messages
  <2> QED BY <1>1, <2>1 DEF Prompt, Happens
<1>2. CASE Read
  BY <1>2, <1>i DEF Read
<1>3. CASE Step
  BY <1>3 DEF Step
<1>4. CASE StepEnds
  BY <1>4 DEF StepEnds, Happens
<1>5. CASE TurnEnds
  BY <1>5 DEF TurnEnds, EndTurn
<1>6. CASE Stop
  BY <1>6 DEF Stop, EndTurn, Happens
<1>7. CASE TurnFails
  BY <1>7 DEF TurnFails, EndTurn
<1>8. ASSUME NEW r \in Results, Post(r) PROVE StoreTypes'
  <2>1. NewResult(r) \in Items
    BY DEF NewResult, Items
  <2> QED BY <1>8, <2>1 DEF Post
<1>9. ASSUME NEW f \in Fibers, Peek(f) PROVE StoreTypes'
  BY <1>9 DEF Peek, Prepare, Become
<1>10. ASSUME NEW f \in Fibers, PeekNothing(f) PROVE StoreTypes'
  BY <1>10 DEF PeekNothing, Release, Become
<1>11. ASSUME NEW f \in Fibers, StandDown(f) PROVE StoreTypes'
  BY <1>11 DEF StandDown, Release, Become
<1>12. ASSUME NEW f \in Fibers, Write(f) PROVE StoreTypes'
  <2>1. stored' \subseteq Messages
    <3>1. CASE stored' = stored \cup {Message(f, TRUE)}
      BY <3>1, MessageType
    <3>2. ASSUME NEW kind \in FaultKinds, stored' = stored \cup Left(f, kind)
          PROVE  stored' \subseteq Messages
      BY <3>2, LeftType
    <3> QED BY <1>12, <3>1, <3>2 DEF Write
  <2>2. faults' \in Nat
    BY <1>12, WriteCounts
  <2> QED BY <1>12, <2>1, <2>2 DEF Write
<1>13. ASSUME NEW f \in Fibers, Join(f) PROVE StoreTypes'
  BY <1>13 DEF Join, Become
<1>14. ASSUME NEW f \in Fibers, Landed(f) PROVE StoreTypes'
  BY <1>14 DEF Landed, Become, Drop
<1>15. ASSUME NEW f \in Fibers, Failed(f) PROVE StoreTypes'
  <2>1. msg[f] \in Nat
    BY <1>f DEF FiberTypes
  <2>2. queue' \subseteq queue /\ turnless' \subseteq turnless \cup {msg[f]}
        /\ nextId' \in {nextId, nextId + 1}
    <3> HIDE DEF StoreTypes
    <3> QED BY <1>15 DEF Failed, Drop
  <2> QED BY <1>15, <2>1, <2>2 DEF Failed
<1>16. ASSUME NEW f \in Fibers, FallbackLands(f) PROVE StoreTypes'
  BY <1>16, MessageType, <1>f DEF FallbackLands, Drop, Settled, FiberTypes
<1>17. ASSUME NEW f \in Fibers, FallbackFails(f) PROVE StoreTypes'
  <2>1. stored' \subseteq Messages
    BY <1>17, LeftType DEF FallbackFails
  <2>2. msg[f] \in Nat
    BY <1>f DEF FiberTypes
  <2>3. faults' \in Nat /\ turnless' \subseteq Nat
    <3>1. faults' = faults + 1 /\ turnless' = turnless \cup {msg[f]}
      BY <1>17, FallbackCounts
    <3>2. faults \in Nat /\ turnless \subseteq Nat
      OBVIOUS
    <3>3. turnless' \subseteq Nat
      BY <2>2, <3>1, <3>2, Zenon
    <3>4. faults' \in Nat
      BY <3>1, <3>2
    <3> QED BY <3>3, <3>4
  <2> QED BY <1>17, <2>1, <2>3 DEF FallbackFails
<1>18. ASSUME NEW f \in Fibers, Retry(f) PROVE StoreTypes'
  BY <1>18 DEF Retry, Prepare, Become
<1>19. ASSUME NEW f \in Fibers, SeesIdle(f) PROVE StoreTypes'
  BY <1>19 DEF SeesIdle, Become
<1>20. ASSUME NEW f \in Fibers, GivesUp(f) PROVE StoreTypes'
  BY <1>20 DEF GivesUp, Become
<1>21. ASSUME NEW f \in Fibers, Check(f) PROVE StoreTypes'
  BY <1>f, AgainType, <1>21 DEF FiberTypes, Check
<1>22. CASE UNCHANGED vars
  BY <1>22 DEF vars
<1> QED BY <1>1, <1>2, <1>3, <1>4, <1>5, <1>6, <1>7, <1>8, <1>9, <1>10, <1>11,
       <1>12, <1>13, <1>14, <1>15, <1>16, <1>17, <1>18, <1>19, <1>20, <1>21, <1>22
       DEF Next, System, Turn, Drain, Confirm

(* Together: a step keeps the types.                                         *)
LEMMA TypeStep == TypeOK /\ Tally /\ [Next]_vars => TypeOK'
  BY FlagStep, FiberStep, StoreStep DEF TypeOK

----------------------------------------------------------------------------
(* The drainer *)

(* What the end of a turn does to the stages: only waiting writers move.     *)
LEMMA AnswerMoves ==
    ASSUME NEW outcome
    PROVE  \A g \in Fibers : Answer(outcome)[g] = IF pc[g] = "turn" THEN outcome ELSE pc[g]
  BY DEF Answer

(* A result that was not handed over keeps its fiber off.                    *)
LEMMA UnpostedStep == TypeOK /\ Unposted /\ [Next]_vars => Unposted'
<1> SUFFICES ASSUME TypeOK, Unposted, [Next]_vars PROVE Unposted'
  OBVIOUS
<1>t. pc \in [Fibers -> Stages]
  BY DEF TypeOK, FiberTypes
<1> USE DEF Unposted, fiberVars, turnVars
<1>1. CASE Prompt
  BY <1>1, FiberIds, <1>t DEF Prompt, Happens
<1>2. CASE Read
  BY <1>2, FiberIds, <1>t DEF Read
<1>3. CASE Step
  BY <1>3, FiberIds, <1>t DEF Step
<1>4. CASE StepEnds
  BY <1>4 DEF StepEnds
<1>5. CASE TurnEnds
  BY <1>5, AnswerMoves, FiberIds DEF TurnEnds, EndTurn
<1>6. CASE Stop
  BY <1>6, AnswerMoves, FiberIds DEF Stop, EndTurn, Happens
<1>7. CASE TurnFails
  BY <1>7, AnswerMoves, FiberIds DEF TurnFails, EndTurn
<1>8. ASSUME NEW r \in Results, Post(r) PROVE Unposted'
  BY <1>8, FiberIds, <1>t DEF Post, Become
<1>9. ASSUME NEW f \in Fibers, Peek(f) PROVE Unposted'
  BY <1>9, FiberIds, <1>t DEF Peek, Prepare, Become
<1>10. ASSUME NEW f \in Fibers, PeekNothing(f) PROVE Unposted'
  BY <1>10, FiberIds, <1>t DEF PeekNothing, Release, Become
<1>11. ASSUME NEW f \in Fibers, StandDown(f) PROVE Unposted'
  BY <1>11, FiberIds, <1>t DEF StandDown, Release, Become
<1>12. ASSUME NEW f \in Fibers, Write(f) PROVE Unposted'
  BY <1>12, FiberIds, <1>t DEF Write, Become
<1>13. ASSUME NEW f \in Fibers, Join(f) PROVE Unposted'
  BY <1>13, FiberIds, <1>t DEF Join, Become
<1>14. ASSUME NEW f \in Fibers, Landed(f) PROVE Unposted'
  <2>1. CASE Confirms(f)
    <3>1. PICK i \in batch[f] :
             pc' = [pc EXCEPT ![f] = "peek", ![<< "confirm", i.of >>] = "poll"]
      BY <1>14, <2>1 DEF Landed
    <3> QED BY <1>14, <3>1, <1>t, FiberIds, OtherFiber DEF Landed
  <2>2. CASE ~Confirms(f)
    BY <1>14, <2>2, <1>t, FiberIds DEF Landed, Become
  <2> QED BY <2>1, <2>2
<1>15. ASSUME NEW f \in Fibers, Failed(f) PROVE Unposted'
  BY <1>15, FiberIds, <1>t DEF Failed, Settled, Become, Drop
<1>16. ASSUME NEW f \in Fibers, FallbackLands(f) PROVE Unposted'
  BY <1>16, FiberIds, <1>t DEF FallbackLands, Settled, Become, Drop
<1>17. ASSUME NEW f \in Fibers, FallbackFails(f) PROVE Unposted'
  BY <1>17, FiberIds, <1>t DEF FallbackFails, Become
<1>18. ASSUME NEW f \in Fibers, Retry(f) PROVE Unposted'
  BY <1>18, FiberIds, <1>t DEF Retry, Prepare, Become
<1>19. ASSUME NEW f \in Fibers, SeesIdle(f) PROVE Unposted'
  BY <1>19, FiberIds, <1>t DEF SeesIdle, Become
<1>20. ASSUME NEW f \in Fibers, GivesUp(f) PROVE Unposted'
  BY <1>20, FiberIds, <1>t DEF GivesUp, Become
<1>21. ASSUME NEW f \in Fibers, Check(f) PROVE Unposted'
  BY <1>21, FiberIds, <1>t DEF Check, Become
<1>22. CASE UNCHANGED vars
  BY <1>22 DEF vars
<1> QED BY <1>1, <1>2, <1>3, <1>4, <1>5, <1>6, <1>7, <1>8, <1>9, <1>10, <1>11,
       <1>12, <1>13, <1>14, <1>15, <1>16, <1>17, <1>18, <1>19, <1>20, <1>21, <1>22
       DEF Next, System, Turn, Drain, Confirm

(* A fiber that moves enters the drainers, stays or leaves.                  *)
LEMMA DrainersChange ==
    ASSUME TypeOK, NEW f \in Fibers, NEW s, pc' = [pc EXCEPT ![f] = s]
    PROVE  Drainers' = IF s \in Draining THEN Drainers \cup {f} ELSE Drainers \ {f}
<1>1. pc \in [Fibers -> Stages]
  BY DEF TypeOK, FiberTypes
<1> QED BY <1>1 DEF Drainers

(* Nothing changes for who drains.                                           *)
LEMMA SameDrainers ==
    ASSUME OneDrainer, Drainers' = Drainers, claimed' = claimed
    PROVE  OneDrainer'
  BY Zenon DEF OneDrainer

(* The drainer goes on; another fiber moves between stages that are none of  *)
(* its; the drainer leaves with its claim; a fiber claims if it can.         *)
LEMMA DrainerStays ==
    ASSUME TypeOK, OneDrainer, NEW f \in Fibers, pc[f] \in Draining, NEW s \in Draining,
           pc' = [pc EXCEPT ![f] = s], claimed' = claimed
    PROVE  OneDrainer'
<1>1. Drainers' = Drainers
  BY DrainersChange DEF Drainers
<1> QED BY <1>1, SameDrainers

(* A fiber that does not drain moves between other stages.                   *)
LEMMA OtherMoves ==
    ASSUME TypeOK, OneDrainer, NEW f \in Fibers, pc[f] \notin Draining, NEW s, s \notin Draining,
           pc' = [pc EXCEPT ![f] = s], claimed' = claimed
    PROVE  OneDrainer'
<1>1. Drainers' = Drainers
  BY DrainersChange DEF Drainers
<1> QED BY <1>1, SameDrainers

(* The drainer leaves with its claim.                                        *)
LEMMA DrainerLeaves ==
    ASSUME TypeOK, OneDrainer, NEW f \in Fibers, pc[f] \in Draining, Release(f)
    PROVE  OneDrainer'
<1>1. Drainers' = Drainers \ {f}
  BY DrainersChange, StageNames DEF Release, Become
<1>2. f \in Drainers
  BY DEF Drainers
<1>3. Drainers' = {}
  BY <1>1, <1>2 DEF OneDrainer
<1>4. ~claimed'
  BY DEF Release
<1> QED BY <1>3, <1>4, Zenon DEF OneDrainer

(* A fiber claims if it can.                                                 *)
LEMMA DrainerEnters ==
    ASSUME TypeOK, OneDrainer, NEW f \in Fibers, pc[f] \notin Draining,
           Become(f, IF Claims THEN "peek" ELSE "done"), claimed' = TRUE
    PROVE  OneDrainer'
<1>1. CASE claimed
  <2>1. Drainers' = Drainers
    BY <1>1, DrainersChange, StageNames DEF Drainers, Become, Claims
  <2> QED BY <1>1, <2>1, Zenon DEF OneDrainer
<1>2. CASE ~claimed
  BY <1>2, DrainersChange, StageNames DEF Become, Claims, OneDrainer
<1> QED BY <1>1, <1>2

(* The end of a turn wakes the drainer and leaves it one.                    *)
LEMMA AnswerKeepsDrainers ==
    ASSUME OneDrainer, NEW outcome \in Draining, EndTurn(outcome), claimed' = claimed
    PROVE  OneDrainer'
<1>1. Drainers' = Drainers
  BY AnswerMoves, StageNames DEF Drainers, EndTurn
<1> QED BY <1>1, SameDrainers

(* A step keeps one drainer and its claim.                                   *)
LEMMA OneDrainerStep == TypeOK /\ Unposted /\ OneDrainer /\ [Next]_vars => OneDrainer'
<1> SUFFICES ASSUME TypeOK, Unposted, OneDrainer, [Next]_vars PROVE OneDrainer'
  OBVIOUS
<1>1. CASE Prompt
  BY <1>1, SameDrainers DEF Prompt, Happens, fiberVars, Drainers
<1>2. CASE Read
  BY <1>2, SameDrainers DEF Read, fiberVars, Drainers
<1>3. CASE Step
  BY <1>3, SameDrainers DEF Step, fiberVars, Drainers
<1>4. CASE StepEnds
  BY <1>4, SameDrainers DEF StepEnds, Happens, fiberVars, Drainers
<1>5. CASE TurnEnds
  BY <1>5, AnswerKeepsDrainers, StageNames DEF TurnEnds
<1>6. CASE Stop
  BY <1>6, AnswerKeepsDrainers, StageNames DEF Stop
<1>7. CASE TurnFails
  BY <1>7, AnswerKeepsDrainers, StageNames DEF TurnFails
<1>8. ASSUME NEW r \in Results, Post(r) PROVE OneDrainer'
  BY <1>8, StageNames, DrainerEnters, FiberIds DEF Post, Unposted
<1>9. ASSUME NEW f \in Fibers, Peek(f) PROVE OneDrainer'
  BY <1>9, DrainerStays, StageNames DEF Peek, Prepare, Become
<1>10. ASSUME NEW f \in Fibers, PeekNothing(f) PROVE OneDrainer'
  BY <1>10, DrainerLeaves, StageNames DEF PeekNothing
<1>11. ASSUME NEW f \in Fibers, StandDown(f) PROVE OneDrainer'
  BY <1>11, DrainerLeaves, StageNames DEF StandDown
<1>12. ASSUME NEW f \in Fibers, Write(f) PROVE OneDrainer'
  BY <1>12, DrainerStays, StageNames DEF Write, Become
<1>13. ASSUME NEW f \in Fibers, Join(f) PROVE OneDrainer'
  BY <1>13, DrainerStays, StageNames DEF Join, Become
<1>14. ASSUME NEW f \in Fibers, Landed(f) PROVE OneDrainer'
  <2>1. pc[f] = "landed" /\ claimed' = claimed
    BY <1>14 DEF Landed
  <2>2. CASE Confirms(f)
    <3>1. PICK i \in batch[f] :
             /\ pc[<< "confirm", i.of >>] \in {"off", "done"}
             /\ pc' = [pc EXCEPT ![f] = "peek", ![<< "confirm", i.of >>] = "poll"]
      BY <1>14, <2>2 DEF Landed
    <3>2. pc \in [Fibers -> Stages]
      BY DEF TypeOK, FiberTypes
    <3>3. Drainers' = Drainers
      BY <2>1, <3>1, <3>2, StageNames DEF Drainers
    <3> QED BY <2>1, <3>3, SameDrainers
  <2>3. CASE ~Confirms(f)
    BY <1>14, <2>3, <2>1, DrainerStays, StageNames DEF Landed, Become
  <2> QED BY <2>2, <2>3
<1>15. ASSUME NEW f \in Fibers, Failed(f) PROVE OneDrainer'
  BY <1>15, DrainerStays, StageNames DEF Failed, Settled, Become, Drop
<1>16. ASSUME NEW f \in Fibers, FallbackLands(f) PROVE OneDrainer'
  BY <1>16, DrainerStays, StageNames DEF FallbackLands, Settled, Become, Drop
<1>17. ASSUME NEW f \in Fibers, FallbackFails(f) PROVE OneDrainer'
  BY <1>17, DrainerStays, StageNames DEF FallbackFails, Become
<1>18. ASSUME NEW f \in Fibers, Retry(f) PROVE OneDrainer'
  BY <1>18, DrainerStays, StageNames DEF Retry, Prepare, Become
<1>19. ASSUME NEW f \in Fibers, SeesIdle(f) PROVE OneDrainer'
  <2>1. pc[f] = "poll" /\ claimed' = claimed /\ pc' = [pc EXCEPT ![f] = "check"]
    BY <1>19 DEF SeesIdle, Become
  <2>2. "poll" \notin Draining /\ "check" \notin Draining
    BY StageNames
  <2>3. pc[f] \notin Draining
    BY <2>1, <2>2
  <2> QED BY <2>1, <2>2, <2>3, OtherMoves
<1>20. ASSUME NEW f \in Fibers, GivesUp(f) PROVE OneDrainer'
  <2>1. pc[f] = "poll" /\ claimed' = claimed /\ pc' = [pc EXCEPT ![f] = "done"]
    BY <1>20 DEF GivesUp, Become
  <2>2. "poll" \notin Draining /\ "done" \notin Draining
    BY StageNames
  <2>3. pc[f] \notin Draining
    BY <2>1, <2>2
  <2> QED BY <2>1, <2>2, <2>3, OtherMoves
<1>21. ASSUME NEW f \in Fibers, Check(f) PROVE OneDrainer'
  <2>1. pc[f] = "check"
    BY <1>21 DEF Check
  <2>2. CASE Consumed(f)
    BY <1>21, <2>2, <2>1, OtherMoves, StageNames DEF Check, Become
  <2>3. CASE ~Consumed(f)
    BY <1>21, <2>3, <2>1, DrainerEnters, StageNames DEF Check
  <2> QED BY <2>2, <2>3
<1>22. CASE UNCHANGED vars
  BY <1>22 DEF vars, fiberVars, OneDrainer, Drainers
<1> QED BY <1>1, <1>2, <1>3, <1>4, <1>5, <1>6, <1>7, <1>8, <1>9, <1>10, <1>11,
       <1>12, <1>13, <1>14, <1>15, <1>16, <1>17, <1>18, <1>19, <1>20, <1>21, <1>22
       DEF Next, System, Turn, Drain, Confirm

(* Attempts and faults *)
LEMMA TallyStep == TypeOK /\ Tally /\ [Next]_vars => Tally'
<1> SUFFICES ASSUME TypeOK, Tally, [Next]_vars PROVE Tally'
  OBVIOUS
<1>t. /\ pc \in [Fibers -> Stages] /\ tries \in [Fibers -> 0..Attempts]
      /\ faults \in Nat /\ Attempts \in Nat \ {0}
  BY BoundsAssumption DEF TypeOK, FiberTypes, StoreTypes
<1>1. CASE Prompt
  BY <1>1 DEF Prompt, Happens, fiberVars, Tally
<1>2. CASE Read
  BY <1>2 DEF Read, fiberVars, Tally
<1>3. CASE Step
  BY <1>3 DEF Step, fiberVars, Tally
<1>4. CASE StepEnds
  BY <1>4 DEF StepEnds, Happens, fiberVars, Tally
<1>5. CASE TurnEnds
  BY <1>5, <1>t, AnswerMoves DEF TurnEnds, Tally, EndTurn
<1>6. CASE Stop
  BY <1>6, <1>t, AnswerMoves DEF Stop, Tally, EndTurn
<1>7. CASE TurnFails
  BY <1>7, <1>t, AnswerMoves DEF TurnFails, Tally, EndTurn
<1>8. ASSUME NEW r \in Results, Post(r) PROVE Tally'
  BY <1>8, <1>t, FiberIds DEF Post, Become, Tally
<1>9. ASSUME NEW f \in Fibers, Peek(f) PROVE Tally'
  BY <1>9, <1>t, StageNames DEF Peek, Prepare, Become, Tally
<1>10. ASSUME NEW f \in Fibers, PeekNothing(f) PROVE Tally'
  BY <1>10, <1>t, StageNames DEF PeekNothing, Release, Become, Tally
<1>11. ASSUME NEW f \in Fibers, StandDown(f) PROVE Tally'
  BY <1>11, <1>t, StageNames DEF StandDown, Release, Become, Tally
<1>12. ASSUME NEW f \in Fibers, Write(f) PROVE Tally'
  <2>1. CASE pc' = [pc EXCEPT ![f] = "join"] /\ faults' = faults
    BY <1>12, <2>1, <1>t DEF Write, Tally
  <2>2. CASE pc' = [pc EXCEPT ![f] = "failed"] /\ faults' = faults + 1
    BY <1>12, <2>2, <1>t DEF Write, Tally
  <2> QED BY <1>12, <2>1, <2>2 DEF Write, Become
<1>13. ASSUME NEW f \in Fibers, Join(f) PROVE Tally'
  BY <1>13, <1>t, StageNames DEF Join, Become, Tally
<1>14. ASSUME NEW f \in Fibers, Landed(f) PROVE Tally'
  <2>1. /\ pc[f] = "landed" /\ tries' = [tries EXCEPT ![f] = 0] /\ faults' = faults
        /\ \/ pc' = [pc EXCEPT ![f] = "peek"]
           \/ \E i \in batch[f] :
                pc' = [pc EXCEPT ![f] = "peek", ![<< "confirm", i.of >>] = "poll"]
    BY <1>14 DEF Landed, Become
  <2>2. ASSUME NEW i \in batch[f],
               pc' = [pc EXCEPT ![f] = "peek", ![<< "confirm", i.of >>] = "poll"]
        PROVE  Tally'
    BY <2>1, <2>2, <1>t DEF Tally
  <2>3. CASE pc' = [pc EXCEPT ![f] = "peek"]
    BY <2>1, <2>3, <1>t DEF Tally
  <2> QED BY <2>1, <2>2, <2>3
<1>15. ASSUME NEW f \in Fibers, Failed(f) PROVE Tally'
  <2>1. CASE Injected(f)
    BY <1>15, <2>1, <1>t DEF Failed, Settled, Become, Tally
  <2>2. CASE ~Injected(f)
    BY <1>15, <2>2, <1>t DEF Failed, Become, Tally
  <2> QED BY <2>1, <2>2
<1>16. ASSUME NEW f \in Fibers, FallbackLands(f) PROVE Tally'
  BY <1>16, <1>t, StageNames DEF FallbackLands, Settled, Become, Drop, Tally
<1>17. ASSUME NEW f \in Fibers, FallbackFails(f) PROVE Tally'
  BY <1>17, <1>t DEF FallbackFails, Become, Tally, Again
<1>18. ASSUME NEW f \in Fibers, Retry(f) PROVE Tally'
  BY <1>18, <1>t, StageNames DEF Retry, Prepare, Become, Tally
<1>19. ASSUME NEW f \in Fibers, SeesIdle(f) PROVE Tally'
  BY <1>19, <1>t, StageNames DEF SeesIdle, Become, Tally
<1>20. ASSUME NEW f \in Fibers, GivesUp(f) PROVE Tally'
  BY <1>20, <1>t, StageNames DEF GivesUp, Become, Tally
<1>21. ASSUME NEW f \in Fibers, Check(f) PROVE Tally'
  BY <1>21, <1>t DEF Check, Become, Tally
<1>22. CASE UNCHANGED vars
  BY <1>22 DEF vars, fiberVars, Tally
<1> QED BY <1>1, <1>2, <1>3, <1>4, <1>5, <1>6, <1>7, <1>8, <1>9, <1>10, <1>11,
       <1>12, <1>13, <1>14, <1>15, <1>16, <1>17, <1>18, <1>19, <1>20, <1>21, <1>22
       DEF Next, System, Turn, Drain, Confirm

(* Nothing changes for a queue that waits.                                   *)
LEMMA QueueWaits ==
    ASSUME LeftQueuedOnlyAfterRetries, TypeOK, TypeOK', queue' = queue, claimed' = claimed,
           faults' >= faults
    PROVE  LeftQueuedOnlyAfterRetries'
<1>1. CASE claimed
  <2>1. claimed'
    BY <1>1
  <2> QED BY <2>1, Zenon DEF LeftQueuedOnlyAfterRetries
<1>2. CASE queue = {}
  <2>1. queue' = {}
    BY <1>2
  <2> QED BY <2>1, Zenon DEF LeftQueuedOnlyAfterRetries
<1>3. CASE faults >= 2 * Attempts
  <2>1. faults' >= 2 * Attempts
    BY <1>3, BoundsAssumption DEF TypeOK, StoreTypes
  <2> QED BY <2>1, Zenon DEF LeftQueuedOnlyAfterRetries
<1> QED BY <1>1, <1>2, <1>3, Zenon DEF LeftQueuedOnlyAfterRetries

(* A step leaves a queue only after all attempts.                            *)
LEMMA LeftQueuedStep ==
    TypeOK /\ Tally /\ OneDrainer /\ LeftQueuedOnlyAfterRetries /\ [Next]_vars
      => LeftQueuedOnlyAfterRetries'
<1> SUFFICES ASSUME TypeOK, Tally, OneDrainer, LeftQueuedOnlyAfterRetries, [Next]_vars
             PROVE  LeftQueuedOnlyAfterRetries'
  OBVIOUS
<1>u. TypeOK'
  BY TypeStep
<1>t. faults \in Nat /\ Attempts \in Nat \ {0}
  BY BoundsAssumption DEF TypeOK, StoreTypes
<1>1. CASE Prompt
  BY <1>1, <1>t, <1>u, QueueWaits DEF Prompt, Happens
<1>2. CASE Read
  BY <1>2, <1>t, <1>u, QueueWaits DEF Read
<1>3. CASE Step
  BY <1>3, <1>t, <1>u, QueueWaits DEF Step
<1>4. CASE StepEnds
  BY <1>4, <1>t, <1>u, QueueWaits DEF StepEnds, Happens
<1>5. CASE TurnEnds
  BY <1>5, <1>t, <1>u, QueueWaits DEF TurnEnds, EndTurn
<1>6. CASE Stop
  BY <1>6, <1>t, <1>u, QueueWaits DEF Stop, EndTurn, Happens
<1>7. CASE TurnFails
  BY <1>7, <1>t, <1>u, QueueWaits DEF TurnFails, EndTurn
<1>8. ASSUME NEW r \in Results, Post(r) PROVE LeftQueuedOnlyAfterRetries'
  <2>1. claimed' = TRUE
    BY <1>8 DEF Post
  <2> QED BY <2>1, Zenon DEF LeftQueuedOnlyAfterRetries
<1>9. ASSUME NEW f \in Fibers, Peek(f) PROVE LeftQueuedOnlyAfterRetries'
  BY <1>9, <1>t, <1>u, QueueWaits DEF Peek, Prepare, Become
<1>10. ASSUME NEW f \in Fibers, PeekNothing(f) PROVE LeftQueuedOnlyAfterRetries'
  <2>1. queue' = {}
    BY <1>10 DEF PeekNothing
  <2> QED BY <2>1, Zenon DEF LeftQueuedOnlyAfterRetries
<1>11. ASSUME NEW f \in Fibers, StandDown(f) PROVE LeftQueuedOnlyAfterRetries'
  BY <1>11 DEF StandDown, LeftQueuedOnlyAfterRetries, Tally
<1>12. ASSUME NEW f \in Fibers, Write(f) PROVE LeftQueuedOnlyAfterRetries'
  <2>1. queue' = queue /\ claimed' = claimed
    BY <1>12 DEF Write
  <2>2. faults' >= faults
    BY <1>12, <1>t, WriteCounts
  <2> QED BY <2>1, <2>2, <1>u, QueueWaits
<1>13. ASSUME NEW f \in Fibers, Join(f) PROVE LeftQueuedOnlyAfterRetries'
  BY <1>13, <1>t, <1>u, QueueWaits DEF Join, Become
<1>14. ASSUME NEW f \in Fibers, Landed(f) PROVE LeftQueuedOnlyAfterRetries'
  <2>1. pc[f] = "landed" /\ claimed' = claimed
    BY <1>14 DEF Landed
  <2>2. claimed
    BY <2>1, StageNames DEF OneDrainer, Drainers
  <2>3. claimed'
    BY <2>1, <2>2
  <2> QED BY <2>3, Zenon DEF LeftQueuedOnlyAfterRetries
<1>15. ASSUME NEW f \in Fibers, Failed(f) PROVE LeftQueuedOnlyAfterRetries'
  <2>1. pc[f] = "failed" /\ claimed' = claimed
    BY <1>15 DEF Failed
  <2>2. claimed
    BY <2>1, StageNames DEF OneDrainer, Drainers
  <2>3. claimed'
    BY <2>1, <2>2
  <2> QED BY <2>3, Zenon DEF LeftQueuedOnlyAfterRetries
<1>16. ASSUME NEW f \in Fibers, FallbackLands(f) PROVE LeftQueuedOnlyAfterRetries'
  <2>1. pc[f] = "fallback" /\ claimed' = claimed
    BY <1>16 DEF FallbackLands
  <2>2. claimed
    BY <2>1, StageNames DEF OneDrainer, Drainers
  <2>3. claimed'
    BY <2>1, <2>2
  <2> QED BY <2>3, Zenon DEF LeftQueuedOnlyAfterRetries
<1>17. ASSUME NEW f \in Fibers, FallbackFails(f) PROVE LeftQueuedOnlyAfterRetries'
  BY <1>17, <1>t, FallbackCounts, <1>u, QueueWaits DEF FallbackFails
<1>18. ASSUME NEW f \in Fibers, Retry(f) PROVE LeftQueuedOnlyAfterRetries'
  BY <1>18, <1>t, <1>u, QueueWaits DEF Retry, Prepare, Become
<1>19. ASSUME NEW f \in Fibers, SeesIdle(f) PROVE LeftQueuedOnlyAfterRetries'
  BY <1>19, <1>t, <1>u, QueueWaits DEF SeesIdle, Become
<1>20. ASSUME NEW f \in Fibers, GivesUp(f) PROVE LeftQueuedOnlyAfterRetries'
  BY <1>20, <1>t, <1>u, QueueWaits DEF GivesUp, Become
<1>21. ASSUME NEW f \in Fibers, Check(f) PROVE LeftQueuedOnlyAfterRetries'
  <2>1. CASE Consumed(f)
    BY <1>21, <2>1 DEF Check, LeftQueuedOnlyAfterRetries
  <2>2. CASE ~Consumed(f)
    <3>1. claimed' = TRUE
      BY <1>21, <2>2 DEF Check
    <3> QED BY <3>1, Zenon DEF LeftQueuedOnlyAfterRetries
  <2> QED BY <2>1, <2>2
<1>22. CASE UNCHANGED vars
  BY <1>22 DEF vars, LeftQueuedOnlyAfterRetries
<1> QED BY <1>1, <1>2, <1>3, <1>4, <1>5, <1>6, <1>7, <1>8, <1>9, <1>10, <1>11,
       <1>12, <1>13, <1>14, <1>15, <1>16, <1>17, <1>18, <1>19, <1>20, <1>21, <1>22
       DEF Next, System, Turn, Drain, Confirm

----------------------------------------------------------------------------
(* Messages: their ids and their writers *)

ByWriter(f, m) == m.id = msg[f] /\ m.items = batch[f] /\ m.busy = busy[f]

(* What a writer writes is its own.                                          *)
LEMMA MessageShape ==
    ASSUME NEW f, NEW whole
    PROVE  ByWriter(f, Message(f, whole)) /\ Message(f, whole).whole = whole
  BY DEF Message, ByWriter

(* A writer adds its own message or nothing.                                 *)
LEMMA WriterAdds ==
    ASSUME NEW f \in Fibers, Write(f) \/ FallbackLands(f) \/ FallbackFails(f)
    PROVE  stored \subseteq stored' /\ \A m \in stored' : m \in stored \/ ByWriter(f, m)
<1>1. stored' = stored \cup {Message(f, TRUE)}
      \/ \E kind \in FaultKinds : stored' = stored \cup Left(f, kind)
  BY DEF Write, FallbackLands, FallbackFails
<1>2. \A kind \in FaultKinds : \A m \in Left(f, kind) : ByWriter(f, m)
  BY MessageShape DEF Left
<1> QED BY <1>1, <1>2, MessageShape, Zenon

(* A user's message holds no results and has a new id.                       *)
LEMMA UserMessageShape == UserMessage.id = nextId /\ UserMessage.items = {}
  BY DEF UserMessage

(* A step gives out new ids only.                                            *)
LEMMA NumberedStep == TypeOK /\ Numbered /\ [Next]_vars => Numbered'
<1> SUFFICES ASSUME TypeOK, Numbered, [Next]_vars PROVE Numbered'
  OBVIOUS
<1>t. /\ msg \in [Fibers -> Nat] /\ nextId \in Nat /\ lastAsst \in Nat
      /\ \A m \in stored : m.id \in Nat
  BY DEF TypeOK, FiberTypes, StoreTypes, Messages
<1> USE <1>t
<1>1. CASE Prompt
  BY <1>1, UserMessageShape DEF Prompt, Happens, fiberVars, turnVars, Numbered, ByWriter
<1>2. CASE Read
  BY <1>2 DEF Read, fiberVars, turnVars, Numbered, ByWriter
<1>3. CASE Step
  BY <1>3 DEF Step, fiberVars, turnVars, Numbered, ByWriter
<1>4. CASE StepEnds
  BY <1>4 DEF StepEnds, Happens, fiberVars, turnVars, Numbered, ByWriter
<1>5. CASE TurnEnds
  BY <1>5 DEF TurnEnds, EndTurn, fiberVars, turnVars, Numbered, ByWriter
<1>6. CASE Stop
  BY <1>6 DEF Stop, EndTurn, Happens, fiberVars, turnVars, Numbered, ByWriter
<1>7. CASE TurnFails
  BY <1>7 DEF TurnFails, EndTurn, fiberVars, turnVars, Numbered, ByWriter
<1>8. ASSUME NEW r \in Results, Post(r) PROVE Numbered'
  BY <1>8 DEF Post, Become, fiberVars, turnVars, Numbered, ByWriter
<1>9. ASSUME NEW f \in Fibers, Peek(f) PROVE Numbered'
  BY <1>9 DEF Peek, Prepare, Become, fiberVars, turnVars, Numbered, ByWriter
<1>10. ASSUME NEW f \in Fibers, PeekNothing(f) PROVE Numbered'
  BY <1>10 DEF PeekNothing, Release, Become, fiberVars, turnVars, Numbered, ByWriter
<1>11. ASSUME NEW f \in Fibers, StandDown(f) PROVE Numbered'
  BY <1>11 DEF StandDown, Release, Become, fiberVars, turnVars, Numbered, ByWriter
<1>12. ASSUME NEW f \in Fibers, Write(f) PROVE Numbered'
  <2>1. CASE stored' = stored \cup {Message(f, TRUE)} /\ Become(f, "join")
    BY <1>12, <2>1, WriterAdds DEF Write, Become, fiberVars, turnVars, Numbered, ByWriter
  <2>2. CASE Become(f, "failed")
    BY <1>12, <2>2, WriterAdds DEF Write, Become, fiberVars, turnVars, Numbered, ByWriter
  <2> QED BY <1>12, <2>1, <2>2 DEF Write
<1>13. ASSUME NEW f \in Fibers, Join(f) PROVE Numbered'
  BY <1>13 DEF Join, Become, fiberVars, turnVars, Numbered, ByWriter
<1>14. ASSUME NEW f \in Fibers, Landed(f) PROVE Numbered'
  <2>1. CASE Confirms(f)
    <3>0. PICK i \in batch[f] :
             /\ pc[f] = "landed" /\ pc[<< "confirm", i.of >>] \in {"off", "done"}
             /\ pc' = [pc EXCEPT ![f] = "peek", ![<< "confirm", i.of >>] = "poll"]
             /\ batch' = [batch EXCEPT ![f] = {}, ![<< "confirm", i.of >>] = batch[f]]
             /\ msg' = [msg EXCEPT ![f] = 0, ![<< "confirm", i.of >>] = msg[f]]
      BY <1>14, <2>1 DEF Landed
    <3>1. UNCHANGED << stored, nextId, lastAsst >>
      BY <1>14, <2>1 DEF Landed, Become, Drop, fiberVars, turnVars
    <3> QED BY <3>0, ItemType, FiberIds, <1>t, <3>1 DEF Numbered, ByWriter
  <2>2. CASE ~Confirms(f)
    BY <1>14, <2>2 DEF Landed, Become, Drop, fiberVars, turnVars, Numbered, ByWriter
  <2> QED BY <2>1, <2>2
<1>15. ASSUME NEW f \in Fibers, Failed(f) PROVE Numbered'
  <2>1. CASE Injected(f)
    BY <1>15, <2>1 DEF Failed, Settled, Become, Drop, fiberVars, turnVars, Numbered,
       ByWriter
  <2>2. CASE ~Injected(f)
    BY <1>15, <2>2 DEF Failed, Settled, Become, Drop, fiberVars, turnVars, Numbered,
       ByWriter
  <2> QED BY <2>1, <2>2
<1>16. ASSUME NEW f \in Fibers, FallbackLands(f) PROVE Numbered'
  <2>1. msg' = [msg EXCEPT ![f] = 0]
    BY <1>16, WriterAdds DEF FallbackLands, Settled, Become, Drop, fiberVars, turnVars
  <2>2. stored \subseteq stored' /\ \A n \in stored' : n \in stored \/ ByWriter(f, n)
    BY <1>16, WriterAdds DEF FallbackLands, Settled, Become, Drop, fiberVars, turnVars
  <2>3. UNCHANGED << nextId, lastAsst >>
    BY <1>16, WriterAdds DEF FallbackLands, Settled, Become, Drop, fiberVars, turnVars
  <2> QED BY <2>1, <2>2, <2>3 DEF Numbered, ByWriter
<1>17. ASSUME NEW f \in Fibers, FallbackFails(f) PROVE Numbered'
  BY <1>17, WriterAdds DEF FallbackFails, Become, fiberVars, turnVars, Numbered, ByWriter
<1>18. ASSUME NEW f \in Fibers, Retry(f) PROVE Numbered'
  BY <1>18 DEF Retry, Prepare, Become, fiberVars, turnVars, Numbered, ByWriter
<1>19. ASSUME NEW f \in Fibers, SeesIdle(f) PROVE Numbered'
  BY <1>19 DEF SeesIdle, Become, fiberVars, turnVars, Numbered, ByWriter
<1>20. ASSUME NEW f \in Fibers, GivesUp(f) PROVE Numbered'
  BY <1>20 DEF GivesUp, Become, fiberVars, turnVars, Numbered, ByWriter
<1>21. ASSUME NEW f \in Fibers, Check(f) PROVE Numbered'
  <2>1. CASE Consumed(f)
    BY <1>21, <2>1 DEF Check, Become, fiberVars, turnVars, Numbered, ByWriter
  <2>2. CASE ~Consumed(f)
    BY <1>21, <2>2 DEF Check, Become, fiberVars, turnVars, Numbered, ByWriter
  <2> QED BY <2>1, <2>2
<1>22. CASE UNCHANGED vars
  BY <1>22 DEF vars, fiberVars, turnVars, Numbered
<1> QED BY <1>1, <1>2, <1>3, <1>4, <1>5, <1>6, <1>7, <1>8, <1>9, <1>10, <1>11,
       <1>12, <1>13, <1>14, <1>15, <1>16, <1>17, <1>18, <1>19, <1>20, <1>21, <1>22
       DEF Next, System, Turn, Drain, Confirm

(* A step keeps the writer's batch and the store's message alike.            *)
LEMMA OwnStep == TypeOK /\ Numbered /\ OneDrainer /\ Own /\ [Next]_vars => Own'
<1> SUFFICES ASSUME TypeOK, Numbered, OneDrainer, Own, [Next]_vars PROVE Own'
  OBVIOUS
<1>t. /\ pc \in [Fibers -> Stages] /\ batch \in [Fibers -> SUBSET Items]
      /\ msg \in [Fibers -> Nat] /\ nextId \in Nat /\ lastAsst \in Nat
      /\ \A m \in stored : m.id \in Nat
  BY DEF TypeOK, FiberTypes, StoreTypes, Messages
<1>b. busy \in [Fibers -> BOOLEAN]
  BY DEF TypeOK, FlagTypes
<1>w. /\ Working = {"write", "join", "turn", "landed", "failed", "fallback", "retry", "standdown"}
      /\ Working \subseteq Draining
  BY StageNames DEF Working
<1>n. /\ \A m \in stored : m.id < nextId
      /\ \A g \in Fibers : msg[g] < nextId
  BY DEF Numbered
<1>a. \A f, g \in Fibers : pc[f] \in Draining /\ pc[g] \in Draining => f = g
  BY DEF OneDrainer, Drainers
<1>1. CASE Prompt
  BY <1>1, <1>t, <1>w, UserMessageShape, <1>n DEF Prompt, Happens, fiberVars, turnVars, Own,
     ByWriter
<1>2. CASE Read
  BY <1>2, <1>t, <1>w DEF Read, fiberVars, turnVars, Own, ByWriter
<1>3. CASE Step
  BY <1>3, <1>t, <1>w DEF Step, fiberVars, turnVars, Own, ByWriter
<1>4. CASE StepEnds
  BY <1>4, <1>t, <1>w DEF StepEnds, Happens, fiberVars, turnVars, Own, ByWriter
<1>5. CASE TurnEnds
  BY <1>5, <1>t, <1>w, AnswerMoves DEF TurnEnds, EndTurn, fiberVars, turnVars, Own, ByWriter
<1>6. CASE Stop
  BY <1>6, <1>t, <1>w, AnswerMoves DEF Stop, EndTurn, Happens, fiberVars, turnVars, Own,
     ByWriter
<1>7. CASE TurnFails
  BY <1>7, <1>t, <1>w, AnswerMoves DEF TurnFails, EndTurn, fiberVars, turnVars, Own,
     ByWriter
<1>8. ASSUME NEW r \in Results, Post(r) PROVE Own'
  BY <1>8, <1>t, <1>w, FiberIds DEF Post, Become, fiberVars, turnVars, Own, ByWriter
<1>9. ASSUME NEW f \in Fibers, Peek(f) PROVE Own'
  BY <1>9, <1>t, <1>w, <1>n DEF Peek, Prepare, Become, fiberVars, turnVars, Own, ByWriter
<1>10. ASSUME NEW f \in Fibers, PeekNothing(f) PROVE Own'
  BY <1>10, <1>t, <1>w DEF PeekNothing, Release, Become, fiberVars, turnVars, Own, ByWriter
<1>11. ASSUME NEW f \in Fibers, StandDown(f) PROVE Own'
  BY <1>11, <1>t, <1>w DEF StandDown, Release, Become, fiberVars, turnVars, Own, ByWriter
<1>12. ASSUME NEW f \in Fibers, Write(f) PROVE Own'
  <2>1. CASE stored' = stored \cup {Message(f, TRUE)} /\ Become(f, "join")
    <3>1. pc[f] = "write" /\ pc' = [pc EXCEPT ![f] = "join"] /\ Message(f, TRUE) \in stored'
      BY <1>12, <2>1, WriterAdds DEF Write, Become, fiberVars, turnVars
    <3>2. stored \subseteq stored' /\ \A n \in stored' : n \in stored \/ ByWriter(f, n)
      BY <1>12, <2>1, WriterAdds DEF Write, Become, fiberVars, turnVars
    <3>3. UNCHANGED << batch, msg, busy, nextId >>
      BY <1>12, <2>1, WriterAdds DEF Write, Become, fiberVars, turnVars
    <3> QED BY <3>1, <3>2, <3>3, <1>t, <1>w, <1>a, StageNames DEF Own, ByWriter
  <2>2. CASE Become(f, "failed")
    <3>1. pc[f] = "write" /\ pc' = [pc EXCEPT ![f] = "failed"]
      BY <1>12, <2>2, WriterAdds DEF Write, Become, fiberVars, turnVars
    <3>2. stored \subseteq stored' /\ \A n \in stored' : n \in stored \/ ByWriter(f, n)
      BY <1>12, <2>2, WriterAdds DEF Write, Become, fiberVars, turnVars
    <3>3. UNCHANGED << batch, msg, busy, nextId >>
      BY <1>12, <2>2, WriterAdds DEF Write, Become, fiberVars, turnVars
    <3> QED BY <3>1, <3>2, <3>3, <1>t, <1>w, <1>a, StageNames DEF Own, ByWriter
  <2> QED BY <1>12, <2>1, <2>2 DEF Write
<1>13. ASSUME NEW f \in Fibers, Join(f) PROVE Own'
  BY <1>13, <1>t, <1>w DEF Join, Become, fiberVars, turnVars, Own, ByWriter
<1>14. ASSUME NEW f \in Fibers, Landed(f) PROVE Own'
  <2>1. CASE Confirms(f)
    <3>0. PICK i \in batch[f] :
             /\ pc[f] = "landed" /\ pc[<< "confirm", i.of >>] \in {"off", "done"}
             /\ pc' = [pc EXCEPT ![f] = "peek", ![<< "confirm", i.of >>] = "poll"]
             /\ batch' = [batch EXCEPT ![f] = {}, ![<< "confirm", i.of >>] = batch[f]]
             /\ msg' = [msg EXCEPT ![f] = 0, ![<< "confirm", i.of >>] = msg[f]]
      BY <1>14, <2>1 DEF Landed
    <3>1. busy' = [busy EXCEPT ![f] = FALSE]
      BY <1>14, <2>1 DEF Landed, Become, Drop, fiberVars, turnVars
    <3>2. UNCHANGED << stored, nextId >>
      BY <1>14, <2>1 DEF Landed, Become, Drop, fiberVars, turnVars
    <3>9. \A g \in Fibers : g # f => busy'[g] = busy[g]
      BY <3>1, <1>b
    <3> QED BY <3>0, <3>9, <3>2, <1>t, <1>w, ItemType, FiberIds DEF Own, ByWriter
  <2>2. CASE ~Confirms(f)
    <3>1. pc[f] = "landed" /\ pc' = [pc EXCEPT ![f] = "peek"]
      BY <1>14, <2>2 DEF Landed, Become, Drop, fiberVars, turnVars
    <3>2. batch' = [batch EXCEPT ![f] = {}]
      BY <1>14, <2>2 DEF Landed, Become, Drop, fiberVars, turnVars
    <3>3. msg' = [msg EXCEPT ![f] = 0]
      BY <1>14, <2>2 DEF Landed, Become, Drop, fiberVars, turnVars
    <3>4. busy' = [busy EXCEPT ![f] = FALSE]
      BY <1>14, <2>2 DEF Landed, Become, Drop, fiberVars, turnVars
    <3>5. UNCHANGED << stored, nextId >>
      BY <1>14, <2>2 DEF Landed, Become, Drop, fiberVars, turnVars
    <3>9. \A g \in Fibers : g # f => busy'[g] = busy[g]
      BY <3>4, <1>b
    <3> QED BY <3>1, <3>2, <3>3, <3>9, <3>5, <1>t, <1>w, ItemType, FiberIds DEF Own, ByWriter
  <2> QED BY <2>1, <2>2
<1>15. ASSUME NEW f \in Fibers, Failed(f) PROVE Own'
  <2>1. CASE Injected(f)
    BY <1>15, <2>1, <1>b, <1>t, <1>w DEF Failed, Settled, Become, Drop, fiberVars, turnVars,
       Own, ByWriter
  <2>2. CASE ~Injected(f)
    BY <1>15, <2>2, <1>t, <1>w, <1>n DEF Failed, Settled, Become, Drop, fiberVars, turnVars,
       Own, ByWriter
  <2> QED BY <2>1, <2>2
<1>16. ASSUME NEW f \in Fibers, FallbackLands(f) PROVE Own'
  BY <1>16, WriterAdds, <1>t, <1>w, <1>a, StageNames DEF FallbackLands, Settled, Become,
     Drop, fiberVars, turnVars, Own, ByWriter
<1>17. ASSUME NEW f \in Fibers, FallbackFails(f) PROVE Own'
  <2>1. pc[f] = "fallback" /\ \E s \in {"retry", "standdown"} : pc' = [pc EXCEPT ![f] = s]
    BY <1>17, WriterAdds DEF FallbackFails, Become, fiberVars, turnVars
  <2>2. stored \subseteq stored' /\ \A n \in stored' : n \in stored \/ ByWriter(f, n)
    BY <1>17, WriterAdds DEF FallbackFails, Become, fiberVars, turnVars
  <2>3. UNCHANGED << batch, msg, busy, nextId >>
    BY <1>17, WriterAdds DEF FallbackFails, Become, fiberVars, turnVars
  <2> QED BY <2>1, <2>2, <2>3, <1>t, <1>w, <1>a, StageNames DEF Own, ByWriter
<1>18. ASSUME NEW f \in Fibers, Retry(f) PROVE Own'
  BY <1>18, <1>t, <1>w, <1>n DEF Retry, Prepare, Become, fiberVars, turnVars, Own, ByWriter
<1>19. ASSUME NEW f \in Fibers, SeesIdle(f) PROVE Own'
  BY <1>19, <1>t, <1>w DEF SeesIdle, Become, fiberVars, turnVars, Own, ByWriter
<1>20. ASSUME NEW f \in Fibers, GivesUp(f) PROVE Own'
  BY <1>20, <1>t, <1>w DEF GivesUp, Become, fiberVars, turnVars, Own, ByWriter
<1>21. ASSUME NEW f \in Fibers, Check(f) PROVE Own'
  <2>1. CASE Consumed(f)
    BY <1>21, <2>1, <1>t, <1>w DEF Check, Become, fiberVars, turnVars, Own, ByWriter
  <2>2. CASE ~Consumed(f)
    BY <1>21, <2>2, <1>t, <1>w DEF Check, Become, fiberVars, turnVars, Own, ByWriter
  <2> QED BY <2>1, <2>2
<1>22. CASE UNCHANGED vars
  BY <1>22 DEF vars, fiberVars, turnVars, Own
<1> QED BY <1>1, <1>2, <1>3, <1>4, <1>5, <1>6, <1>7, <1>8, <1>9, <1>10, <1>11,
       <1>12, <1>13, <1>14, <1>15, <1>16, <1>17, <1>18, <1>19, <1>20, <1>21, <1>22
       DEF Next, System, Turn, Drain, Confirm

(* A step keeps the writer's message the newest with results.                *)
LEMMA NewestStep == TypeOK /\ Numbered /\ OneDrainer /\ Newest /\ [Next]_vars => Newest'
<1> SUFFICES ASSUME TypeOK, Numbered, OneDrainer, Newest, [Next]_vars PROVE Newest'
  OBVIOUS
<1>t. /\ pc \in [Fibers -> Stages] /\ batch \in [Fibers -> SUBSET Items]
      /\ msg \in [Fibers -> Nat] /\ nextId \in Nat /\ lastAsst \in Nat
      /\ \A m \in stored : m.id \in Nat
  BY DEF TypeOK, FiberTypes, StoreTypes, Messages
<1>b. busy \in [Fibers -> BOOLEAN]
  BY DEF TypeOK, FlagTypes
<1>w. /\ Working = {"write", "join", "turn", "landed", "failed", "fallback", "retry", "standdown"}
      /\ Working \subseteq Draining
  BY StageNames DEF Working
<1>n. /\ \A m \in stored : m.id < nextId
      /\ \A g \in Fibers : msg[g] < nextId
  BY DEF Numbered
<1>a. \A f, g \in Fibers : pc[f] \in Draining /\ pc[g] \in Draining => f = g
  BY DEF OneDrainer, Drainers
<1>1. CASE Prompt
  BY <1>1, <1>t, <1>w, UserMessageShape, <1>n DEF Prompt, Happens, fiberVars, turnVars,
     Newest, ByWriter
<1>2. CASE Read
  BY <1>2, <1>t, <1>w DEF Read, fiberVars, turnVars, Newest, ByWriter
<1>3. CASE Step
  BY <1>3, <1>t, <1>w DEF Step, fiberVars, turnVars, Newest, ByWriter
<1>4. CASE StepEnds
  BY <1>4, <1>t, <1>w DEF StepEnds, Happens, fiberVars, turnVars, Newest, ByWriter
<1>5. CASE TurnEnds
  BY <1>5, <1>t, <1>w, AnswerMoves DEF TurnEnds, EndTurn, fiberVars, turnVars, Newest,
     ByWriter
<1>6. CASE Stop
  BY <1>6, <1>t, <1>w, AnswerMoves DEF Stop, EndTurn, Happens, fiberVars, turnVars, Newest,
     ByWriter
<1>7. CASE TurnFails
  BY <1>7, <1>t, <1>w, AnswerMoves DEF TurnFails, EndTurn, fiberVars, turnVars, Newest,
     ByWriter
<1>8. ASSUME NEW r \in Results, Post(r) PROVE Newest'
  BY <1>8, <1>t, <1>w, FiberIds DEF Post, Become, fiberVars, turnVars, Newest, ByWriter
<1>9. ASSUME NEW f \in Fibers, Peek(f) PROVE Newest'
  BY <1>9, <1>t, <1>w, <1>n DEF Peek, Prepare, Become, fiberVars, turnVars, Newest, ByWriter
<1>10. ASSUME NEW f \in Fibers, PeekNothing(f) PROVE Newest'
  BY <1>10, <1>t, <1>w DEF PeekNothing, Release, Become, fiberVars, turnVars, Newest,
     ByWriter
<1>11. ASSUME NEW f \in Fibers, StandDown(f) PROVE Newest'
  BY <1>11, <1>t, <1>w DEF StandDown, Release, Become, fiberVars, turnVars, Newest, ByWriter
<1>12. ASSUME NEW f \in Fibers, Write(f) PROVE Newest'
  <2>1. CASE stored' = stored \cup {Message(f, TRUE)} /\ Become(f, "join")
    <3>1. pc[f] = "write" /\ pc' = [pc EXCEPT ![f] = "join"] /\ Message(f, TRUE) \in stored'
      BY <1>12, <2>1, WriterAdds DEF Write, Become, fiberVars, turnVars
    <3>2. stored \subseteq stored' /\ \A n \in stored' : n \in stored \/ ByWriter(f, n)
      BY <1>12, <2>1, WriterAdds DEF Write, Become, fiberVars, turnVars
    <3>3. UNCHANGED << batch, msg, nextId >>
      BY <1>12, <2>1, WriterAdds DEF Write, Become, fiberVars, turnVars
    <3> QED BY <3>1, <3>2, <3>3, <1>t, <1>w, <1>a, StageNames DEF Newest, ByWriter
  <2>2. CASE Become(f, "failed")
    <3>1. pc[f] = "write" /\ pc' = [pc EXCEPT ![f] = "failed"]
      BY <1>12, <2>2, WriterAdds DEF Write, Become, fiberVars, turnVars
    <3>2. stored \subseteq stored' /\ \A n \in stored' : n \in stored \/ ByWriter(f, n)
      BY <1>12, <2>2, WriterAdds DEF Write, Become, fiberVars, turnVars
    <3>3. UNCHANGED << batch, msg, nextId >>
      BY <1>12, <2>2, WriterAdds DEF Write, Become, fiberVars, turnVars
    <3> QED BY <3>1, <3>2, <3>3, <1>t, <1>w, <1>a, StageNames DEF Newest, ByWriter
  <2> QED BY <1>12, <2>1, <2>2 DEF Write
<1>13. ASSUME NEW f \in Fibers, Join(f) PROVE Newest'
  BY <1>13, <1>t, <1>w DEF Join, Become, fiberVars, turnVars, Newest, ByWriter
<1>14. ASSUME NEW f \in Fibers, Landed(f) PROVE Newest'
  <2>1. CASE Confirms(f)
    <3>0. PICK i \in batch[f] :
             /\ pc[f] = "landed" /\ pc[<< "confirm", i.of >>] \in {"off", "done"}
             /\ pc' = [pc EXCEPT ![f] = "peek", ![<< "confirm", i.of >>] = "poll"]
             /\ batch' = [batch EXCEPT ![f] = {}, ![<< "confirm", i.of >>] = batch[f]]
             /\ msg' = [msg EXCEPT ![f] = 0, ![<< "confirm", i.of >>] = msg[f]]
      BY <1>14, <2>1 DEF Landed
    <3>1. UNCHANGED << stored, nextId >>
      BY <1>14, <2>1 DEF Landed, Become, Drop, fiberVars, turnVars
    <3> QED BY <3>0, <3>1, <1>t, <1>w, ItemType, FiberIds DEF Newest, ByWriter
  <2>2. CASE ~Confirms(f)
    BY <1>14, <2>2, <1>t, <1>w, ItemType, FiberIds DEF Landed, Become, Drop, fiberVars,
       turnVars, Newest, ByWriter
  <2> QED BY <2>1, <2>2
<1>15. ASSUME NEW f \in Fibers, Failed(f) PROVE Newest'
  <2>1. CASE Injected(f)
    BY <1>15, <2>1, <1>t, <1>w DEF Failed, Settled, Become, Drop, fiberVars, turnVars,
       Newest, ByWriter
  <2>2. CASE ~Injected(f)
    BY <1>15, <2>2, <1>t, <1>w, <1>n DEF Failed, Settled, Become, Drop, fiberVars, turnVars,
       Newest, ByWriter
  <2> QED BY <2>1, <2>2
<1>16. ASSUME NEW f \in Fibers, FallbackLands(f) PROVE Newest'
  BY <1>16, WriterAdds, <1>t, <1>w, <1>a, StageNames DEF FallbackLands, Settled, Become,
     Drop, fiberVars, turnVars, Newest, ByWriter
<1>17. ASSUME NEW f \in Fibers, FallbackFails(f) PROVE Newest'
  <2>1. pc[f] = "fallback" /\ \E s \in {"retry", "standdown"} : pc' = [pc EXCEPT ![f] = s]
    BY <1>17, WriterAdds DEF FallbackFails, Become, fiberVars, turnVars
  <2>2. stored \subseteq stored' /\ \A n \in stored' : n \in stored \/ ByWriter(f, n)
    BY <1>17, WriterAdds DEF FallbackFails, Become, fiberVars, turnVars
  <2>3. UNCHANGED << batch, msg, nextId >>
    BY <1>17, WriterAdds DEF FallbackFails, Become, fiberVars, turnVars
  <2> QED BY <2>1, <2>2, <2>3, <1>t, <1>w, <1>a, StageNames DEF Newest, ByWriter
<1>18. ASSUME NEW f \in Fibers, Retry(f) PROVE Newest'
  BY <1>18, <1>t, <1>w, <1>n DEF Retry, Prepare, Become, fiberVars, turnVars, Newest,
     ByWriter
<1>19. ASSUME NEW f \in Fibers, SeesIdle(f) PROVE Newest'
  BY <1>19, <1>t, <1>w DEF SeesIdle, Become, fiberVars, turnVars, Newest, ByWriter
<1>20. ASSUME NEW f \in Fibers, GivesUp(f) PROVE Newest'
  BY <1>20, <1>t, <1>w DEF GivesUp, Become, fiberVars, turnVars, Newest, ByWriter
<1>21. ASSUME NEW f \in Fibers, Check(f) PROVE Newest'
  <2>1. CASE Consumed(f)
    BY <1>21, <2>1, <1>t, <1>w DEF Check, Become, fiberVars, turnVars, Newest, ByWriter
  <2>2. CASE ~Consumed(f)
    BY <1>21, <2>2, <1>t, <1>w DEF Check, Become, fiberVars, turnVars, Newest, ByWriter
  <2> QED BY <2>1, <2>2
<1>22. CASE UNCHANGED vars
  BY <1>22 DEF vars, fiberVars, turnVars, Newest
<1> QED BY <1>1, <1>2, <1>3, <1>4, <1>5, <1>6, <1>7, <1>8, <1>9, <1>10, <1>11,
       <1>12, <1>13, <1>14, <1>15, <1>16, <1>17, <1>18, <1>19, <1>20, <1>21, <1>22
       DEF Next, System, Turn, Drain, Confirm

(* A writer's message, once written, is in the store.                        *)
LEMMA ThereStep == TypeOK /\ There /\ [Next]_vars => There'
<1> SUFFICES ASSUME TypeOK, There, [Next]_vars PROVE There'
  OBVIOUS
<1>t. /\ pc \in [Fibers -> Stages] /\ batch \in [Fibers -> SUBSET Items]
      /\ msg \in [Fibers -> Nat] /\ nextId \in Nat /\ lastAsst \in Nat
  BY DEF TypeOK, FiberTypes, StoreTypes
<1>m. \A g \in Fibers : Message(g, TRUE).id = msg[g]
  BY MessageShape DEF ByWriter
<1>1. CASE Prompt
  BY <1>1, <1>t DEF Prompt, Happens, fiberVars, turnVars, There, Written, Ids
<1>2. CASE Read
  BY <1>2, <1>t DEF Read, fiberVars, turnVars, There, Written, Ids
<1>3. CASE Step
  BY <1>3, <1>t DEF Step, fiberVars, turnVars, There, Written, Ids
<1>4. CASE StepEnds
  BY <1>4, <1>t DEF StepEnds, Happens, fiberVars, turnVars, There, Written, Ids
<1>5. CASE TurnEnds
  BY <1>5, <1>t, AnswerMoves DEF TurnEnds, EndTurn, fiberVars, turnVars, There, Written, Ids
<1>6. CASE Stop
  BY <1>6, <1>t, AnswerMoves DEF Stop, EndTurn, Happens, fiberVars, turnVars, There,
     Written, Ids
<1>7. CASE TurnFails
  BY <1>7, <1>t, AnswerMoves DEF TurnFails, EndTurn, fiberVars, turnVars, There, Written,
     Ids
<1>8. ASSUME NEW r \in Results, Post(r) PROVE There'
  BY <1>8, <1>t, FiberIds DEF Post, Become, fiberVars, turnVars, There, Written, Ids
<1>9. ASSUME NEW f \in Fibers, Peek(f) PROVE There'
  BY <1>9, <1>t DEF Peek, Prepare, Become, fiberVars, turnVars, There, Written, Ids
<1>10. ASSUME NEW f \in Fibers, PeekNothing(f) PROVE There'
  BY <1>10, <1>t DEF PeekNothing, Release, Become, fiberVars, turnVars, There, Written, Ids
<1>11. ASSUME NEW f \in Fibers, StandDown(f) PROVE There'
  BY <1>11, <1>t DEF StandDown, Release, Become, fiberVars, turnVars, There, Written, Ids
<1>12. ASSUME NEW f \in Fibers, Write(f) PROVE There'
  <2>1. CASE stored' = stored \cup {Message(f, TRUE)} /\ Become(f, "join")
    BY <1>12, <2>1, WriterAdds, <1>t, <1>m DEF Write, Become, fiberVars, turnVars, There,
       Written, Ids
  <2>2. CASE Become(f, "failed")
    BY <1>12, <2>2, WriterAdds, <1>t, <1>m DEF Write, Become, fiberVars, turnVars, There,
       Written, Ids
  <2> QED BY <1>12, <2>1, <2>2 DEF Write
<1>13. ASSUME NEW f \in Fibers, Join(f) PROVE There'
  BY <1>13, <1>t DEF Join, Become, fiberVars, turnVars, There, Written, Ids
<1>14. ASSUME NEW f \in Fibers, Landed(f) PROVE There'
  <2>1. CASE Confirms(f)
    <3>0. PICK i \in batch[f] :
             /\ pc[f] = "landed" /\ pc[<< "confirm", i.of >>] \in {"off", "done"}
             /\ pc' = [pc EXCEPT ![f] = "peek", ![<< "confirm", i.of >>] = "poll"]
             /\ batch' = [batch EXCEPT ![f] = {}, ![<< "confirm", i.of >>] = batch[f]]
             /\ msg' = [msg EXCEPT ![f] = 0, ![<< "confirm", i.of >>] = msg[f]]
      BY <1>14, <2>1 DEF Landed
    <3>1. UNCHANGED << stored >>
      BY <1>14, <2>1 DEF Landed, Become, Drop, fiberVars, turnVars
    <3> QED BY <3>0, <3>1, <1>t, ItemType, FiberIds DEF There, Written, Ids
  <2>2. CASE ~Confirms(f)
    BY <1>14, <2>2, <1>t, ItemType, FiberIds DEF Landed, Become, Drop, fiberVars, turnVars,
       There, Written, Ids
  <2> QED BY <2>1, <2>2
<1>15. ASSUME NEW f \in Fibers, Failed(f) PROVE There'
  <2>1. CASE Injected(f)
    BY <1>15, <2>1, <1>t DEF Failed, Settled, Become, Drop, fiberVars, turnVars, There,
       Written, Ids
  <2>2. CASE ~Injected(f)
    BY <1>15, <2>2, <1>t DEF Failed, Settled, Become, Drop, fiberVars, turnVars, There,
       Written, Ids
  <2> QED BY <2>1, <2>2
<1>16. ASSUME NEW f \in Fibers, FallbackLands(f) PROVE There'
  BY <1>16, WriterAdds, <1>t DEF FallbackLands, Settled, Become, Drop, fiberVars, turnVars,
     There, Written, Ids
<1>17. ASSUME NEW f \in Fibers, FallbackFails(f) PROVE There'
  BY <1>17, WriterAdds, <1>t DEF FallbackFails, Become, fiberVars, turnVars, There, Written,
     Ids
<1>18. ASSUME NEW f \in Fibers, Retry(f) PROVE There'
  BY <1>18, <1>t DEF Retry, Prepare, Become, fiberVars, turnVars, There, Written, Ids
<1>19. ASSUME NEW f \in Fibers, SeesIdle(f) PROVE There'
  BY <1>19, <1>t DEF SeesIdle, Become, fiberVars, turnVars, There, Written, Ids
<1>20. ASSUME NEW f \in Fibers, GivesUp(f) PROVE There'
  BY <1>20, <1>t DEF GivesUp, Become, fiberVars, turnVars, There, Written, Ids
<1>21. ASSUME NEW f \in Fibers, Check(f) PROVE There'
  <2>1. CASE Consumed(f)
    BY <1>21, <2>1, <1>t DEF Check, Become, fiberVars, turnVars, There, Written, Ids
  <2>2. CASE ~Consumed(f)
    BY <1>21, <2>2, <1>t DEF Check, Become, fiberVars, turnVars, There, Written, Ids
  <2> QED BY <2>1, <2>2
<1>22. CASE UNCHANGED vars
  BY <1>22 DEF vars, fiberVars, turnVars, There, Written, Ids
<1> QED BY <1>1, <1>2, <1>3, <1>4, <1>5, <1>6, <1>7, <1>8, <1>9, <1>10, <1>11,
       <1>12, <1>13, <1>14, <1>15, <1>16, <1>17, <1>18, <1>19, <1>20, <1>21, <1>22
       DEF Next, System, Turn, Drain, Confirm

(* No write leaves half a message.                                          *)
NoHalfWrites == "part" \notin FaultKinds

(* What a failed write leaves is whole.                                      *)
LEMMA LeftIsWhole ==
    ASSUME NoHalfWrites
    PROVE  \A f \in Fibers : \A kind \in FaultKinds : \A m \in Left(f, kind) : m.whole
<1> SUFFICES ASSUME NEW f \in Fibers, NEW kind \in FaultKinds, NEW m \in Left(f, kind)
             PROVE  m.whole
  OBVIOUS
<1>1. kind = "none" \/ kind = "late"
  BY BoundsAssumption DEF NoHalfWrites
<1>2. CASE kind = "none"
  BY <1>2 DEF Left
<1>3. CASE kind = "late"
  <2>1. m = Message(f, kind = "late")
    BY <1>3 DEF Left
  <2>2. Message(f, kind = "late").whole = (kind = "late")
    BY MessageShape
  <2> QED BY <1>3, <2>1, <2>2, Zenon
<1> QED BY <1>1, <1>2, <1>3

(* A step leaves whole messages only.                                        *)
LEMMA AllWholeStep == NoHalfWrites /\ AllWhole /\ [Next]_vars => AllWhole'
<1> SUFFICES ASSUME NoHalfWrites, AllWhole, [Next]_vars PROVE AllWhole'
  OBVIOUS
<1>u. UserMessage.whole
  BY DEF UserMessage
<1>1. CASE Prompt
  <2>1. stored' = stored \cup {UserMessage}
    BY <1>1 DEF Prompt, Happens, fiberVars, turnVars
  <2> QED BY <2>1, <1>u, Zenon DEF AllWhole
<1>2. CASE Read
  BY <1>2 DEF Read, fiberVars, turnVars, AllWhole
<1>3. CASE Step
  BY <1>3 DEF Step, fiberVars, turnVars, AllWhole
<1>4. CASE StepEnds
  BY <1>4 DEF StepEnds, Happens, fiberVars, turnVars, AllWhole
<1>5. CASE TurnEnds
  BY <1>5 DEF TurnEnds, EndTurn, fiberVars, turnVars, AllWhole
<1>6. CASE Stop
  BY <1>6 DEF Stop, EndTurn, Happens, fiberVars, turnVars, AllWhole
<1>7. CASE TurnFails
  BY <1>7 DEF TurnFails, EndTurn, fiberVars, turnVars, AllWhole
<1>8. ASSUME NEW r \in Results, Post(r) PROVE AllWhole'
  BY <1>8 DEF Post, Become, fiberVars, turnVars, AllWhole
<1>9. ASSUME NEW f \in Fibers, Peek(f) PROVE AllWhole'
  BY <1>9 DEF Peek, Prepare, Become, fiberVars, turnVars, AllWhole
<1>10. ASSUME NEW f \in Fibers, PeekNothing(f) PROVE AllWhole'
  BY <1>10 DEF PeekNothing, Release, Become, fiberVars, turnVars, AllWhole
<1>11. ASSUME NEW f \in Fibers, StandDown(f) PROVE AllWhole'
  BY <1>11 DEF StandDown, Release, Become, fiberVars, turnVars, AllWhole
<1>12. ASSUME NEW f \in Fibers, Write(f) PROVE AllWhole'
  <2>1. stored' = stored \cup {Message(f, TRUE)}
        \/ \E kind \in FaultKinds : stored' = stored \cup Left(f, kind)
    BY <1>12 DEF Write
  <2>2. \A kind \in FaultKinds : \A m \in Left(f, kind) : m.whole
    BY LeftIsWhole
  <2>3. Message(f, TRUE).whole
    BY MessageShape
  <2> QED BY <2>1, <2>2, <2>3, Zenon DEF AllWhole
<1>13. ASSUME NEW f \in Fibers, Join(f) PROVE AllWhole'
  BY <1>13 DEF Join, Become, fiberVars, turnVars, AllWhole
<1>14. ASSUME NEW f \in Fibers, Landed(f) PROVE AllWhole'
  BY <1>14 DEF Landed, Become, Drop, fiberVars, turnVars, AllWhole
<1>15. ASSUME NEW f \in Fibers, Failed(f) PROVE AllWhole'
  BY <1>15 DEF Failed, Settled, Become, Drop, fiberVars, turnVars, AllWhole
<1>16. ASSUME NEW f \in Fibers, FallbackLands(f) PROVE AllWhole'
  <2>1. stored' = stored \cup {Message(f, TRUE)}
        \/ \E kind \in FaultKinds : stored' = stored \cup Left(f, kind)
    BY <1>16 DEF FallbackLands
  <2>2. \A kind \in FaultKinds : \A m \in Left(f, kind) : m.whole
    BY LeftIsWhole
  <2>3. Message(f, TRUE).whole
    BY MessageShape
  <2> QED BY <2>1, <2>2, <2>3, Zenon DEF AllWhole
<1>17. ASSUME NEW f \in Fibers, FallbackFails(f) PROVE AllWhole'
  <2>1. stored' = stored \cup {Message(f, TRUE)}
        \/ \E kind \in FaultKinds : stored' = stored \cup Left(f, kind)
    BY <1>17 DEF FallbackFails
  <2>2. \A kind \in FaultKinds : \A m \in Left(f, kind) : m.whole
    BY LeftIsWhole
  <2>3. Message(f, TRUE).whole
    BY MessageShape
  <2> QED BY <2>1, <2>2, <2>3, Zenon DEF AllWhole
<1>18. ASSUME NEW f \in Fibers, Retry(f) PROVE AllWhole'
  BY <1>18 DEF Retry, Prepare, Become, fiberVars, turnVars, AllWhole
<1>19. ASSUME NEW f \in Fibers, SeesIdle(f) PROVE AllWhole'
  BY <1>19 DEF SeesIdle, Become, fiberVars, turnVars, AllWhole
<1>20. ASSUME NEW f \in Fibers, GivesUp(f) PROVE AllWhole'
  BY <1>20 DEF GivesUp, Become, fiberVars, turnVars, AllWhole
<1>21. ASSUME NEW f \in Fibers, Check(f) PROVE AllWhole'
  BY <1>21 DEF Check, Become, fiberVars, turnVars, AllWhole
<1>22. CASE UNCHANGED vars
  BY <1>22 DEF vars, fiberVars, turnVars, AllWhole
<1> QED BY <1>1, <1>2, <1>3, <1>4, <1>5, <1>6, <1>7, <1>8, <1>9, <1>10, <1>11,
       <1>12, <1>13, <1>14, <1>15, <1>16, <1>17, <1>18, <1>19, <1>20, <1>21, <1>22
       DEF Next, System, Turn, Drain, Confirm

(* A step keeps track of a message to be confirmed.                          *)
LEMMA TrackedStep == TypeOK /\ There /\ Tracked /\ [Next]_vars => Tracked'
<1> SUFFICES ASSUME TypeOK, There, Tracked, [Next]_vars PROVE Tracked'
  OBVIOUS
<1>t. /\ pc \in [Fibers -> Stages] /\ batch \in [Fibers -> SUBSET Items]
      /\ msg \in [Fibers -> Nat] /\ nextId \in Nat /\ lastAsst \in Nat
  BY DEF TypeOK, FiberTypes, StoreTypes
<1>r. \A g \in Fibers : pc[g] \in {"landed", "poll", "check"} => msg[g] \in Ids
  BY DEF There, Written
<1>1. CASE Prompt
  BY <1>1, <1>t DEF Prompt, Happens, fiberVars, turnVars, Tracked
<1>2. CASE Read
  <2>1. CASE (~open /\ \A i \in Ids : i < lastAsst)
    BY <1>2, <2>1, <1>t, <1>r DEF Read, fiberVars, turnVars, Tracked
  <2>2. CASE ~(~open /\ \A i \in Ids : i < lastAsst)
    BY <1>2, <2>2, <1>t, <1>r DEF Read, fiberVars, turnVars, Tracked
  <2> QED BY <2>1, <2>2
<1>3. CASE Step
  BY <1>3, <1>t DEF Step, fiberVars, turnVars, Tracked
<1>4. CASE StepEnds
  BY <1>4, <1>t DEF StepEnds, Happens, fiberVars, turnVars, Tracked
<1>5. CASE TurnEnds
  BY <1>5, <1>t, AnswerMoves DEF TurnEnds, EndTurn, fiberVars, turnVars, Tracked
<1>6. CASE Stop
  BY <1>6, <1>t, AnswerMoves DEF Stop, EndTurn, Happens, fiberVars, turnVars, Tracked
<1>7. CASE TurnFails
  BY <1>7, <1>t, AnswerMoves DEF TurnFails, EndTurn, fiberVars, turnVars, Tracked
<1>8. ASSUME NEW r \in Results, Post(r) PROVE Tracked'
  BY <1>8, <1>t, FiberIds DEF Post, Become, fiberVars, turnVars, Tracked
<1>9. ASSUME NEW f \in Fibers, Peek(f) PROVE Tracked'
  BY <1>9, <1>t DEF Peek, Prepare, Become, fiberVars, turnVars, Tracked
<1>10. ASSUME NEW f \in Fibers, PeekNothing(f) PROVE Tracked'
  BY <1>10, <1>t DEF PeekNothing, Release, Become, fiberVars, turnVars, Tracked
<1>11. ASSUME NEW f \in Fibers, StandDown(f) PROVE Tracked'
  BY <1>11, <1>t DEF StandDown, Release, Become, fiberVars, turnVars, Tracked
<1>12. ASSUME NEW f \in Fibers, Write(f) PROVE Tracked'
  <2>1. CASE stored' = stored \cup {Message(f, TRUE)} /\ Become(f, "join")
    BY <1>12, <2>1, WriterAdds, <1>t DEF Write, Become, fiberVars, turnVars, Tracked
  <2>2. CASE Become(f, "failed")
    BY <1>12, <2>2, WriterAdds, <1>t DEF Write, Become, fiberVars, turnVars, Tracked
  <2> QED BY <1>12, <2>1, <2>2 DEF Write
<1>13. ASSUME NEW f \in Fibers, Join(f) PROVE Tracked'
  BY <1>13, <1>t DEF Join, Become, fiberVars, turnVars, Tracked
<1>14. ASSUME NEW f \in Fibers, Landed(f) PROVE Tracked'
  <2>1. CASE Confirms(f)
    <3>0. PICK i \in batch[f] :
             /\ pc[f] = "landed" /\ pc[<< "confirm", i.of >>] \in {"off", "done"}
             /\ pc' = [pc EXCEPT ![f] = "peek", ![<< "confirm", i.of >>] = "poll"]
             /\ batch' = [batch EXCEPT ![f] = {}, ![<< "confirm", i.of >>] = batch[f]]
             /\ msg' = [msg EXCEPT ![f] = 0, ![<< "confirm", i.of >>] = msg[f]]
      BY <1>14, <2>1 DEF Landed
    <3>1. UNCHANGED << stored, phase, window, lastAsst, seen >>
      BY <1>14, <2>1 DEF Landed, Become, Drop, fiberVars, turnVars
    <3> QED BY <3>0, <3>1, <1>t, ItemType, FiberIds DEF Tracked
  <2>2. CASE ~Confirms(f)
    BY <1>14, <2>2, <1>t, ItemType, FiberIds DEF Landed, Become, Drop, fiberVars, turnVars,
       Tracked
  <2> QED BY <2>1, <2>2
<1>15. ASSUME NEW f \in Fibers, Failed(f) PROVE Tracked'
  <2>1. CASE Injected(f)
    BY <1>15, <2>1, <1>t DEF Failed, Settled, Become, Drop, fiberVars, turnVars, Tracked
  <2>2. CASE ~Injected(f)
    BY <1>15, <2>2, <1>t DEF Failed, Settled, Become, Drop, fiberVars, turnVars, Tracked
  <2> QED BY <2>1, <2>2
<1>16. ASSUME NEW f \in Fibers, FallbackLands(f) PROVE Tracked'
  BY <1>16, WriterAdds, <1>t DEF FallbackLands, Settled, Become, Drop, fiberVars, turnVars,
     Tracked
<1>17. ASSUME NEW f \in Fibers, FallbackFails(f) PROVE Tracked'
  BY <1>17, WriterAdds, <1>t DEF FallbackFails, Become, fiberVars, turnVars, Tracked
<1>18. ASSUME NEW f \in Fibers, Retry(f) PROVE Tracked'
  BY <1>18, <1>t DEF Retry, Prepare, Become, fiberVars, turnVars, Tracked
<1>19. ASSUME NEW f \in Fibers, SeesIdle(f) PROVE Tracked'
  BY <1>19, <1>t DEF SeesIdle, Become, fiberVars, turnVars, Tracked
<1>20. ASSUME NEW f \in Fibers, GivesUp(f) PROVE Tracked'
  BY <1>20, <1>t DEF GivesUp, Become, fiberVars, turnVars, Tracked
<1>21. ASSUME NEW f \in Fibers, Check(f) PROVE Tracked'
  <2>1. CASE Consumed(f)
    BY <1>21, <2>1, <1>t DEF Check, Become, fiberVars, turnVars, Tracked
  <2>2. CASE ~Consumed(f)
    BY <1>21, <2>2, <1>t DEF Check, Become, fiberVars, turnVars, Tracked
  <2> QED BY <2>1, <2>2
<1>22. CASE UNCHANGED vars
  BY <1>22 DEF vars, fiberVars, turnVars, Tracked
<1> QED BY <1>1, <1>2, <1>3, <1>4, <1>5, <1>6, <1>7, <1>8, <1>9, <1>10, <1>11,
       <1>12, <1>13, <1>14, <1>15, <1>16, <1>17, <1>18, <1>19, <1>20, <1>21, <1>22
       DEF Next, System, Turn, Drain, Confirm

----------------------------------------------------------------------------
(* What becomes of the results *)
LEMMA StoreGrows ==
    ASSUME TypeOK, [Next]_vars
    PROVE  stored \subseteq stored'
<1>1. CASE Prompt
  BY <1>1 DEF Prompt, Happens, fiberVars, turnVars
<1>2. CASE Read
  BY <1>2 DEF Read, fiberVars, turnVars
<1>3. CASE Step
  BY <1>3 DEF Step, fiberVars, turnVars
<1>4. CASE StepEnds
  BY <1>4 DEF StepEnds, Happens, fiberVars, turnVars
<1>5. CASE TurnEnds
  BY <1>5 DEF TurnEnds, EndTurn, fiberVars, turnVars
<1>6. CASE Stop
  BY <1>6 DEF Stop, EndTurn, Happens, fiberVars, turnVars
<1>7. CASE TurnFails
  BY <1>7 DEF TurnFails, EndTurn, fiberVars, turnVars
<1>8. ASSUME NEW r \in Results, Post(r) PROVE stored \subseteq stored'
  BY <1>8 DEF Post, Become, fiberVars, turnVars
<1>9. ASSUME NEW f \in Fibers, Peek(f) PROVE stored \subseteq stored'
  BY <1>9 DEF Peek, Prepare, Become, fiberVars, turnVars
<1>10. ASSUME NEW f \in Fibers, PeekNothing(f) PROVE stored \subseteq stored'
  BY <1>10 DEF PeekNothing, Release, Become, fiberVars, turnVars
<1>11. ASSUME NEW f \in Fibers, StandDown(f) PROVE stored \subseteq stored'
  BY <1>11 DEF StandDown, Release, Become, fiberVars, turnVars
<1>12. ASSUME NEW f \in Fibers, Write(f) PROVE stored \subseteq stored'
  <2>1. CASE stored' = stored \cup {Message(f, TRUE)} /\ Become(f, "join")
    BY <1>12, <2>1, WriterAdds DEF Write, Become, fiberVars, turnVars
  <2>2. CASE Become(f, "failed")
    BY <1>12, <2>2, WriterAdds DEF Write, Become, fiberVars, turnVars
  <2> QED BY <1>12, <2>1, <2>2 DEF Write
<1>13. ASSUME NEW f \in Fibers, Join(f) PROVE stored \subseteq stored'
  BY <1>13 DEF Join, Become, fiberVars, turnVars
<1>14. ASSUME NEW f \in Fibers, Landed(f) PROVE stored \subseteq stored'
  BY <1>14 DEF Landed, Become, Drop, fiberVars, turnVars
<1>15. ASSUME NEW f \in Fibers, Failed(f) PROVE stored \subseteq stored'
  BY <1>15 DEF Failed, Settled, Become, Drop, fiberVars, turnVars
<1>16. ASSUME NEW f \in Fibers, FallbackLands(f) PROVE stored \subseteq stored'
  BY <1>16, WriterAdds DEF FallbackLands, Settled, Become, Drop, fiberVars, turnVars
<1>17. ASSUME NEW f \in Fibers, FallbackFails(f) PROVE stored \subseteq stored'
  BY <1>17, WriterAdds DEF FallbackFails, Become, fiberVars, turnVars
<1>18. ASSUME NEW f \in Fibers, Retry(f) PROVE stored \subseteq stored'
  BY <1>18 DEF Retry, Prepare, Become, fiberVars, turnVars
<1>19. ASSUME NEW f \in Fibers, SeesIdle(f) PROVE stored \subseteq stored'
  BY <1>19 DEF SeesIdle, Become, fiberVars, turnVars
<1>20. ASSUME NEW f \in Fibers, GivesUp(f) PROVE stored \subseteq stored'
  BY <1>20 DEF GivesUp, Become, fiberVars, turnVars
<1>21. ASSUME NEW f \in Fibers, Check(f) PROVE stored \subseteq stored'
  BY <1>21 DEF Check, Become, fiberVars, turnVars
<1>22. CASE UNCHANGED vars
  BY <1>22 DEF vars
<1> QED BY <1>1, <1>2, <1>3, <1>4, <1>5, <1>6, <1>7, <1>8, <1>9, <1>10, <1>11,
       <1>12, <1>13, <1>14, <1>15, <1>16, <1>17, <1>18, <1>19, <1>20, <1>21, <1>22
       DEF Next, System, Turn, Drain, Confirm

(* What a writer drops from the queue is in the store, whole.                *)
LEMMA DropsAreWritten ==
    ASSUME TypeOK, Own, There, AllWhole', NEW f \in Fibers,
           Landed(f) \/ Failed(f) \/ FallbackLands(f)
    PROVE  \/ queue' = queue
           \/ /\ queue' = queue \ batch[f]
              /\ pc[f] \in Working
              /\ \E n \in stored' : n.whole /\ n.items = batch[f] /\ n.id = msg[f]
<1>g. stored \subseteq stored'
  BY StoreGrows DEF Next, System, Drain
<1>1. CASE Landed(f)
  <2>1. pc[f] = "landed" /\ queue' = queue \ batch[f]
    BY <1>1 DEF Landed, Drop
  <2>2. PICK n \in stored : n.id = msg[f]
    BY <2>1 DEF There, Written, Ids
  <2>3. pc[f] \in Working
    BY <2>1, StageNames DEF Working
  <2>4. n.items = batch[f]
    BY <2>2, <2>3 DEF Own
  <2>5. n \in stored' /\ n.whole
    BY <1>g DEF AllWhole
  <2> QED BY <2>1, <2>2, <2>3, <2>4, <2>5
<1>2. CASE Failed(f)
  <2>1. CASE ~Injected(f)
    BY <1>2, <2>1 DEF Failed
  <2>2. CASE Injected(f)
    <3>1. pc[f] = "failed" /\ queue' = queue \ batch[f]
      BY <1>2, <2>2 DEF Failed, Drop
    <3>2. PICK n \in stored : n.id = msg[f]
      BY <2>2 DEF Injected, Ids
    <3>3. pc[f] \in Working
      BY <3>1, StageNames DEF Working
    <3>4. n.items = batch[f]
      BY <3>2, <3>3 DEF Own
    <3>5. n \in stored' /\ n.whole
      BY <1>g DEF AllWhole
    <3> QED BY <3>1, <3>2, <3>3, <3>4, <3>5
  <2> QED BY <2>1, <2>2
<1>3. CASE FallbackLands(f)
  <2>1. /\ pc[f] = "fallback" /\ queue' = queue \ batch[f]
        /\ Message(f, TRUE) \in stored'
    BY <1>3 DEF FallbackLands, Drop
  <2>2. pc[f] \in Working
    BY <2>1, StageNames DEF Working
  <2>3. Message(f, TRUE).id = msg[f] /\ Message(f, TRUE).items = batch[f]
    BY MessageShape DEF ByWriter
  <2>4. Message(f, TRUE).whole
    BY <2>1 DEF AllWhole
  <2> QED BY <2>1, <2>2, <2>3, <2>4
<1> QED BY <1>1, <1>2, <1>3

(* A result survives a step that keeps it queued or finds it written.        *)
LEMMA HeldOrQueued ==
    ASSUME ResultsSurvive, stored \subseteq stored',
           \A r \in posted' : r \in posted \/ \E i \in queue' : i.of = r,
           \A i \in queue : i \in queue' \/ \E n \in stored' : Holds(n, i.of)
    PROVE  ResultsSurvive'
<1> SUFFICES ASSUME NEW r \in posted'
             PROVE  (\E i \in queue' : i.of = r) \/ (\E m \in stored' : Holds(m, r))
  BY DEF ResultsSurvive, Holds
<1>1. CASE \E i \in queue' : i.of = r
  BY <1>1
<1>2. CASE r \in posted
  BY <1>2 DEF ResultsSurvive
<1> QED BY <1>1, <1>2

(* A step loses no result.                                                   *)
LEMMA SurvivalStep ==
    TypeOK /\ NoHalfWrites /\ Own /\ There /\ AllWhole /\ ResultsSurvive /\ [Next]_vars
      => ResultsSurvive'
<1> SUFFICES ASSUME TypeOK, NoHalfWrites, Own, There, AllWhole, ResultsSurvive, [Next]_vars
             PROVE  ResultsSurvive'
  OBVIOUS
<1>g. stored \subseteq stored'
  BY StoreGrows
<1>w. AllWhole'
  BY AllWholeStep
<1>1. CASE Prompt
  BY <1>1, <1>g, HeldOrQueued DEF Prompt, Happens, fiberVars, turnVars
<1>2. CASE Read
  BY <1>2, <1>g, HeldOrQueued DEF Read, fiberVars, turnVars
<1>3. CASE Step
  BY <1>3, <1>g, HeldOrQueued DEF Step, fiberVars, turnVars
<1>4. CASE StepEnds
  BY <1>4, <1>g, HeldOrQueued DEF StepEnds, Happens, fiberVars, turnVars
<1>5. CASE TurnEnds
  BY <1>5, <1>g, HeldOrQueued DEF TurnEnds, EndTurn, fiberVars, turnVars
<1>6. CASE Stop
  BY <1>6, <1>g, HeldOrQueued DEF Stop, EndTurn, Happens, fiberVars, turnVars
<1>7. CASE TurnFails
  BY <1>7, <1>g, HeldOrQueued DEF TurnFails, EndTurn, fiberVars, turnVars
<1>8. ASSUME NEW r \in Results, Post(r) PROVE ResultsSurvive'
  <2>1. queue' = queue \cup {NewResult(r)} /\ posted' = posted \cup {r}
    BY <1>8 DEF Post
  <2>2. NewResult(r).of = r
    BY DEF NewResult
  <2> QED BY <2>1, <2>2, <1>g, HeldOrQueued
<1>9. ASSUME NEW f \in Fibers, Peek(f) PROVE ResultsSurvive'
  BY <1>9, <1>g, HeldOrQueued DEF Peek, Prepare, Become, fiberVars, turnVars
<1>10. ASSUME NEW f \in Fibers, PeekNothing(f) PROVE ResultsSurvive'
  BY <1>10, <1>g, HeldOrQueued DEF PeekNothing, Release, Become, fiberVars, turnVars
<1>11. ASSUME NEW f \in Fibers, StandDown(f) PROVE ResultsSurvive'
  BY <1>11, <1>g, HeldOrQueued DEF StandDown, Release, Become, fiberVars, turnVars
<1>12. ASSUME NEW f \in Fibers, Write(f) PROVE ResultsSurvive'
  BY <1>12, <1>g, HeldOrQueued DEF Write, Become, fiberVars, turnVars
<1>13. ASSUME NEW f \in Fibers, Join(f) PROVE ResultsSurvive'
  BY <1>13, <1>g, HeldOrQueued DEF Join, Become, fiberVars, turnVars
<1>14. ASSUME NEW f \in Fibers, Landed(f) PROVE ResultsSurvive'
  <2>1. posted' = posted
    BY <1>14 DEF Landed
  <2>2. \/ queue' = queue
        \/ /\ queue' = queue \ batch[f]
           /\ \E n \in stored' : n.whole /\ n.items = batch[f]
    BY <1>14, <1>w, DropsAreWritten
  <2>3. \A i \in queue : i \in queue' \/ \E n \in stored' : Holds(n, i.of)
    BY <2>2, Zenon DEF Holds
  <2> QED BY <2>1, <2>3, <1>g, HeldOrQueued
<1>15. ASSUME NEW f \in Fibers, Failed(f) PROVE ResultsSurvive'
  <2>1. posted' = posted
    BY <1>15 DEF Failed
  <2>2. \/ queue' = queue
        \/ /\ queue' = queue \ batch[f]
           /\ \E n \in stored' : n.whole /\ n.items = batch[f]
    BY <1>15, <1>w, DropsAreWritten
  <2>3. \A i \in queue : i \in queue' \/ \E n \in stored' : Holds(n, i.of)
    BY <2>2, Zenon DEF Holds
  <2> QED BY <2>1, <2>3, <1>g, HeldOrQueued
<1>16. ASSUME NEW f \in Fibers, FallbackLands(f) PROVE ResultsSurvive'
  <2>1. posted' = posted
    BY <1>16 DEF FallbackLands
  <2>2. \/ queue' = queue
        \/ /\ queue' = queue \ batch[f]
           /\ \E n \in stored' : n.whole /\ n.items = batch[f]
    BY <1>16, <1>w, DropsAreWritten
  <2>3. \A i \in queue : i \in queue' \/ \E n \in stored' : Holds(n, i.of)
    BY <2>2, Zenon DEF Holds
  <2> QED BY <2>1, <2>3, <1>g, HeldOrQueued
<1>17. ASSUME NEW f \in Fibers, FallbackFails(f) PROVE ResultsSurvive'
  BY <1>17, <1>g, HeldOrQueued DEF FallbackFails, Become, fiberVars, turnVars
<1>18. ASSUME NEW f \in Fibers, Retry(f) PROVE ResultsSurvive'
  BY <1>18, <1>g, HeldOrQueued DEF Retry, Prepare, Become, fiberVars, turnVars
<1>19. ASSUME NEW f \in Fibers, SeesIdle(f) PROVE ResultsSurvive'
  BY <1>19, <1>g, HeldOrQueued DEF SeesIdle, Become, fiberVars, turnVars
<1>20. ASSUME NEW f \in Fibers, GivesUp(f) PROVE ResultsSurvive'
  BY <1>20, <1>g, HeldOrQueued DEF GivesUp, Become, fiberVars, turnVars
<1>21. ASSUME NEW f \in Fibers, Check(f) PROVE ResultsSurvive'
  BY <1>21, <1>g, HeldOrQueued DEF Check
<1>22. CASE UNCHANGED vars
  BY <1>22, <1>g, HeldOrQueued DEF vars
<1> QED BY <1>1, <1>2, <1>3, <1>4, <1>5, <1>6, <1>7, <1>8, <1>9, <1>10, <1>11,
       <1>12, <1>13, <1>14, <1>15, <1>16, <1>17, <1>18, <1>19, <1>20, <1>21, <1>22
       DEF Next, System, Turn, Drain, Confirm

----------------------------------------------------------------------------
(* What becomes of a message written into a busy parent *)

(* It stays followed up as long as a re-queued result that leaves the queue  *)
(* has been written by then.                                                 *)
LEMMA FollowedUpStays ==
    ASSUME NEW m, FollowedUp(m), stored \subseteq stored', seen \subseteq seen',
           m.id < lastAsst => m.id < lastAsst',
           \A i \in m.items : Redelivered(i) \in queue =>
              Redelivered(i) \in queue' \/ i.again \/ WrittenAfter(m, i.of)'
              \/ \E j \in m.items : j.again
    PROVE  FollowedUp(m)'
<1>1. ASSUME NEW i \in m.items, WrittenAfter(m, i.of) PROVE FollowedUp(m)'
  <2>1. WrittenAfter(m, i.of)'
    BY <1>1 DEF WrittenAfter, Holds
  <2> QED BY <2>1, Zenon DEF FollowedUp
<1>2. ASSUME NEW i \in m.items, i.again PROVE FollowedUp(m)'
  BY <1>2, Zenon DEF FollowedUp
<1>3. ASSUME NEW i \in m.items, Redelivered(i) \in queue PROVE FollowedUp(m)'
  BY <1>3, Zenon DEF FollowedUp, Redelivered
<1>4. CASE m.id \in seen \/ m.id < lastAsst
  BY <1>4, Zenon DEF FollowedUp
<1> QED BY <1>1, <1>2, <1>3, <1>4, Zenon DEF FollowedUp

(* A step leaves a message followed up.                                      *)
LEMMA FollowedUpStep ==
    ASSUME TypeOK, Numbered, Own, Newest, There, AllWhole, AllWhole', NEW m \in stored,
           m.items # {}, FollowedUp(m), [Next]_vars
    PROVE  FollowedUp(m)'
<1>t. /\ pc \in [Fibers -> Stages] /\ batch \in [Fibers -> SUBSET Items]
      /\ msg \in [Fibers -> Nat] /\ nextId \in Nat /\ lastAsst \in Nat
      /\ \A n \in stored : n.id \in Nat
  BY DEF TypeOK, FiberTypes, StoreTypes, Messages
<1>g. stored \subseteq stored'
  BY StoreGrows
<1>1. CASE Prompt
  BY <1>1, <1>g, FollowedUpStays DEF Prompt, Happens, fiberVars, turnVars
<1>2. CASE Read
  BY <1>2, <1>g, FollowedUpStays DEF Read, fiberVars, turnVars
<1>3. CASE Step
  BY <1>3, <1>t, <1>g, FollowedUpStays DEF Step, Numbered
<1>4. CASE StepEnds
  BY <1>4, <1>g, FollowedUpStays DEF StepEnds, Happens, fiberVars, turnVars
<1>5. CASE TurnEnds
  BY <1>5, <1>g, FollowedUpStays DEF TurnEnds, EndTurn, fiberVars, turnVars
<1>6. CASE Stop
  BY <1>6, <1>g, FollowedUpStays DEF Stop, EndTurn, Happens, fiberVars, turnVars
<1>7. CASE TurnFails
  BY <1>7, <1>g, FollowedUpStays DEF TurnFails, EndTurn, fiberVars, turnVars
<1>8. ASSUME NEW r \in Results, Post(r) PROVE FollowedUp(m)'
  BY <1>8, <1>g, FollowedUpStays DEF Post, Become, fiberVars, turnVars
<1>9. ASSUME NEW f \in Fibers, Peek(f) PROVE FollowedUp(m)'
  BY <1>9, <1>g, FollowedUpStays DEF Peek, Prepare, Become, fiberVars, turnVars
<1>10. ASSUME NEW f \in Fibers, PeekNothing(f) PROVE FollowedUp(m)'
  BY <1>10, <1>g, FollowedUpStays DEF PeekNothing, Release, Become, fiberVars, turnVars
<1>11. ASSUME NEW f \in Fibers, StandDown(f) PROVE FollowedUp(m)'
  BY <1>11, <1>g, FollowedUpStays DEF StandDown, Release, Become, fiberVars, turnVars
<1>12. ASSUME NEW f \in Fibers, Write(f) PROVE FollowedUp(m)'
  BY <1>12, <1>g, FollowedUpStays DEF Write, Become, fiberVars, turnVars
<1>13. ASSUME NEW f \in Fibers, Join(f) PROVE FollowedUp(m)'
  BY <1>13, <1>g, FollowedUpStays DEF Join, Become, fiberVars, turnVars
<1>14. ASSUME NEW f \in Fibers, Landed(f) PROVE FollowedUp(m)'
  <2>1. UNCHANGED << seen, lastAsst >>
    BY <1>14 DEF Landed, turnVars
  <2>2. CASE queue' = queue
    BY <2>1, <2>2, <1>g, FollowedUpStays
  <2>3. CASE queue' # queue
    <3>1. PICK n \in stored' :
             /\ queue' = queue \ batch[f] /\ pc[f] \in Working
             /\ n.whole /\ n.items = batch[f] /\ n.id = msg[f]
      BY <1>14, <2>3, DropsAreWritten
    <3>2. m.id <= n.id
      BY <3>1 DEF Newest
    <3>3. n.id \in Nat
      BY <3>1, <1>t
    <3>4. CASE m.id = msg[f]
      <4>1. m.items = batch[f]
        BY <3>1, <3>4 DEF Own
      <4>2. ASSUME NEW i \in m.items, Redelivered(i) \in queue, Redelivered(i) \notin queue'
            PROVE  \E j \in m.items : j.again
        <5>1. Redelivered(i) \in m.items
          BY <3>1, <4>1, <4>2
        <5>2. Redelivered(i).again
          BY DEF Redelivered
        <5> QED BY <5>1, <5>2, Zenon
      <4> QED BY <4>2, <2>1, <1>g, FollowedUpStays
    <3>5. CASE m.id # msg[f]
      <4>1. n.id > m.id
        BY <3>1, <3>2, <3>3, <3>5, <1>t
      <4>2. ASSUME NEW i \in m.items, Redelivered(i) \in queue, Redelivered(i) \notin queue'
            PROVE  WrittenAfter(m, i.of)'
        <5>1. Redelivered(i) \in n.items
          BY <3>1, <4>2
        <5>2. Redelivered(i).of = i.of
          BY DEF Redelivered
        <5>3. Holds(n, i.of)
          BY <3>1, <5>1, <5>2, Zenon DEF Holds
        <5> QED BY <4>1, <5>3 DEF WrittenAfter, Holds
      <4> QED BY <4>2, <2>1, <1>g, FollowedUpStays
    <3> QED BY <3>4, <3>5
  <2> QED BY <2>2, <2>3
<1>15. ASSUME NEW f \in Fibers, Failed(f) PROVE FollowedUp(m)'
  <2>1. UNCHANGED << seen, lastAsst >>
    BY <1>15 DEF Failed, turnVars
  <2>2. CASE queue' = queue
    BY <2>1, <2>2, <1>g, FollowedUpStays
  <2>3. CASE queue' # queue
    <3>1. PICK n \in stored' :
             /\ queue' = queue \ batch[f] /\ pc[f] \in Working
             /\ n.whole /\ n.items = batch[f] /\ n.id = msg[f]
      BY <1>15, <2>3, DropsAreWritten
    <3>2. m.id <= n.id
      BY <3>1 DEF Newest
    <3>3. n.id \in Nat
      BY <3>1, <1>t
    <3>4. CASE m.id = msg[f]
      <4>1. m.items = batch[f]
        BY <3>1, <3>4 DEF Own
      <4>2. ASSUME NEW i \in m.items, Redelivered(i) \in queue, Redelivered(i) \notin queue'
            PROVE  \E j \in m.items : j.again
        <5>1. Redelivered(i) \in m.items
          BY <3>1, <4>1, <4>2
        <5>2. Redelivered(i).again
          BY DEF Redelivered
        <5> QED BY <5>1, <5>2, Zenon
      <4> QED BY <4>2, <2>1, <1>g, FollowedUpStays
    <3>5. CASE m.id # msg[f]
      <4>1. n.id > m.id
        BY <3>1, <3>2, <3>3, <3>5, <1>t
      <4>2. ASSUME NEW i \in m.items, Redelivered(i) \in queue, Redelivered(i) \notin queue'
            PROVE  WrittenAfter(m, i.of)'
        <5>1. Redelivered(i) \in n.items
          BY <3>1, <4>2
        <5>2. Redelivered(i).of = i.of
          BY DEF Redelivered
        <5>3. Holds(n, i.of)
          BY <3>1, <5>1, <5>2, Zenon DEF Holds
        <5> QED BY <4>1, <5>3 DEF WrittenAfter, Holds
      <4> QED BY <4>2, <2>1, <1>g, FollowedUpStays
    <3> QED BY <3>4, <3>5
  <2> QED BY <2>2, <2>3
<1>16. ASSUME NEW f \in Fibers, FallbackLands(f) PROVE FollowedUp(m)'
  <2>1. UNCHANGED << seen, lastAsst >>
    BY <1>16 DEF FallbackLands, turnVars
  <2>2. CASE queue' = queue
    BY <2>1, <2>2, <1>g, FollowedUpStays
  <2>3. CASE queue' # queue
    <3>1. PICK n \in stored' :
             /\ queue' = queue \ batch[f] /\ pc[f] \in Working
             /\ n.whole /\ n.items = batch[f] /\ n.id = msg[f]
      BY <1>16, <2>3, DropsAreWritten
    <3>2. m.id <= n.id
      BY <3>1 DEF Newest
    <3>3. n.id \in Nat
      BY <3>1, <1>t
    <3>4. CASE m.id = msg[f]
      <4>1. m.items = batch[f]
        BY <3>1, <3>4 DEF Own
      <4>2. ASSUME NEW i \in m.items, Redelivered(i) \in queue, Redelivered(i) \notin queue'
            PROVE  \E j \in m.items : j.again
        <5>1. Redelivered(i) \in m.items
          BY <3>1, <4>1, <4>2
        <5>2. Redelivered(i).again
          BY DEF Redelivered
        <5> QED BY <5>1, <5>2, Zenon
      <4> QED BY <4>2, <2>1, <1>g, FollowedUpStays
    <3>5. CASE m.id # msg[f]
      <4>1. n.id > m.id
        BY <3>1, <3>2, <3>3, <3>5, <1>t
      <4>2. ASSUME NEW i \in m.items, Redelivered(i) \in queue, Redelivered(i) \notin queue'
            PROVE  WrittenAfter(m, i.of)'
        <5>1. Redelivered(i) \in n.items
          BY <3>1, <4>2
        <5>2. Redelivered(i).of = i.of
          BY DEF Redelivered
        <5>3. Holds(n, i.of)
          BY <3>1, <5>1, <5>2, Zenon DEF Holds
        <5> QED BY <4>1, <5>3 DEF WrittenAfter, Holds
      <4> QED BY <4>2, <2>1, <1>g, FollowedUpStays
    <3> QED BY <3>4, <3>5
  <2> QED BY <2>2, <2>3
<1>17. ASSUME NEW f \in Fibers, FallbackFails(f) PROVE FollowedUp(m)'
  BY <1>17, <1>g, FollowedUpStays DEF FallbackFails, Become, fiberVars, turnVars
<1>18. ASSUME NEW f \in Fibers, Retry(f) PROVE FollowedUp(m)'
  BY <1>18, <1>g, FollowedUpStays DEF Retry, Prepare, Become, fiberVars, turnVars
<1>19. ASSUME NEW f \in Fibers, SeesIdle(f) PROVE FollowedUp(m)'
  BY <1>19, <1>g, FollowedUpStays DEF SeesIdle, Become, fiberVars, turnVars
<1>20. ASSUME NEW f \in Fibers, GivesUp(f) PROVE FollowedUp(m)'
  BY <1>20, <1>g, FollowedUpStays DEF GivesUp, Become, fiberVars, turnVars
<1>21. ASSUME NEW f \in Fibers, Check(f) PROVE FollowedUp(m)'
  BY <1>21, <1>g, FollowedUpStays DEF Check, Become, fiberVars, turnVars
<1>22. CASE UNCHANGED vars
  BY <1>22, <1>g, FollowedUpStays DEF vars, turnVars
<1> QED BY <1>1, <1>2, <1>3, <1>4, <1>5, <1>6, <1>7, <1>8, <1>9, <1>10, <1>11,
       <1>12, <1>13, <1>14, <1>15, <1>16, <1>17, <1>18, <1>19, <1>20, <1>21, <1>22
       DEF Next, System, Turn, Drain, Confirm

(* Its writer or its confirmation goes on with it until it is followed up.   *)
LEMMA PursuitStep ==
    ASSUME TypeOK, Unposted, Own, Tracked, NEW m \in stored, NEW g \in Fibers, Pursues(g, m),
           m.busy, m.items # {}, m.id \notin turnless', [Next]_vars
    PROVE  FollowedUp(m)' \/ \E h \in Fibers : Pursues(h, m)'
<1>t. /\ pc \in [Fibers -> Stages] /\ batch \in [Fibers -> SUBSET Items]
      /\ msg \in [Fibers -> Nat] /\ nextId \in Nat /\ lastAsst \in Nat
      /\ \A n \in stored : n.id \in Nat
  BY DEF TypeOK, FiberTypes, StoreTypes, Messages
<1>p. /\ pc[g] \in {"join", "turn", "landed", "failed", "poll", "check"}
      /\ msg[g] = m.id /\ batch[g] = m.items
  BY DEF Pursues
<1>u. \A r \in Results : r \notin posted =>
         << "notify", r >> \in Fibers /\ pc[<< "notify", r >>] = "off"
  BY FiberIds DEF Unposted
<1>1. CASE Prompt
  BY <1>1, <1>t, <1>p DEF Prompt, Happens, fiberVars, turnVars, Pursues
<1>2. CASE Read
  BY <1>2, <1>t, <1>p DEF Read, fiberVars, turnVars, Pursues
<1>3. CASE Step
  BY <1>3, <1>t, <1>p DEF Step, fiberVars, turnVars, Pursues
<1>4. CASE StepEnds
  BY <1>4, <1>t, <1>p DEF StepEnds, Happens, fiberVars, turnVars, Pursues
<1>5. CASE TurnEnds
  BY <1>5, <1>t, <1>p, AnswerMoves DEF TurnEnds, EndTurn, fiberVars, turnVars, Pursues
<1>6. CASE Stop
  BY <1>6, <1>t, <1>p, AnswerMoves DEF Stop, EndTurn, Happens, fiberVars, turnVars, Pursues
<1>7. CASE TurnFails
  BY <1>7, <1>t, <1>p, AnswerMoves DEF TurnFails, EndTurn, fiberVars, turnVars, Pursues
<1>8. ASSUME NEW r \in Results, Post(r) PROVE FollowedUp(m)' \/ \E h \in Fibers : Pursues(h, m)'
  BY <1>8, <1>u, <1>p, <1>t DEF Post, Become, Pursues
<1>9. ASSUME NEW f \in Fibers, Peek(f) PROVE FollowedUp(m)' \/ \E h \in Fibers : Pursues(h, m)'
  BY <1>9, <1>t, <1>p DEF Peek, Prepare, Become, fiberVars, turnVars, Pursues
<1>10. ASSUME NEW f \in Fibers, PeekNothing(f)
      PROVE  FollowedUp(m)' \/ \E h \in Fibers : Pursues(h, m)'
  BY <1>10, <1>t, <1>p DEF PeekNothing, Release, Become, fiberVars, turnVars, Pursues
<1>11. ASSUME NEW f \in Fibers, StandDown(f)
      PROVE  FollowedUp(m)' \/ \E h \in Fibers : Pursues(h, m)'
  BY <1>11, <1>t, <1>p DEF StandDown, Release, Become, fiberVars, turnVars, Pursues
<1>12. ASSUME NEW f \in Fibers, Write(f) PROVE FollowedUp(m)' \/ \E h \in Fibers : Pursues(h, m)'
  <2>1. CASE stored' = stored \cup {Message(f, TRUE)} /\ Become(f, "join")
    BY <1>12, <2>1, <1>t, <1>p DEF Write, Become, fiberVars, turnVars, Pursues
  <2>2. CASE Become(f, "failed")
    BY <1>12, <2>2, <1>t, <1>p DEF Write, Become, fiberVars, turnVars, Pursues
  <2> QED BY <1>12, <2>1, <2>2 DEF Write
<1>13. ASSUME NEW f \in Fibers, Join(f) PROVE FollowedUp(m)' \/ \E h \in Fibers : Pursues(h, m)'
  BY <1>13, <1>t, <1>p DEF Join, Become, fiberVars, turnVars, Pursues
<1>14. ASSUME NEW f \in Fibers, Landed(f) PROVE FollowedUp(m)' \/ \E h \in Fibers : Pursues(h, m)'
  <2>1. CASE g # f
    <3>1. pc'[g] = pc[g] /\ batch'[g] = batch[g] /\ msg'[g] = msg[g]
      <4>1. CASE Confirms(f)
        <5>1. PICK i \in batch[f] :
                /\ pc[f] = "landed" /\ pc[<< "confirm", i.of >>] \in {"off", "done"}
                /\ pc' = [pc EXCEPT ![f] = "peek", ![<< "confirm", i.of >>] = "poll"]
                /\ batch' = [batch EXCEPT ![f] = {}, ![<< "confirm", i.of >>] = batch[f]]
                /\ msg' = [msg EXCEPT ![f] = 0, ![<< "confirm", i.of >>] = msg[f]]
          BY <1>14, <4>1 DEF Landed
        <5>2. << "confirm", i.of >> # g
          BY <5>1, <1>p
        <5> QED BY <2>1, <5>1, <5>2, <1>t
      <4>2. CASE ~Confirms(f)
        <5>1. pc' = [pc EXCEPT ![f] = "peek"] /\ batch' = [batch EXCEPT ![f] = {}]
              /\ msg' = [msg EXCEPT ![f] = 0]
          BY <1>14, <4>2 DEF Landed, Become
        <5> QED BY <2>1, <5>1, <1>t
      <4> QED BY <4>1, <4>2
    <3> QED BY <3>1, <1>p DEF Pursues
  <2>2. CASE g = f /\ Confirms(f)
    <3>1. PICK i \in batch[f] :
             /\ pc[f] = "landed" /\ pc[<< "confirm", i.of >>] \in {"off", "done"}
             /\ pc' = [pc EXCEPT ![f] = "peek", ![<< "confirm", i.of >>] = "poll"]
             /\ batch' = [batch EXCEPT ![f] = {}, ![<< "confirm", i.of >>] = batch[f]]
             /\ msg' = [msg EXCEPT ![f] = 0, ![<< "confirm", i.of >>] = msg[f]]
      BY <1>14, <2>2 DEF Landed
    <3>2. << "confirm", i.of >> \in Fibers /\ << "confirm", i.of >> # f
      BY <3>1, <1>t, ItemType, FiberIds
    <3>3. Pursues(<< "confirm", i.of >>, m)'
      BY <2>2, <3>1, <3>2, <1>t, <1>p DEF Pursues
    <3> QED BY <3>2, <3>3
  <2>3. CASE g = f /\ ~Confirms(f)
    <3>1. pc[f] \in Working
      BY <1>14, StageNames DEF Landed, Working
    <3>2. m.busy = busy[f]
      BY <2>3, <3>1, <1>p DEF Own
    <3>3. busy[f]
      BY <3>2, Zenon
    <3>4. \E i \in m.items : i.again
      BY <2>3, <3>3, <1>p, Zenon DEF Confirms, Fresh
    <3> QED BY <3>4, Zenon DEF FollowedUp
  <2> QED BY <2>1, <2>2, <2>3
<1>15. ASSUME NEW f \in Fibers, Failed(f) PROVE FollowedUp(m)' \/ \E h \in Fibers : Pursues(h, m)'
  <2>1. pc[f] = "failed"
    BY <1>15 DEF Failed
  <2>2. CASE g = f
    BY <2>2, <1>p, <1>15 DEF Injected, Ids, Failed
  <2>3. CASE g # f
    BY <1>15, <2>3, <1>t, <1>p DEF Failed, Settled, Become, Pursues
  <2> QED BY <2>2, <2>3
<1>16. ASSUME NEW f \in Fibers, FallbackLands(f)
      PROVE  FollowedUp(m)' \/ \E h \in Fibers : Pursues(h, m)'
  BY <1>16, <1>t, <1>p DEF FallbackLands, Settled, Become, Drop, fiberVars, turnVars,
     Pursues
<1>17. ASSUME NEW f \in Fibers, FallbackFails(f)
      PROVE  FollowedUp(m)' \/ \E h \in Fibers : Pursues(h, m)'
  BY <1>17, <1>t, <1>p DEF FallbackFails, Become, fiberVars, turnVars, Pursues
<1>18. ASSUME NEW f \in Fibers, Retry(f) PROVE FollowedUp(m)' \/ \E h \in Fibers : Pursues(h, m)'
  BY <1>18, <1>t, <1>p DEF Retry, Prepare, Become, fiberVars, turnVars, Pursues
<1>19. ASSUME NEW f \in Fibers, SeesIdle(f)
      PROVE  FollowedUp(m)' \/ \E h \in Fibers : Pursues(h, m)'
  BY <1>19, <1>t, <1>p DEF SeesIdle, Become, fiberVars, turnVars, Pursues
<1>20. ASSUME NEW f \in Fibers, GivesUp(f)
      PROVE  FollowedUp(m)' \/ \E h \in Fibers : Pursues(h, m)'
  <2>1. CASE g = f
    <3>1. pc[f] = "poll" /\ phase \in {"step", "ending"} /\ UNCHANGED << seen, lastAsst >>
      BY <1>20 DEF GivesUp, turnVars
    <3>2. m.id \in seen' \/ m.id < lastAsst'
      BY <2>1, <3>1, <1>p DEF Tracked
    <3> QED BY <3>2, Zenon DEF FollowedUp
  <2>2. CASE g # f
    BY <1>20, <2>2, <1>t, <1>p DEF GivesUp, Become, Pursues
  <2> QED BY <2>1, <2>2
<1>21. ASSUME NEW f \in Fibers, Check(f) PROVE FollowedUp(m)' \/ \E h \in Fibers : Pursues(h, m)'
  <2>1. CASE g = f /\ Consumed(f)
    <3>1. lastAsst' = lastAsst
      BY <1>21 DEF Check, turnVars
    <3>2. m.id < lastAsst'
      BY <2>1, <3>1, <1>p, <1>t DEF Consumed
    <3> QED BY <3>2, Zenon DEF FollowedUp
  <2>2. CASE g = f /\ ~Consumed(f)
    <3>1. \A i \in m.items : Redelivered(i) \in queue'
      BY <1>21, <2>2, <1>p DEF Check
    <3> QED BY <3>1, Zenon DEF FollowedUp, Redelivered
  <2>3. CASE g # f
    BY <1>21, <2>3, <1>t, <1>p DEF Check, Become, Pursues
  <2> QED BY <2>1, <2>2, <2>3
<1>22. CASE UNCHANGED vars
  BY <1>22, <1>p DEF vars, fiberVars, Pursues
<1> QED BY <1>1, <1>2, <1>3, <1>4, <1>5, <1>6, <1>7, <1>8, <1>9, <1>10, <1>11,
       <1>12, <1>13, <1>14, <1>15, <1>16, <1>17, <1>18, <1>19, <1>20, <1>21, <1>22
       DEF Next, System, Turn, Drain, Confirm

(* A new message with results has a writer, or is known to have had no turn.  *)
LEMMA NewMessageStep ==
    ASSUME TypeOK, NEW m \in stored', m \notin stored, m.items # {}, m.id \notin turnless',
           [Next]_vars
    PROVE  \E h \in Fibers : Pursues(h, m)'
<1>t. /\ pc \in [Fibers -> Stages] /\ batch \in [Fibers -> SUBSET Items]
      /\ msg \in [Fibers -> Nat] /\ nextId \in Nat /\ lastAsst \in Nat
      /\ \A n \in stored : n.id \in Nat
  BY DEF TypeOK, FiberTypes, StoreTypes, Messages
<1>1. CASE Prompt
  BY <1>1, UserMessageShape DEF Prompt
<1>2. CASE Read
  BY <1>2 DEF Read
<1>3. CASE Step
  BY <1>3 DEF Step
<1>4. CASE StepEnds
  BY <1>4 DEF StepEnds
<1>5. CASE TurnEnds
  BY <1>5 DEF TurnEnds
<1>6. CASE Stop
  BY <1>6 DEF Stop
<1>7. CASE TurnFails
  BY <1>7 DEF TurnFails
<1>8. ASSUME NEW r \in Results, Post(r) PROVE \E h \in Fibers : Pursues(h, m)'
  BY <1>8 DEF Post
<1>9. ASSUME NEW f \in Fibers, Peek(f) PROVE \E h \in Fibers : Pursues(h, m)'
  BY <1>9 DEF Peek
<1>10. ASSUME NEW f \in Fibers, PeekNothing(f) PROVE \E h \in Fibers : Pursues(h, m)'
  BY <1>10 DEF PeekNothing
<1>11. ASSUME NEW f \in Fibers, StandDown(f) PROVE \E h \in Fibers : Pursues(h, m)'
  BY <1>11 DEF StandDown
<1>12. ASSUME NEW f \in Fibers, Write(f) PROVE \E h \in Fibers : Pursues(h, m)'
  BY <1>12, WriterAdds, <1>t DEF Write, Become, Pursues, ByWriter
<1>13. ASSUME NEW f \in Fibers, Join(f) PROVE \E h \in Fibers : Pursues(h, m)'
  BY <1>13 DEF Join
<1>14. ASSUME NEW f \in Fibers, Landed(f) PROVE \E h \in Fibers : Pursues(h, m)'
  BY <1>14 DEF Landed
<1>15. ASSUME NEW f \in Fibers, Failed(f) PROVE \E h \in Fibers : Pursues(h, m)'
  BY <1>15 DEF Failed
<1>16. ASSUME NEW f \in Fibers, FallbackLands(f) PROVE \E h \in Fibers : Pursues(h, m)'
  BY <1>16, WriterAdds DEF FallbackLands, ByWriter
<1>17. ASSUME NEW f \in Fibers, FallbackFails(f) PROVE \E h \in Fibers : Pursues(h, m)'
  BY <1>17, WriterAdds DEF FallbackFails, ByWriter
<1>18. ASSUME NEW f \in Fibers, Retry(f) PROVE \E h \in Fibers : Pursues(h, m)'
  BY <1>18 DEF Retry
<1>19. ASSUME NEW f \in Fibers, SeesIdle(f) PROVE \E h \in Fibers : Pursues(h, m)'
  BY <1>19 DEF SeesIdle
<1>20. ASSUME NEW f \in Fibers, GivesUp(f) PROVE \E h \in Fibers : Pursues(h, m)'
  BY <1>20 DEF GivesUp
<1>21. ASSUME NEW f \in Fibers, Check(f) PROVE \E h \in Fibers : Pursues(h, m)'
  BY <1>21 DEF Check
<1>22. CASE UNCHANGED vars
  BY <1>22 DEF vars
<1> QED BY <1>1, <1>2, <1>3, <1>4, <1>5, <1>6, <1>7, <1>8, <1>9, <1>10, <1>11,
       <1>12, <1>13, <1>14, <1>15, <1>16, <1>17, <1>18, <1>19, <1>20, <1>21, <1>22
       DEF Next, System, Turn, Drain, Confirm

(* A message known to have had no turn stays known.                          *)
LEMMA TurnlessGrows ==
    ASSUME [Next]_vars
    PROVE  turnless \subseteq turnless'
  BY DEF Next, System, Turn, Drain, Confirm, vars, Prompt, Read, Step, StepEnds, TurnEnds, Stop,
         TurnFails, Post, Peek, PeekNothing, StandDown, Write, Join, Landed, Failed,
         FallbackLands, FallbackFails, Retry, SeesIdle, GivesUp, Check

(* A step keeps every such message followed up or pursued.                   *)
LEMMA FollowedStep ==
    ASSUME TypeOK, Unposted, Numbered, Own, Newest, There, Tracked, NoHalfWrites, AllWhole,
           Followed, [Next]_vars
    PROVE  Followed'
<1>1. SUFFICES ASSUME NEW m \in stored', m.busy, m.items # {}, m.id \notin turnless'
               PROVE  FollowedUp(m)' \/ \E h \in Fibers : Pursues(h, m)'
  BY DEF Followed
<1>2. AllWhole'
  BY AllWholeStep
<1>3. CASE m \notin stored
  BY <1>1, <1>3, NewMessageStep
<1>4. CASE m \in stored
  <2>1. m.id \notin turnless
    BY <1>1, TurnlessGrows
  <2>2. FollowedUp(m) \/ \E g \in Fibers : Pursues(g, m)
    BY <1>1, <1>4, <2>1 DEF Followed
  <2>3. CASE FollowedUp(m)
    BY <1>1, <1>2, <1>4, <2>3, FollowedUpStep
  <2>4. ASSUME NEW g \in Fibers, Pursues(g, m)
        PROVE  FollowedUp(m)' \/ \E h \in Fibers : Pursues(h, m)'
    BY <1>1, <1>4, <2>4, PursuitStep
  <2> QED BY <2>2, <2>3, <2>4
<1> QED BY <1>3, <1>4

----------------------------------------------------------------------------
(* Theorems *)

(* The first half of the invariant: at first,                                *)
LEMMA CoreInit == Init => Core
<1> SUFFICES ASSUME Init PROVE Core
  OBVIOUS
<1>1. TypeOK
  BY TypeInit
<1>2. \A f \in Fibers : pc[f] = "off" /\ msg[f] = 0
  BY DEF Init
<1>3. stored = {} /\ queue = {} /\ nextId = 1 /\ lastAsst = 0 /\ claimed = FALSE
  BY DEF Init
<1>4. Drainers = {}
  BY <1>2, StageNames DEF Drainers
<1>5. OneDrainer
  BY <1>3, <1>4, Zenon DEF OneDrainer
<1>6. Tally /\ Numbered /\ Own /\ Newest /\ There
  BY <1>2, <1>3, StageNames DEF Tally, Numbered, Own, Newest, There, Written, Working
<1>7. Unposted
  BY <1>2, FiberIds DEF Unposted
<1>8. LeftQueuedOnlyAfterRetries
  BY <1>3, Zenon DEF LeftQueuedOnlyAfterRetries
<1> QED BY <1>1, <1>5, <1>6, <1>7, <1>8 DEF Core

(* over a step,                                                              *)
LEMMA CoreStep == Core /\ [Next]_vars => Core'
  BY TypeStep, TallyStep, UnpostedStep, OneDrainerStep, LeftQueuedStep, NumberedStep, OwnStep,
     NewestStep, ThereStep DEF Core

(* and always.                                                               *)
LEMMA CoreHolds == Spec => []Core
  BY CoreInit, CoreStep, PTL DEF Spec

(* Every variable keeps its type.                                            *)
THEOREM TypeCorrect == Spec => []TypeOK
<1>1. Core => TypeOK
  BY DEF Core
<1> QED BY <1>1, CoreHolds, PTL

(* claimDrainer and releaseDrainer: at most one fiber drains a parent, and   *)
(* it holds the claim exactly as long as there is one.                       *)
THEOREM OneFiberDrains == Spec => []OneDrainer
<1>1. Core => OneDrainer
  BY DEF Core
<1> QED BY <1>1, CoreHolds, PTL

(* The ladder of deliver and DELIVERY_RETRY: results are left to the next    *)
(* sibling only after every attempt failed twice.                            *)
THEOREM ResultsWaitOnlyAfterRetries == Spec => []LeftQueuedOnlyAfterRetries
<1>1. Core => LeftQueuedOnlyAfterRetries
  BY DEF Core
<1> QED BY <1>1, CoreHolds, PTL

(* The second half: at first,                                                *)
LEMMA LandingInit == Init => Landing
<1> SUFFICES ASSUME Init PROVE Landing
  OBVIOUS
<1>1. stored = {} /\ posted = {} /\ \A f \in Fibers : pc[f] = "off"
  BY DEF Init
<1> QED BY <1>1 DEF Landing, AllWhole, Tracked, ResultsSurvive, Followed

(* over a step,                                                              *)
LEMMA LandingStep ==
    ASSUME NoHalfWrites, Core, Landing, [Next]_vars
    PROVE  Landing'
<1>1. AllWhole'
  BY AllWholeStep DEF Landing
<1>2. Tracked'
  BY TrackedStep DEF Core, Landing
<1>3. ResultsSurvive'
  BY SurvivalStep DEF Core, Landing
<1>4. Followed'
  BY FollowedStep DEF Core, Landing
<1> QED BY <1>1, <1>2, <1>3, <1>4 DEF Landing

(* and always.                                                               *)
LEMMA LandingHolds ==
    ASSUME NoHalfWrites
    PROVE  Spec => []Landing
<1>1. Core /\ Landing /\ [Next]_vars => Landing'
  BY LandingStep
<1> QED BY <1>1, LandingInit, CoreHolds, PTL DEF Spec

(* If a write that fails leaves nothing or the whole message, a result stays *)
(* queued until a message with its text is in the store.                     *)
THEOREM ResultsAreNotLost ==
    ASSUME NoHalfWrites
    PROVE  Spec => []ResultsSurvive
<1>1. Landing => ResultsSurvive
  BY DEF Landing
<1> QED BY <1>1, LandingHolds, PTL

(* Under the same condition confirmDelivery misses nothing: once all is      *)
(* quiet, what was written into a busy parent was read, overtaken by a reply *)
(* or written once more.                                                     *)
THEOREM BusyWritesAreConfirmed ==
    ASSUME NoHalfWrites
    PROVE  Spec => []BusyWritesAreFollowedUp
<1>1. Landing => BusyWritesAreFollowedUp
  <2> SUFFICES ASSUME Landing, Quiet, NEW m \in stored, m.busy, m.items # {},
                      m.id \notin turnless
               PROVE  FollowedUp(m)
    BY Zenon DEF BusyWritesAreFollowedUp, FollowedUp
  <2>1. ASSUME NEW f \in Fibers PROVE ~Pursues(f, m)
    BY DEF Pursues, Quiet
  <2>2. FollowedUp(m) \/ \E f \in Fibers : Pursues(f, m)
    BY Zenon DEF Landing, Followed
  <2> QED BY <2>1, <2>2
<1> QED BY <1>1, LandingHolds, PTL

----------------------------------------------------------------------------
(* How often a result is written.  Each copy in the store beyond the two of  *)
(* the first delivery and the re-delivery stands for a write that failed     *)
(* after it had landed, because what is still to be written is bounded: a    *)
(* result waits fresh, or it waits for its confirmation, or again, and never *)
(* in two of these ways.                                                     *)

Confirming(c) == pc[c] \in {"poll", "check"}

(* Where an item can be: what a writer holds is queued, what is confirmed is *)
(* fresh, held once and neither queued nor queued again, and a fresh item is *)
(* not queued beside its re-delivery.                                        *)
Handed ==
    /\ \A i \in queue : i.of \in posted /\ (~i.again => Redelivered(i) \notin queue)
    /\ \A f \in Fibers : pc[f] \in Working => batch[f] \subseteq queue
    /\ \A c \in Fibers : Confirming(c) => \A i \in batch[c] :
          /\ ~i.again /\ i.of \in posted /\ i \notin queue /\ Redelivered(i) \notin queue
          /\ \A d \in Fibers : Confirming(d) /\ i \in batch[d] => d = c

(* A fiber whose message is in the store and not dropped from the queue yet. *)
InStore(f) ==
    \/ pc[f] \in {"join", "turn", "landed"}
    \/ pc[f] = "failed" /\ Injected(f)

ToWrite(i) == i \in queue /\ \A f \in Fibers : InStore(f) => i \notin batch[f]

Second(r) == Redelivered(NewResult(r))

(* Two writes are left of a result, or one.                                  *)
Twice(r) == r \notin posted \/ ToWrite(NewResult(r))
Once(r) == \/ NewResult(r) \in queue \/ ToWrite(Second(r))
           \/ \E c \in Fibers : Confirming(c) /\ NewResult(r) \in batch[c]

Copies(r) == {m \in stored : Holds(m, r)}

Budget ==
    \A r \in Results :
        /\ Cardinality(Copies(r)) <= 2 + faults
        /\ Once(r) => Cardinality(Copies(r)) <= 1 + faults
        /\ Twice(r) => Cardinality(Copies(r)) <= faults

(* An item is its result, fresh or again.                                    *)
LEMMA TwoItems ==
    /\ \A r \in Results : /\ NewResult(r) \in Items /\ Second(r) \in Items
                          /\ NewResult(r).of = r /\ Second(r).of = r
                          /\ ~NewResult(r).again /\ Second(r).again
    /\ \A i \in Items : i.again => i = Second(i.of)
    /\ \A i \in Items : ~i.again => i = NewResult(i.of)
    /\ \A i \in Items : Redelivered(i) = Second(i.of)
  BY DEF Items, NewResult, Second, Redelivered

(* The items of the queue and of the fibers.                                 *)
LEMMA ItemSets ==
    ASSUME TypeOK
    PROVE  /\ queue \subseteq Items /\ posted \subseteq Results
           /\ pc \in [Fibers -> Stages] /\ batch \in [Fibers -> SUBSET Items]
           /\ msg \in [Fibers -> Nat] /\ faults \in Nat
  BY DEF TypeOK, StoreTypes, FiberTypes

(* A step that moves fibers within their parts keeps the items handed on.    *)
LEMMA HandedFrame ==
    ASSUME Handed, UNCHANGED << queue, batch, posted >>,
           \A f \in Fibers : /\ pc'[f] \in Working => pc[f] \in Working
                             /\ Confirming(f)' => Confirming(f)
    PROVE  Handed'
  BY DEF Handed

(* One fiber moves.                                                          *)
LEMMA HandedMove ==
    ASSUME TypeOK, Handed, UNCHANGED << queue, batch, posted >>, NEW f \in Fibers, NEW to,
           pc' = [pc EXCEPT ![f] = to],
           to \in Working => pc[f] \in Working,
           to \in {"poll", "check"} => Confirming(f)
    PROVE  Handed'
  BY HandedFrame, ItemSets DEF Confirming

(* The drainer goes back to the queue without what it wrote.                 *)
LEMMA HandedDrop ==
    ASSUME TypeOK, OneDrainer, Handed, NEW f \in Fibers, pc[f] \in Draining,
           queue' = queue \ batch[f], posted' = posted, pc' = [pc EXCEPT ![f] = "peek"],
           batch' = [batch EXCEPT ![f] = {}]
    PROVE  Handed'
<1> USE ItemSets
<1>1. \A g \in Fibers : g # f => pc'[g] = pc[g] /\ batch'[g] = batch[g]
  OBVIOUS
<1>2. \A g \in Fibers : pc'[g] \notin Working
  BY <1>1, StageNames DEF OneDrainer, Drainers, Working
<1>3. \A c \in Fibers : Confirming(c)' => Confirming(c) /\ batch'[c] = batch[c]
  BY <1>1 DEF Confirming
<1> QED BY <1>2, <1>3 DEF Handed

(* A confirmation that ends.                                                 *)
LEMMA HandedEnd ==
    ASSUME TypeOK, Handed, UNCHANGED << queue, posted >>, NEW c \in Fibers,
           Confirming(c), pc' = [pc EXCEPT ![c] = "done"], batch' = [batch EXCEPT ![c] = {}]
    PROVE  Handed'
<1> USE ItemSets
<1>1. \A g \in Fibers : g # c => pc'[g] = pc[g] /\ batch'[g] = batch[g]
  OBVIOUS
<1>2. \A g \in Fibers : /\ pc'[g] \in Working => g # c
                        /\ Confirming(g)' => g # c /\ Confirming(g)
  BY <1>1, StageNames DEF Confirming, Working
<1> QED BY <1>1, <1>2 DEF Handed

(* The end of a turn.                                                        *)
LEMMA HandedAnswer ==
    ASSUME Handed, UNCHANGED << queue, batch, posted >>, NEW outcome \in {"landed", "failed"},
           EndTurn(outcome)
    PROVE  Handed'
<1>1. \A f \in Fibers : pc'[f] = IF pc[f] = "turn" THEN outcome ELSE pc[f]
  BY AnswerMoves DEF EndTurn
<1>2. "turn" \in Working
  BY StageNames DEF Working
<1> QED BY <1>1, <1>2, HandedFrame DEF Confirming

(* A confirmation that found no reply queues its batch again.                *)
LEMMA HandedAgain ==
    ASSUME TypeOK, Handed, NEW c \in Fibers, pc[c] = "check",
           queue' = queue \cup {Redelivered(i) : i \in batch[c]}, posted' = posted,
           pc' = [pc EXCEPT ![c] = IF Claims THEN "peek" ELSE "done"],
           batch' = [batch EXCEPT ![c] = {}]
    PROVE  Handed'
<1> USE ItemSets
<1>1. \A g \in Fibers : g # c => pc'[g] = pc[g] /\ batch'[g] = batch[g]
  OBVIOUS
<1>2. \A g \in Fibers : /\ pc'[g] \in Working => g # c /\ pc[g] \in Working
                        /\ Confirming(g)' => g # c /\ Confirming(g)
  BY <1>1, StageNames DEF Confirming, Working
<1>3. Confirming(c)
  BY DEF Confirming
<1>4. \A i \in batch[c] : /\ i \in Items /\ ~i.again /\ i.of \in posted /\ i \notin queue
                          /\ Redelivered(i).again /\ Redelivered(i).of = i.of
                          /\ Redelivered(i) \in Items
  BY <1>3, TwoItems, ItemType DEF Handed
<1>5. ASSUME NEW j \in queue' PROVE j.of \in posted /\ (~j.again => Redelivered(j) \notin queue')
  <2>1. CASE j \in queue
    <3>1. ASSUME ~j.again, NEW i \in batch[c], Redelivered(i) = Redelivered(j) PROVE FALSE
      <4>1. i \in Items /\ j \in Items /\ i.of \in Results /\ j.of \in Results
        BY <2>1, <1>4, ItemType
      <4>2. Redelivered(i).of = i.of /\ Redelivered(j).of = j.of
        BY <4>1, TwoItems
      <4>3. i = NewResult(i.of) /\ j = NewResult(j.of)
        BY <4>1, <3>1, <1>4, TwoItems
      <4> QED BY <2>1, <3>1, <4>2, <4>3, <1>4
    <3> QED BY <2>1, <3>1 DEF Handed
  <2>2. CASE j \notin queue
    BY <2>2, <1>4
  <2> QED BY <2>1, <2>2
<1>6. ASSUME NEW d \in Fibers, Confirming(d)', NEW j \in batch'[d]
      PROVE  /\ ~j.again /\ j.of \in posted /\ j \notin queue' /\ Redelivered(j) \notin queue'
             /\ \A e \in Fibers : Confirming(e)' /\ j \in batch'[e] => e = d
  <2>1. d # c /\ Confirming(d) /\ j \in batch[d] /\ j \in Items
    BY <1>1, <1>2, <1>6
  <2>2. /\ ~j.again /\ j.of \in posted /\ j \notin queue /\ Redelivered(j) \notin queue
        /\ \A e \in Fibers : Confirming(e) /\ j \in batch[e] => e = d
    BY <2>1 DEF Handed
  <2>3. ASSUME NEW i \in batch[c], Redelivered(i) = Redelivered(j) PROVE FALSE
    <3>1. i = j
      BY <2>1, <2>2, <2>3, <1>4, TwoItems
    <3> QED BY <3>1, <2>1, <2>2, <1>3
  <2> QED BY <2>2, <2>3, <1>1, <1>2, <1>4
<1> QED BY <1>1, <1>2, <1>5, <1>6 DEF Handed

(* A landed write becomes a confirmation: its items leave the queue.         *)
LEMMA HandedConfirm ==
    ASSUME TypeOK, OneDrainer, Handed, NEW f \in Fibers, NEW c \in Fibers, pc[f] = "landed",
           pc[c] \in {"off", "done"}, Fresh(f),
           queue' = queue \ batch[f], posted' = posted,
           pc' = [pc EXCEPT ![f] = "peek", ![c] = "poll"],
           batch' = [batch EXCEPT ![f] = {}, ![c] = batch[f]]
    PROVE  Handed'
<1> USE ItemSets
<1>1. \A g \in Fibers : g \notin {f, c} => pc'[g] = pc[g] /\ batch'[g] = batch[g]
  OBVIOUS
<1>2. pc'[f] = "peek" /\ pc'[c] = "poll" /\ batch'[c] = batch[f]
  OBVIOUS
<1>3. \A g \in Fibers : pc'[g] \notin Working
  BY <1>1, <1>2, StageNames DEF OneDrainer, Drainers, Working
<1>4. \A d \in Fibers : Confirming(d)' =>
        d = c \/ (d # c /\ Confirming(d) /\ batch'[d] = batch[d])
  BY <1>1, <1>2 DEF Confirming
<1>5. batch[f] \subseteq queue
  BY StageNames DEF Handed, Working
<1>6. ASSUME NEW d \in Fibers, Confirming(d)', NEW j \in batch'[d]
      PROVE  /\ ~j.again /\ j.of \in posted /\ j \notin queue' /\ Redelivered(j) \notin queue'
             /\ \A e \in Fibers : Confirming(e)' /\ j \in batch'[e] => e = d
  <2>1. CASE d = c
    <3>1. j \in queue /\ j \notin queue' /\ ~j.again
      BY <1>2, <1>5, <1>6, <2>1 DEF Fresh
    <3>2. ASSUME NEW e \in Fibers, Confirming(e)', j \in batch'[e] PROVE e = c
      BY <3>1, <3>2, <1>4 DEF Handed
    <3> QED BY <2>1, <3>1, <3>2 DEF Handed
  <2>2. CASE d # c
    <3>1. Confirming(d) /\ j \in batch[d]
      BY <1>4, <1>6, <2>2
    <3>2. /\ ~j.again /\ j.of \in posted /\ j \notin queue /\ Redelivered(j) \notin queue
          /\ \A e \in Fibers : Confirming(e) /\ j \in batch[e] => e = d
      BY <3>1 DEF Handed
    <3>3. ASSUME NEW e \in Fibers, Confirming(e)', j \in batch'[e] PROVE e = d
      BY <3>2, <3>3, <1>2, <1>4, <1>5
    <3> QED BY <3>2, <3>3
  <2> QED BY <2>1, <2>2
<1> QED BY <1>3, <1>6 DEF Handed

(* A result that finishes, and a drainer that takes up the queue.            *)
LEMMA HandedPost ==
    ASSUME TypeOK, Handed, NEW r \in Results, Post(r)
    PROVE  Handed'
<1> USE ItemSets, FiberIds
<1> DEFINE n == << "notify", r >>
<1>1. /\ r \notin posted /\ posted' = posted \cup {r} /\ queue' = queue \cup {NewResult(r)}
      /\ batch' = batch /\ \A g \in Fibers : g # n => pc'[g] = pc[g]
      /\ pc'[n] \in {"peek", "done"}
  BY DEF Post, Become
<1>2. \A g \in Fibers : /\ pc'[g] \in Working => pc[g] \in Working
                        /\ Confirming(g)' => Confirming(g)
  BY <1>1, StageNames DEF Confirming, Working
<1>3. ASSUME NEW j \in queue' PROVE j.of \in posted' /\ (~j.again => Redelivered(j) \notin queue')
  <2>1. CASE j \in queue
    BY <1>1, <2>1, TwoItems DEF Handed
  <2>2. CASE j = NewResult(r)
    <3>1. Redelivered(j) = Second(r) /\ Second(r).of = r /\ Second(r).again /\ ~j.again
      BY <2>2, TwoItems
    <3> QED BY <1>1, <2>2, <3>1, TwoItems DEF Handed
  <2> QED BY <1>1, <2>1, <2>2
<1>4. ASSUME NEW d \in Fibers, Confirming(d)', NEW j \in batch'[d]
      PROVE  /\ ~j.again /\ j.of \in posted' /\ j \notin queue' /\ Redelivered(j) \notin queue'
             /\ \A e \in Fibers : Confirming(e)' /\ j \in batch'[e] => e = d
  <2>1. Confirming(d) /\ j \in batch[d] /\ j \in Items
    BY <1>1, <1>2, <1>4
  <2>2. /\ ~j.again /\ j.of \in posted /\ j \notin queue /\ Redelivered(j) \notin queue
        /\ \A e \in Fibers : Confirming(e) /\ j \in batch[e] => e = d
    BY <2>1 DEF Handed
  <2>3. j # NewResult(r) /\ Redelivered(j) # NewResult(r)
    BY <1>1, <2>1, <2>2, TwoItems
  <2> QED BY <1>1, <1>2, <2>2, <2>3
<1>5. \A g \in Fibers : pc'[g] \in Working => batch'[g] \subseteq queue'
  BY <1>1, <1>2 DEF Handed
<1> QED BY <1>3, <1>4, <1>5 DEF Handed

(* A step keeps the items handed on.                                         *)
LEMMA HandedStep == TypeOK /\ OneDrainer /\ Handed /\ [Next]_vars => Handed'
<1> SUFFICES ASSUME TypeOK, OneDrainer, Handed, [Next]_vars PROVE Handed'
  OBVIOUS
<1> USE DEF fiberVars, turnVars
<1>s. {"write", "join", "turn", "landed", "failed", "fallback", "retry", "standdown"} = Working
  BY StageNames DEF Working
<1>1. CASE Prompt \/ Read \/ Step \/ StepEnds \/ UNCHANGED vars
  BY <1>1, HandedFrame DEF Prompt, Read, Step, StepEnds, vars, Confirming
<1>2. CASE TurnEnds
  BY <1>2, HandedAnswer DEF TurnEnds
<1>3. CASE Stop
  BY <1>3, HandedAnswer DEF Stop
<1>4. CASE TurnFails
  BY <1>4, HandedAnswer DEF TurnFails
<1>5. ASSUME NEW r \in Results, Post(r) PROVE Handed'
  BY <1>5, HandedPost
<1>6. ASSUME NEW f \in Fibers, Peek(f) PROVE Handed'
  <2> USE ItemSets
  <2>1. /\ UNCHANGED << queue, posted >> /\ pc[f] = "peek" /\ pc'[f] = "write"
        /\ batch'[f] = queue
        /\ \A g \in Fibers : g # f => pc'[g] = pc[g] /\ batch'[g] = batch[g]
    BY <1>6 DEF Peek, Prepare, Become
  <2>2. \A g \in Fibers : Confirming(g)' => Confirming(g) /\ g # f
    BY <2>1 DEF Confirming
  <2> QED BY <2>1, <2>2 DEF Handed
<1>7. ASSUME NEW f \in Fibers, PeekNothing(f) \/ StandDown(f) PROVE Handed'
  BY <1>7, <1>s, HandedMove DEF PeekNothing, StandDown, Release, Become
<1>8. ASSUME NEW f \in Fibers, Write(f) PROVE Handed'
  <2>1. /\ UNCHANGED << queue, batch, posted >> /\ pc[f] \in Working
        /\ \E to \in {"join", "failed"} : pc' = [pc EXCEPT ![f] = to]
    BY <1>8, <1>s DEF Write, Become
  <2> QED BY <2>1, HandedMove
<1>9. ASSUME NEW f \in Fibers, Join(f) PROVE Handed'
  BY <1>9, <1>s, HandedMove DEF Join, Become
<1>10. ASSUME NEW f \in Fibers, Landed(f) PROVE Handed'
  <2>1. pc[f] = "landed" /\ queue' = queue \ batch[f] /\ posted' = posted
    BY <1>10 DEF Landed, Drop
  <2>2. CASE Confirms(f)
    <3>1. PICK i \in batch[f] : LET c == << "confirm", i.of >> IN
             /\ pc[c] \in {"off", "done"}
             /\ pc' = [pc EXCEPT ![f] = "peek", ![c] = "poll"]
             /\ batch' = [batch EXCEPT ![f] = {}, ![c] = batch[f]]
      BY <1>10, <2>2 DEF Landed
    <3>2. << "confirm", i.of >> \in Fibers
      BY FiberIds, ItemType, ItemSets
    <3> QED BY <2>1, <2>2, <3>1, <3>2, HandedConfirm DEF Confirms
  <2>3. CASE ~Confirms(f)
    BY <1>10, <2>1, <2>3, StageNames, HandedDrop DEF Landed, Become
  <2> QED BY <2>2, <2>3
<1>11. ASSUME NEW f \in Fibers, Failed(f) PROVE Handed'
  <2>1. CASE Injected(f)
    BY <1>11, <2>1, StageNames, HandedDrop DEF Failed, Settled, Become, Drop
  <2>2. CASE ~Injected(f)
    BY <1>11, <2>2, <1>s, HandedMove DEF Failed, Become
  <2> QED BY <2>1, <2>2
<1>12. ASSUME NEW f \in Fibers, FallbackLands(f) PROVE Handed'
  BY <1>12, StageNames, HandedDrop DEF FallbackLands, Settled, Become, Drop
<1>13. ASSUME NEW f \in Fibers, FallbackFails(f) PROVE Handed'
  BY <1>13, <1>s, HandedMove DEF FallbackFails, Become
<1>14. ASSUME NEW f \in Fibers, Retry(f) PROVE Handed'
  <2>1. batch' = batch
    BY <1>14, ItemSets DEF Retry, Prepare
  <2> QED BY <1>14, <2>1, <1>s, HandedMove DEF Retry, Prepare, Become
<1>15. ASSUME NEW c \in Fibers, SeesIdle(c) PROVE Handed'
  BY <1>15, <1>s, HandedMove DEF SeesIdle, Become, Confirming
<1>16. ASSUME NEW c \in Fibers, GivesUp(c) PROVE Handed'
  BY <1>16, HandedEnd DEF GivesUp, Become, Confirming
<1>17. ASSUME NEW c \in Fibers, Check(c) PROVE Handed'
  <2>1. CASE Consumed(c)
    BY <1>17, <2>1, HandedEnd DEF Check, Become, Confirming
  <2>2. CASE ~Consumed(c)
    BY <1>17, <2>2, HandedAgain DEF Check, Become
  <2> QED BY <2>1, <2>2
<1> QED BY <1>1, <1>2, <1>3, <1>4, <1>5, <1>6, <1>7, <1>8, <1>9, <1>10, <1>11, <1>12, <1>13,
       <1>14, <1>15, <1>16, <1>17 DEF Next, System, Turn, Drain, Confirm

(* A set with at most one element more.                                      *)
LEMMA OneMore ==
    ASSUME NEW S, NEW T, NEW x, IsFiniteSet(S), S \subseteq T, T \subseteq S \cup {x}
    PROVE  /\ IsFiniteSet(T) /\ Cardinality(S) \in Nat /\ Cardinality(T) \in Nat
           /\ Cardinality(T) <= Cardinality(S) + 1
<1>1. T = S \/ T = S \cup {x}
  OBVIOUS
<1>2. /\ IsFiniteSet(S \cup {x})
      /\ Cardinality(S \cup {x}) = Cardinality(S) \/ Cardinality(S \cup {x}) = Cardinality(S) + 1
  BY FS_AddElement
<1>3. Cardinality(S) \in Nat
  BY FS_CardinalityType
<1> QED BY <1>1, <1>2, <1>3

(* Copies are counted.                                                       *)
LEMMA CopiesCounted ==
    ASSUME IsFiniteSet(stored), NEW r
    PROVE  IsFiniteSet(Copies(r)) /\ Cardinality(Copies(r)) \in Nat
<1>1. Copies(r) \in SUBSET stored
  BY DEF Copies
<1> QED BY <1>1, FS_Subset, FS_CardinalityType

(* A message more is at most a copy more.                                    *)
LEMMA CopiesGrow ==
    ASSUME IsFiniteSet(stored), NEW x, stored \subseteq stored', stored' \subseteq stored \cup {x},
           NEW r
    PROVE  /\ IsFiniteSet(stored')
           /\ Cardinality(Copies(r)) \in Nat /\ Cardinality(Copies(r)') \in Nat
           /\ Cardinality(Copies(r)') <= Cardinality(Copies(r)) + 1
           /\ ~Holds(x, r) => Copies(r)' = Copies(r)
<1>1. Copies(r) \subseteq Copies(r)' /\ Copies(r)' \subseteq Copies(r) \cup {x}
  BY DEF Copies, Holds
<1>2. ~Holds(x, r) => Copies(r)' = Copies(r)
  BY <1>1 DEF Copies, Holds
<1>3. IsFiniteSet(stored')
  BY OneMore
<1> QED BY <1>1, <1>2, <1>3, CopiesCounted, OneMore

(* A step that writes no copy and gains no right to write one.               *)
LEMMA BudgetKept ==
    ASSUME Budget, IsFiniteSet(stored), faults \in Nat, faults' \in {faults, faults + 1},
           \A r \in Results : /\ Copies(r)' = Copies(r)
                              /\ Once(r)' => Once(r) \/ Twice(r)
                              /\ Twice(r)' => Twice(r)
    PROVE  Budget'
<1>1. \A r \in Results : Cardinality(Copies(r)) \in Nat
  BY CopiesCounted
<1> HIDE DEF Copies, Once, Twice
<1> QED BY <1>1 DEF Budget

(* A failed write may leave a copy, which its fault stands for.              *)
LEMMA BudgetFault ==
    ASSUME Budget, IsFiniteSet(stored), faults \in Nat, faults' = faults + 1,
           NEW x, stored \subseteq stored', stored' \subseteq stored \cup {x},
           \A r \in Results : (Once(r)' => Once(r)) /\ (Twice(r)' => Twice(r))
    PROVE  Budget'
<1>1. \A r \in Results : /\ Cardinality(Copies(r)) \in Nat /\ Cardinality(Copies(r)') \in Nat
                         /\ Cardinality(Copies(r)') <= Cardinality(Copies(r)) + 1
  BY CopiesGrow
<1> QED BY <1>1 DEF Budget

(* What a fiber has in the store stays there until the fiber moves on.       *)
LEMMA InStoreStays ==
    ASSUME NEW g, pc'[g] = pc[g], msg'[g] = msg[g], stored \subseteq stored', InStore(g)
    PROVE  InStore(g)'
  BY DEF InStore, Injected, Ids

(* While the drainer's batch is not in the store, all the queue is to write. *)
LEMMA AllToWrite ==
    ASSUME OneDrainer, NEW f \in Fibers, pc[f] \in Draining, ~InStore(f)
    PROVE  \A g \in Fibers : ~InStore(g)
  BY StageNames DEF OneDrainer, Drainers, InStore

(* One fiber moves and gains no right to write.                              *)
LEMMA OneMoves ==
    ASSUME NEW f \in Fibers, queue' \subseteq queue, posted' = posted, stored \subseteq stored',
           \A g \in Fibers : g # f =>
              pc'[g] = pc[g] /\ batch'[g] = batch[g] /\ msg'[g] = msg[g],
           InStore(f) => \/ InStore(f)' /\ batch'[f] = batch[f]
                         \/ queue' = queue \ batch[f],
           Confirming(f)' => Confirming(f) /\ batch'[f] = batch[f]
    PROVE  \A r \in Results : (Once(r)' => Once(r)) /\ (Twice(r)' => Twice(r))
<1>1. ASSUME NEW i, ToWrite(i)' PROVE ToWrite(i)
  <2> SUFFICES ASSUME NEW g \in Fibers, InStore(g) PROVE i \notin batch[g]
    BY <1>1 DEF ToWrite
  <2>1. CASE g = f
    BY <1>1, <2>1 DEF ToWrite
  <2>2. CASE g # f
    <3>1. InStore(g)' /\ batch'[g] = batch[g]
      BY <2>2, InStoreStays
    <3> QED BY <1>1, <3>1 DEF ToWrite
  <2> QED BY <2>1, <2>2
<1>2. \A c \in Fibers : Confirming(c)' => Confirming(c) /\ batch'[c] = batch[c]
  BY DEF Confirming
<1>3. \A r \in Results : NewResult(r)' = NewResult(r) /\ Second(r)' = Second(r)
  BY DEF NewResult, Second, Redelivered
<1> QED BY <1>1, <1>2, <1>3 DEF Once, Twice

(* A write that lands spends a right to write for each result it holds.      *)
LEMMA BudgetLands ==
    ASSUME TypeOK, OneDrainer, Handed, Budget, IsFiniteSet(stored),
           NEW f \in Fibers, pc[f] \in {"write", "fallback"},
           stored' = stored \cup {Message(f, TRUE)}, faults' = faults, posted' = posted,
           queue' \subseteq queue, \A i \in batch[f] : ~ToWrite(i)',
           \A c \in Fibers : Confirming(c)' => Confirming(c) /\ batch'[c] = batch[c]
    PROVE  Budget'
<1> USE ItemSets
<1>1. pc[f] \in Working /\ pc[f] \in Draining /\ ~InStore(f)
  BY StageNames DEF Working, InStore
<1>2. \A i : ToWrite(i) <=> i \in queue
  BY <1>1, AllToWrite DEF ToWrite
<1>3. batch[f] \subseteq queue /\ batch[f] \subseteq Items
  BY <1>1 DEF Handed
<1>4. \A i : ToWrite(i)' => ToWrite(i)
  BY <1>2 DEF ToWrite
<1>5. ASSUME NEW r \in Results
      PROVE  /\ Cardinality(Copies(r)') <= 2 + faults
             /\ Once(r)' => Cardinality(Copies(r)') <= 1 + faults
             /\ Twice(r)' => Cardinality(Copies(r)') <= faults
  <2>1. /\ Cardinality(Copies(r)) \in Nat /\ Cardinality(Copies(r)') \in Nat
        /\ Cardinality(Copies(r)') <= Cardinality(Copies(r)) + 1
        /\ ~Holds(Message(f, TRUE), r) => Copies(r)' = Copies(r)
    BY CopiesGrow
  <2>2. /\ NewResult(r)' = NewResult(r) /\ Second(r)' = Second(r)
        /\ NewResult(r) \in Items /\ NewResult(r).of = r /\ ~NewResult(r).again
        /\ Second(r).of = r /\ Second(r) = Redelivered(NewResult(r))
    BY TwoItems DEF NewResult, Second, Redelivered
  <2>3. CASE NewResult(r) \in batch[f]
    <3>1. Twice(r) /\ ~Twice(r)'
      BY <1>2, <1>3, <2>2, <2>3 DEF Twice, Handed
    <3> QED BY <2>1, <3>1 DEF Budget
  <2>4. CASE Second(r) \in batch[f]
    <3>1. Once(r)
      BY <1>2, <1>3, <2>4 DEF Once
    <3>2. Second(r) \in queue /\ NewResult(r) \notin queue /\ r \in posted
      BY <1>3, <2>2, <2>4 DEF Handed
    <3>3. ~Once(r)' /\ ~Twice(r)'
      BY <1>2, <1>4, <2>2, <2>4, <3>2 DEF Once, Twice, Handed
    <3> QED BY <2>1, <3>1, <3>3 DEF Budget
  <2>5. CASE NewResult(r) \notin batch[f] /\ Second(r) \notin batch[f]
    <3>1. \A i \in batch[f] : i.of # r
      BY <1>3, <2>5, TwoItems
    <3>2. ~Holds(Message(f, TRUE), r)
      BY <3>1, MessageShape DEF Holds, ByWriter
    <3>3. (Once(r)' => Once(r)) /\ (Twice(r)' => Twice(r))
      BY <1>4, <2>2 DEF Once, Twice
    <3> QED BY <2>1, <3>2, <3>3 DEF Budget
  <2> QED BY <2>3, <2>4, <2>5
<1> QED BY <1>5 DEF Budget

(* A landed write whose confirmation is still to come.                       *)
LEMMA ConfirmKeeps ==
    ASSUME TypeOK, Handed, NEW f \in Fibers, NEW c \in Fibers, pc[f] = "landed",
           pc[c] \in {"off", "done"},
           queue' = queue \ batch[f], UNCHANGED << posted, stored >>,
           pc' = [pc EXCEPT ![f] = "peek", ![c] = "poll"],
           batch' = [batch EXCEPT ![f] = {}, ![c] = batch[f]],
           msg' = [msg EXCEPT ![f] = 0, ![c] = msg[f]]
    PROVE  \A r \in Results : (Once(r)' => Once(r)) /\ (Twice(r)' => Twice(r))
<1> USE ItemSets
<1>1. \A g \in Fibers : g \notin {f, c} =>
         pc'[g] = pc[g] /\ batch'[g] = batch[g] /\ msg'[g] = msg[g]
  OBVIOUS
<1>2. pc'[f] = "peek" /\ batch'[c] = batch[f] /\ batch[f] \subseteq queue
  BY StageNames DEF Handed, Working
<1>3. ASSUME NEW i, ToWrite(i)' PROVE ToWrite(i)
  <2> SUFFICES ASSUME NEW g \in Fibers, InStore(g) PROVE i \notin batch[g]
    BY <1>3 DEF ToWrite
  <2>1. CASE g = f
    BY <1>3, <2>1 DEF ToWrite
  <2>2. CASE g # f
    <3>1. g # c
      BY DEF InStore
    <3>2. InStore(g)' /\ batch'[g] = batch[g]
      BY <1>1, <2>2, <3>1, InStoreStays
    <3> QED BY <1>3, <3>2 DEF ToWrite
  <2> QED BY <2>1, <2>2
<1>4. \A d \in Fibers : Confirming(d)' =>
         d = c \/ (Confirming(d) /\ batch'[d] = batch[d])
  BY <1>1, <1>2 DEF Confirming
<1>5. \A r \in Results : NewResult(r)' = NewResult(r) /\ Second(r)' = Second(r)
  BY DEF NewResult, Second, Redelivered
<1> QED BY <1>2, <1>3, <1>4, <1>5 DEF Once, Twice

(* A re-delivery was a confirmation, and a new result one not handed over.   *)
LEMMA AgainKeeps ==
    ASSUME TypeOK, Handed, NEW c \in Fibers, pc[c] = "check",
           queue' = queue \cup {Redelivered(i) : i \in batch[c]}, UNCHANGED << posted, stored >>,
           pc' = [pc EXCEPT ![c] = IF Claims THEN "peek" ELSE "done"],
           batch' = [batch EXCEPT ![c] = {}], msg' = [msg EXCEPT ![c] = 0]
    PROVE  \A r \in Results : (Once(r)' => Once(r)) /\ (Twice(r)' => Twice(r))
<1> USE ItemSets
<1>1. \A g \in Fibers : g # c => pc'[g] = pc[g] /\ batch'[g] = batch[g] /\ msg'[g] = msg[g]
  OBVIOUS
<1>2. pc'[c] \in {"peek", "done"} /\ Confirming(c) /\ ~InStore(c)
  BY DEF Confirming, InStore
<1>3. ASSUME NEW i \in queue, ToWrite(i)' PROVE ToWrite(i)
  <2> SUFFICES ASSUME NEW g \in Fibers, InStore(g) PROVE i \notin batch[g]
    BY <1>3 DEF ToWrite
  <2>1. InStore(g)' /\ batch'[g] = batch[g]
    BY <1>1, <1>2, InStoreStays
  <2> QED BY <1>3, <2>1 DEF ToWrite
<1>4. \A d \in Fibers : Confirming(d)' => Confirming(d) /\ batch'[d] = batch[d]
  BY <1>1, <1>2 DEF Confirming
<1>5. ASSUME NEW r \in Results PROVE (Once(r)' => Once(r)) /\ (Twice(r)' => Twice(r))
  <2>1. /\ NewResult(r)' = NewResult(r) /\ Second(r)' = Second(r)
        /\ ~NewResult(r).again /\ Second(r).of = r
    BY TwoItems DEF NewResult, Second, Redelivered
  <2>2. \A i \in batch[c] : i \in Items /\ ~i.again /\ i = NewResult(i.of)
                            /\ Redelivered(i).of = i.of /\ Redelivered(i).again
    BY <1>2, TwoItems, ItemType DEF Handed
  <2>3. NewResult(r) \in queue' => NewResult(r) \in queue
    BY <2>1, <2>2
  <2>4. Second(r) \in queue' => Second(r) \in queue \/ NewResult(r) \in batch[c]
    BY <2>1, <2>2
  <2>5. ToWrite(NewResult(r))' => ToWrite(NewResult(r))
    BY <1>3, <2>1, <2>3 DEF ToWrite
  <2>6. ToWrite(Second(r))' => Once(r)
    BY <1>2, <1>3, <2>1, <2>4 DEF ToWrite, Once
  <2>7. (\E d \in Fibers : Confirming(d) /\ NewResult(r) \in batch[d])' => Once(r)
    BY <1>4, <2>1 DEF Once
  <2> QED BY <2>1, <2>3, <2>5, <2>6, <2>7 DEF Once, Twice
<1> QED BY <1>5

(* A new result had both its writes left.                                    *)
LEMMA PostKeeps ==
    ASSUME TypeOK, Unposted, NEW s \in Results, Post(s)
    PROVE  \A r \in Results : (Once(r)' => Once(r) \/ Twice(r)) /\ (Twice(r)' => Twice(r))
<1> USE ItemSets, FiberIds
<1> DEFINE n == << "notify", s >>
<1>1. /\ s \notin posted /\ posted' = posted \cup {s} /\ queue' = queue \cup {NewResult(s)}
      /\ batch' = batch /\ msg' = msg /\ stored' = stored
      /\ \A g \in Fibers : g # n => pc'[g] = pc[g]
      /\ pc'[n] \in {"peek", "done"} /\ pc[n] = "off"
  BY DEF Post, Become, Unposted
<1>2. ASSUME NEW i \in queue, ToWrite(i)' PROVE ToWrite(i)
  <2> SUFFICES ASSUME NEW g \in Fibers, InStore(g) PROVE i \notin batch[g]
    BY <1>2 DEF ToWrite
  <2>1. g # n
    BY <1>1 DEF InStore
  <2>2. InStore(g)'
    BY <1>1, <2>1, InStoreStays
  <2> QED BY <1>1, <1>2, <2>2 DEF ToWrite
<1>3. \A d \in Fibers : Confirming(d)' => Confirming(d)
  BY <1>1 DEF Confirming
<1>4. ASSUME NEW r \in Results, r # s PROVE (Once(r)' => Once(r)) /\ (Twice(r)' => Twice(r))
  <2>1. /\ NewResult(r)' = NewResult(r) /\ Second(r)' = Second(r)
        /\ NewResult(r) # NewResult(s) /\ Second(r) # NewResult(s)
    BY <1>4, TwoItems DEF NewResult, Second, Redelivered
  <2>2. (NewResult(r) \in queue' => NewResult(r) \in queue)
        /\ (Second(r) \in queue' => Second(r) \in queue)
    BY <1>1, <2>1
  <2>3. (ToWrite(NewResult(r))' => ToWrite(NewResult(r)))
        /\ (ToWrite(Second(r))' => ToWrite(Second(r)))
    BY <1>2, <2>1, <2>2 DEF ToWrite
  <2> QED BY <1>1, <1>3, <1>4, <2>1, <2>2, <2>3 DEF Once, Twice
<1>5. Twice(s)
  BY <1>1 DEF Twice
<1> QED BY <1>4, <1>5

(* A user's message is no copy.                                              *)
LEMMA PromptKeeps ==
    ASSUME TypeOK, Prompt
    PROVE  \A r \in Results : /\ Copies(r)' = Copies(r)
                              /\ Once(r)' => Once(r)
                              /\ Twice(r)' => Twice(r)
<1>1. /\ stored' = stored \cup {UserMessage}
      /\ UNCHANGED << queue, posted, pc, batch, msg >>
  BY DEF Prompt, fiberVars
<1>2. \A r : ~Holds(UserMessage, r)
  BY UserMessageShape DEF Holds
<1>3. \A r : Copies(r)' = Copies(r)
  BY <1>1, <1>2 DEF Copies, Holds
<1>4. \A g \in Fibers : InStore(g) => InStore(g)'
  BY <1>1, InStoreStays
<1>5. \A i : ToWrite(i)' => ToWrite(i)
  BY <1>1, <1>4 DEF ToWrite
<1>6. \A r \in Results : NewResult(r)' = NewResult(r) /\ Second(r)' = Second(r)
  BY DEF NewResult, Second, Redelivered
<1> QED BY <1>1, <1>3, <1>5, <1>6 DEF Once, Twice, Confirming

(* The parent's turn writes no copy, and its end fails no writer whose       *)
(* message is missing.                                                       *)
LEMMA TurnKeeps ==
    ASSUME TypeOK, There, UNCHANGED << queue, posted, batch, msg, stored >>,
           \/ pc' = pc
           \/ \E outcome \in {"landed", "failed"} : EndTurn(outcome)
    PROVE  \A r \in Results : (Once(r)' => Once(r)) /\ (Twice(r)' => Twice(r))
<1>1. \A g \in Fibers : \/ pc'[g] = pc[g]
                        \/ pc[g] = "turn" /\ pc'[g] \in {"landed", "failed"}
  BY AnswerMoves DEF EndTurn
<1>2. ASSUME NEW g \in Fibers, InStore(g) PROVE InStore(g)'
  <2>1. CASE pc'[g] = pc[g]
    BY <1>2, <2>1, InStoreStays
  <2>2. CASE pc[g] = "turn" /\ pc'[g] \in {"landed", "failed"}
    BY <2>2 DEF InStore, Injected, There, Written, Ids
  <2> QED BY <1>1, <2>1, <2>2
<1>3. \A g \in Fibers : Confirming(g)' => Confirming(g)
  BY <1>1 DEF Confirming
<1>4. \A i : ToWrite(i)' => ToWrite(i)
  BY <1>2 DEF ToWrite
<1>5. \A r \in Results : NewResult(r)' = NewResult(r) /\ Second(r)' = Second(r)
  BY DEF NewResult, Second, Redelivered
<1> QED BY <1>3, <1>4, <1>5 DEF Once, Twice

(* What a write that failed leaves is one message at most.                   *)
LEMMA LeavesOne ==
    ASSUME NEW f, NEW kind
    PROVE  \E x : Left(f, kind) \subseteq {x}
  BY DEF Left

Stocked == IsFiniteSet(stored) /\ Handed /\ Budget

(* A step that leaves the store alone.                                       *)
LEMMA StoreSame ==
    ASSUME TypeOK, Stocked, stored' = stored, faults' \in {faults, faults + 1},
           \A r \in Results : (Once(r)' => Once(r) \/ Twice(r)) /\ (Twice(r)' => Twice(r))
    PROVE  IsFiniteSet(stored') /\ Budget'
<1>1. \A r : Copies(r)' = Copies(r)
  BY DEF Copies, Holds
<1> QED BY <1>1, BudgetKept, ItemSets DEF Stocked

(* A step keeps the count of copies within what the faults stand for.        *)
LEMMA BudgetStep ==
    ASSUME Core, Stocked, [Next]_vars
    PROVE  IsFiniteSet(stored') /\ Budget'
<1> DEFINE Goal == IsFiniteSet(stored') /\ Budget'
<1>0. /\ TypeOK /\ OneDrainer /\ Unposted /\ There
      /\ IsFiniteSet(stored) /\ Handed /\ Budget
  BY DEF Core, Stocked
<1> USE <1>0, ItemSets DEF fiberVars, turnVars
<1>1. CASE Prompt
  <2>1. stored \subseteq stored' /\ stored' \subseteq stored \cup {UserMessage} /\ faults' = faults
    BY <1>1 DEF Prompt
  <2>2. IsFiniteSet(stored')
    BY <2>1, OneMore
  <2> QED BY <1>1, <2>1, <2>2, PromptKeeps, BudgetKept
<1>2. CASE Read \/ Step \/ StepEnds
  BY <1>2, TurnKeeps, StoreSame DEF Read, Step, StepEnds
<1>3. CASE TurnEnds
  BY <1>3, TurnKeeps, StoreSame DEF TurnEnds
<1>4. CASE Stop
  BY <1>4, TurnKeeps, StoreSame DEF Stop
<1>5. CASE TurnFails
  BY <1>5, TurnKeeps, StoreSame DEF TurnFails
<1>6. ASSUME NEW r \in Results, Post(r) PROVE Goal
  <2>1. stored' = stored /\ faults' = faults
    BY <1>6 DEF Post
  <2> QED BY <1>6, <2>1, PostKeeps, StoreSame
<1>7. ASSUME NEW f \in Fibers, stored' = stored, faults' = faults,
             queue' \subseteq queue, posted' = posted,
             \A g \in Fibers : g # f =>
                pc'[g] = pc[g] /\ batch'[g] = batch[g] /\ msg'[g] = msg[g],
             InStore(f) => \/ InStore(f)' /\ batch'[f] = batch[f]
                           \/ queue' = queue \ batch[f],
             Confirming(f)' => Confirming(f) /\ batch'[f] = batch[f]
      PROVE  Goal
  BY <1>7, OneMoves, StoreSame
<1>8. ASSUME NEW f \in Fibers, Peek(f) \/ PeekNothing(f) \/ StandDown(f) PROVE Goal
  <2>1. /\ stored' = stored /\ faults' = faults /\ queue' = queue /\ posted' = posted
        /\ \A g \in Fibers : g # f =>
              pc'[g] = pc[g] /\ batch'[g] = batch[g] /\ msg'[g] = msg[g]
        /\ pc[f] \in {"peek", "standdown"} /\ pc'[f] \in {"write", "done"}
    BY <1>8 DEF Peek, Prepare, PeekNothing, StandDown, Release, Become
  <2>2. ~InStore(f) /\ ~Confirming(f)'
    BY <2>1 DEF InStore, Confirming
  <2> QED BY <2>1, <2>2, <1>7
<1>9. ASSUME NEW f \in Fibers, Write(f) PROVE Goal
  <2>1. /\ pc[f] = "write" /\ UNCHANGED << queue, posted, batch, msg >>
        /\ \A g \in Fibers : g # f => pc'[g] = pc[g]
        /\ pc'[f] \in {"join", "failed"}
    BY <1>9 DEF Write, Become
  <2>2. \A c \in Fibers : Confirming(c)' => Confirming(c) /\ batch'[c] = batch[c]
    BY <2>1 DEF Confirming
  <2>3. CASE stored' = stored \cup {Message(f, TRUE)} /\ Become(f, "join") /\ faults' = faults
    <3>1. InStore(f)'
      BY <2>3 DEF Become, InStore
    <3>2. \A i \in batch[f] : ~ToWrite(i)'
      BY <2>1, <3>1 DEF ToWrite
    <3>3. IsFiniteSet(stored')
      BY <2>3, FS_AddElement
    <3> QED BY <2>1, <2>2, <2>3, <3>2, <3>3, BudgetLands
  <2>4. ASSUME faults' = faults + 1, NEW kind \in FaultKinds,
               stored' = stored \cup Left(f, kind)
        PROVE  Goal
    <3>1. PICK x : Left(f, kind) \subseteq {x}
      BY LeavesOne
    <3>2. stored \subseteq stored' /\ stored' \subseteq stored \cup {x}
      BY <2>4, <3>1
    <3>3. ~InStore(f) /\ ~Confirming(f)'
      BY <2>1 DEF InStore, Confirming
    <3>4. \A r \in Results : (Once(r)' => Once(r)) /\ (Twice(r)' => Twice(r))
      BY <2>1, <3>2, <3>3, OneMoves
    <3> QED BY <2>4, <3>2, <3>4, BudgetFault, OneMore
  <2> QED BY <1>9, <2>3, <2>4 DEF Write
<1>10. ASSUME NEW f \in Fibers, Join(f) PROVE Goal
  <2>1. /\ pc[f] = "join" /\ UNCHANGED << queue, posted, batch, msg, stored, faults >>
        /\ \A g \in Fibers : g # f => pc'[g] = pc[g]
        /\ pc'[f] = "turn"
    BY <1>10 DEF Join, Become
  <2>2. InStore(f)' /\ ~Confirming(f)'
    BY <2>1 DEF InStore, Confirming
  <2> QED BY <2>1, <2>2, <1>7
<1>11. ASSUME NEW f \in Fibers, Landed(f) PROVE Goal
  <2>1. /\ pc[f] = "landed" /\ queue' = queue \ batch[f]
        /\ UNCHANGED << posted, stored, faults >>
    BY <1>11 DEF Landed, Drop
  <2>2. CASE Confirms(f)
    <3>1. PICK i \in batch[f] : LET c == << "confirm", i.of >> IN
             /\ pc[c] \in {"off", "done"}
             /\ pc' = [pc EXCEPT ![f] = "peek", ![c] = "poll"]
             /\ batch' = [batch EXCEPT ![f] = {}, ![c] = batch[f]]
             /\ msg' = [msg EXCEPT ![f] = 0, ![c] = msg[f]]
      BY <1>11, <2>2 DEF Landed
    <3>2. << "confirm", i.of >> \in Fibers
      BY FiberIds, ItemType
    <3>3. \A r \in Results : (Once(r)' => Once(r)) /\ (Twice(r)' => Twice(r))
      BY <2>1, <3>1, <3>2, ConfirmKeeps
    <3> QED BY <2>1, <3>3, StoreSame
  <2>3. CASE ~Confirms(f)
    <3>1. /\ pc'[f] = "peek"
          /\ \A g \in Fibers : g # f =>
                pc'[g] = pc[g] /\ batch'[g] = batch[g] /\ msg'[g] = msg[g]
      BY <1>11, <2>3 DEF Landed, Become
    <3>2. ~Confirming(f)'
      BY <3>1 DEF Confirming
    <3> QED BY <2>1, <3>1, <3>2, <1>7
  <2> QED BY <2>2, <2>3
<1>12. ASSUME NEW f \in Fibers, Failed(f) PROVE Goal
  <2>1. /\ pc[f] = "failed" /\ UNCHANGED << posted, stored, faults >>
        /\ \A g \in Fibers : g # f =>
              pc'[g] = pc[g] /\ batch'[g] = batch[g] /\ msg'[g] = msg[g]
        /\ pc'[f] \in {"peek", "fallback"}
        /\ IF Injected(f) THEN queue' = queue \ batch[f] ELSE queue' = queue
    BY <1>12 DEF Failed, Settled, Become, Drop
  <2>2. ~Confirming(f)' /\ (InStore(f) => Injected(f))
    BY <2>1 DEF Confirming, InStore
  <2> QED BY <2>1, <2>2, <1>7
<1>13. ASSUME NEW f \in Fibers, FallbackLands(f) PROVE Goal
  <2>1. /\ pc[f] = "fallback" /\ queue' = queue \ batch[f] /\ UNCHANGED << posted, faults >>
        /\ stored' = stored \cup {Message(f, TRUE)}
        /\ \A g \in Fibers : g # f => pc'[g] = pc[g] /\ batch'[g] = batch[g]
        /\ pc'[f] = "peek"
    BY <1>13 DEF FallbackLands, Settled, Become, Drop
  <2>2. \A i \in batch[f] : ~ToWrite(i)'
    BY <2>1 DEF ToWrite
  <2>3. \A c \in Fibers : Confirming(c)' => Confirming(c) /\ batch'[c] = batch[c]
    BY <2>1 DEF Confirming
  <2>4. IsFiniteSet(stored')
    BY <2>1, FS_AddElement
  <2> QED BY <2>1, <2>2, <2>3, <2>4, BudgetLands
<1>14. ASSUME NEW f \in Fibers, FallbackFails(f) PROVE Goal
  <2>1. /\ pc[f] = "fallback" /\ UNCHANGED << queue, posted, batch, msg >>
        /\ faults' = faults + 1
        /\ \A g \in Fibers : g # f => pc'[g] = pc[g]
        /\ pc'[f] \in {"retry", "standdown"}
    BY <1>14 DEF FallbackFails, Become
  <2>2. PICK kind \in FaultKinds : stored' = stored \cup Left(f, kind)
    BY <1>14 DEF FallbackFails
  <2>3. PICK x : Left(f, kind) \subseteq {x}
    BY LeavesOne
  <2>4. stored \subseteq stored' /\ stored' \subseteq stored \cup {x}
    BY <2>2, <2>3
  <2>5. ~InStore(f) /\ ~Confirming(f)'
    BY <2>1 DEF InStore, Confirming
  <2>6. \A r \in Results : (Once(r)' => Once(r)) /\ (Twice(r)' => Twice(r))
    BY <2>1, <2>4, <2>5, OneMoves
  <2> QED BY <2>1, <2>4, <2>6, BudgetFault, OneMore
<1>15. ASSUME NEW f \in Fibers, Retry(f) PROVE Goal
  <2>1. /\ pc[f] = "retry" /\ UNCHANGED << queue, posted, stored, faults >>
        /\ \A g \in Fibers : g # f =>
              pc'[g] = pc[g] /\ batch'[g] = batch[g] /\ msg'[g] = msg[g]
        /\ pc'[f] = "write"
    BY <1>15 DEF Retry, Prepare, Become
  <2>2. ~InStore(f) /\ ~Confirming(f)'
    BY <2>1 DEF InStore, Confirming
  <2> QED BY <2>1, <2>2, <1>7
<1>16. ASSUME NEW c \in Fibers, SeesIdle(c) \/ GivesUp(c) \/ (Check(c) /\ Consumed(c))
       PROVE  Goal
  <2>1. /\ pc[c] \in {"poll", "check"} /\ UNCHANGED << queue, posted, stored, faults >>
        /\ \A g \in Fibers : g # c =>
              pc'[g] = pc[g] /\ batch'[g] = batch[g] /\ msg'[g] = msg[g]
        /\ pc'[c] \in {"check", "done"}
        /\ pc'[c] = "check" => batch'[c] = batch[c]
    BY <1>16 DEF SeesIdle, GivesUp, Check, Become
  <2>2. ~InStore(c) /\ (Confirming(c)' => Confirming(c) /\ batch'[c] = batch[c])
    BY <2>1 DEF InStore, Confirming
  <2> QED BY <2>1, <2>2, <1>7
<1>17. ASSUME NEW c \in Fibers, Check(c), ~Consumed(c) PROVE Goal
  <2>1. \A r \in Results : (Once(r)' => Once(r)) /\ (Twice(r)' => Twice(r))
    BY <1>17, AgainKeeps DEF Check, Become
  <2> QED BY <1>17, <2>1, StoreSame DEF Check
<1>18. CASE UNCHANGED vars
  BY <1>18, TurnKeeps, StoreSame DEF vars
<1> QED BY <1>1, <1>2, <1>3, <1>4, <1>5, <1>6, <1>8, <1>9, <1>10, <1>11, <1>12, <1>13,
       <1>14, <1>15, <1>16, <1>17, <1>18 DEF Next, System, Turn, Drain, Confirm

(* At first, over a step,                                                    *)
LEMMA StockedInit == Init => Stocked
<1> SUFFICES ASSUME Init PROVE Stocked
  OBVIOUS
<1>1. /\ stored = {} /\ queue = {} /\ posted = {} /\ faults = 0
      /\ \A f \in Fibers : pc[f] = "off"
  BY DEF Init
<1>2. IsFiniteSet(stored) /\ Cardinality(stored) = 0
  BY <1>1, FS_EmptySet
<1>3. Handed
  BY <1>1, StageNames DEF Handed, Working, Confirming
<1>4. \A r : Copies(r) = stored
  BY <1>1 DEF Copies
<1> QED BY <1>1, <1>2, <1>3, <1>4 DEF Stocked, Budget

(* and always.                                                               *)
LEMMA StockedHolds == Spec => []Stocked
<1>1. Core /\ Stocked /\ [Next]_vars => Stocked'
  BY BudgetStep, HandedStep DEF Core, Stocked
<1> QED BY <1>1, StockedInit, CoreHolds, PTL DEF Spec

(* A re-delivery is the last: two copies of a result at most, and one more   *)
(* for each write that failed after it had landed - whatever a failed write  *)
(* leaves behind.                                                            *)
THEOREM ResultsAreWrittenTwiceAtMost == Spec => []WrittenTwiceAtMost
<1>1. Stocked => WrittenTwiceAtMost
  BY DEF Stocked, Budget, WrittenTwiceAtMost, Copies
<1> QED BY <1>1, StockedHolds, PTL

=============================================================================
