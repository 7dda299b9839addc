-------------------------- MODULE ElasticParkProofs --------------------------
(* Proofs about ElasticPark for every set of work and every bound.           *)
EXTENDS ElasticPark, SequenceTheorems, TLAPS

(***************************************************************************)
(* Types.                                                                  *)
(***************************************************************************)

(* What the engine is asked and has yet to serve.                            *)
None   == << >>
Again  == << "again" >>
Park   == << "park" >>
Late   == Append(Again, "park")
Unpark == << "unpark" >>
Undone == Append(Park, "unpark")
Both   == Append(Late, "unpark")
Shapes == {None, Again, Park, Late, Unpark, Undone, Both}
Parkless == {None, Again, Unpark}
Requests == {"park", "unpark", "again"}

(* How long they are, and what the short ones begin with.                    *)
LEMMA Asks ==
    /\ Shapes \subseteq Seq(Requests)
    /\ Len(None) = 0 /\ Len(Again) = 1 /\ Len(Park) = 1 /\ Len(Unpark) = 1
    /\ Len(Late) = 2 /\ Len(Undone) = 2 /\ Len(Both) = 3
    /\ Head(Again) = "again" /\ Head(Park) = "park" /\ Head(Unpark) = "unpark"
    /\ Tail(Again) = None /\ Tail(Park) = None /\ Tail(Unpark) = None
<1>1. /\ None \in Seq(Requests) /\ Again \in Seq(Requests) /\ Park \in Seq(Requests)
      /\ Unpark \in Seq(Requests) /\ Len(None) = 0
      /\ Len(Again) = 1 /\ Len(Park) = 1 /\ Len(Unpark) = 1
  BY DEF None, Again, Park, Unpark, Requests
<1>2. /\ Head(Again) = "again" /\ Head(Park) = "park" /\ Head(Unpark) = "unpark"
      /\ Tail(Again) = None /\ Tail(Park) = None /\ Tail(Unpark) = None
  BY DEF None, Again, Park, Unpark
<1>3. "park" \in Requests /\ "unpark" \in Requests
  BY DEF Requests
<1>4. /\ Late \in Seq(Requests) /\ Len(Late) = 2
      /\ Undone \in Seq(Requests) /\ Len(Undone) = 2
      /\ Both \in Seq(Requests) /\ Len(Both) = 3
  <2>1. Late \in Seq(Requests) /\ Len(Late) = Len(Again) + 1
    BY <1>1, <1>3, AppendProperties, Zenon DEF Late
  <2>2. Undone \in Seq(Requests) /\ Len(Undone) = Len(Park) + 1
    BY <1>1, <1>3, AppendProperties, Zenon DEF Undone
  <2>3. Both \in Seq(Requests) /\ Len(Both) = Len(Late) + 1
    BY <1>3, <2>1, AppendProperties, Zenon DEF Both
  <2>4. QED
    BY <1>1, <2>1, <2>2, <2>3
<1>5. QED
  BY <1>1, <1>2, <1>3, <1>4 DEF Shapes

(* What is served first, and what is left then.                              *)
LEMMA Served ==
    /\ Head(Late) = "again" /\ Head(Undone) = "park" /\ Head(Both) = "again"
    /\ Tail(Late) = Park /\ Tail(Undone) = Unpark /\ Tail(Both) = Undone
<1>1. Again \in Seq(Requests) /\ Again # << >> /\ Park \in Seq(Requests) /\ Park # << >>
  BY Asks DEF Shapes
<1>2. Head(Late) = "again" /\ Head(Undone) = "park"
  BY <1>1, Asks, HeadTailAppend DEF Late, Undone
<1>3. Tail(Late) = Append(None, "park") /\ Tail(Undone) = Append(None, "unpark")
  BY <1>1, Asks, HeadTailAppend DEF Late, Undone
<1>4. Append(None, "park") = Park /\ Append(None, "unpark") = Unpark
  BY DEF None, Park, Unpark
<1>5. Late \in Seq(Requests) /\ Late # << >>
  BY Asks DEF Shapes
<1>6. Head(Both) = "again" /\ Tail(Both) = Append(Park, "unpark")
  BY <1>2, <1>3, <1>4, <1>5, HeadTailAppend DEF Both
<1>7. QED
  BY <1>2, <1>3, <1>4, <1>6 DEF Undone

(* What another request makes.                                               *)
LEMMA Appended ==
    /\ Append(None, "park") = Park /\ Append(Again, "park") = Late
    /\ Append(None, "unpark") = Unpark /\ Append(Park, "unpark") = Undone
    /\ Append(Late, "unpark") = Both /\ Append(None, "again") = Again
<1>1. /\ Append(None, "park") = Park /\ Append(None, "unpark") = Unpark
      /\ Append(None, "again") = Again
  BY DEF None, Park, Unpark, Again
<1>2. QED
  BY <1>1 DEF Late, Undone, Both

(* They differ.                                                              *)
LEMMA Distinct ==
    /\ None = << >>
    /\ None \notin {Again, Park, Late, Unpark, Undone, Both}
    /\ Again \notin {Park, Late, Unpark, Undone, Both}
    /\ Park \notin {Late, Unpark, Undone, Both}
    /\ Late \notin {Unpark, Undone, Both}
    /\ Unpark \notin {Undone, Both} /\ Undone # Both
<1>1. None = << >>
  BY DEF None
<1>2. 0 # 1 /\ 0 # 2 /\ 0 # 3 /\ 1 # 2 /\ 1 # 3 /\ 2 # 3
  OBVIOUS
<1>3. "again" # "park" /\ "again" # "unpark" /\ "park" # "unpark"
  OBVIOUS
<1>4. QED
  BY <1>1, <1>2, <1>3, Asks, Served, Zenon

Stages == {"starting", "ready", "failed", "stopped", "parked"}
Fates == {"new", "held", "turn", "sent", "done", "refused"}

(* What is given out and what the gate does with new work keep their types.  *)
LEMMA GateType ==
    ASSUME TypeOK
    PROVE  /\ \A w \in [Work -> Fates], S \in SUBSET Work : Given(w, S) \in [Work -> Fates]
           /\ \A x \in Work, how \in Fates : Puts(x, how) \in [Work -> Fates]
           /\ \A cs : \A w \in [Work -> Fates] : pump(w, cs) => work' \in [Work -> Fates]
           /\ \A x \in Work : enqueue(x) =>
                 work' \in [Work -> Fates] /\ stage' \in Stages /\ (back' = back \/ back' = "waiting")
<1>1. \A w \in [Work -> Fates], S \in SUBSET Work : Given(w, S) \in [Work -> Fates]
  BY DEF Given, Fates
<1>2. \A x \in Work, how \in Fates : Puts(x, how) \in [Work -> Fates]
  BY DEF Puts, TypeOK, GateTypes, Fates
<1>3. \A cs : \A w \in [Work -> Fates] : pump(w, cs) => work' \in [Work -> Fates]
  BY <1>1 DEF pump, Waits
<1>4. ASSUME NEW x \in Work, enqueue(x)
      PROVE  work' \in [Work -> Fates] /\ stage' \in Stages /\ (back' = back \/ back' = "waiting")
  <2>1. work \in [Work -> Fates] /\ stage \in Stages
    BY DEF TypeOK, GateTypes, Fates, Stages
  <2>2. "held" \in Fates /\ "refused" \in Fates /\ "starting" \in Stages
    BY DEF Fates, Stages
  <2>3. \/ work' = Puts(x, "held") \/ work' = Puts(x, "refused")
        \/ work' = Given(work, {x}) \/ pump(Puts(x, "held"), came')
    BY <1>4 DEF enqueue
  <2>4. work' \in [Work -> Fates]
    <3>1. Puts(x, "held") \in [Work -> Fates] /\ Puts(x, "refused") \in [Work -> Fates]
      BY <1>2, <2>2
    <3>2. Given(work, {x}) \in [Work -> Fates]
      BY <1>1, <2>1
    <3>3. pump(Puts(x, "held"), came') => work' \in [Work -> Fates]
      BY <1>3, <3>1
    <3>4. QED
      BY <2>3, <3>1, <3>2, <3>3
  <2>5. stage' \in Stages /\ (back' = back \/ back' = "waiting")
    BY <1>4, <2>1, <2>2 DEF enqueue, Start
  <2>6. QED
    BY <2>4, <2>5
<1>5. QED
  BY <1>1, <1>2, <1>3, <1>4

(* Every step keeps the types of the gate.                                   *)
LEMMA GateStep ==
    ASSUME TypeOK, [Next]_vars PROVE GateTypes'
<1>1. ASSUME NEW x \in Work, Give(x) \/ Call(x) PROVE GateTypes'
  <2>1. work' \in [Work -> Fates] /\ stage' \in Stages
    BY <1>1, GateType DEF Give, Call, TypeOK, GateTypes, Fates, Stages
  <2>2. came' \in [Work -> Nat] /\ arrivals' \in Nat
    BY <1>1 DEF Give, Call, Comes, TypeOK, GateTypes
  <2>3. QED
    BY <2>1, <2>2 DEF GateTypes, Fates, Stages
<1>2. ASSUME NEW x \in Work, TurnEnds(x) PROVE GateTypes'
  BY <1>2, GateType DEF TurnEnds, TypeOK, GateTypes, Fates
<1>3. CASE Drop \/ Close
  BY <1>3 DEF Drop, Close, TypeOK, GateTypes
<1>4. CASE Retry \/ WakeUp \/ ParkChat \/ AskFails
  BY <1>4 DEF Retry, WakeUp, ParkChat, AskFails, Start, TypeOK, GateTypes
<1>5. CASE Exit \/ Crash
  BY <1>5 DEF Exit, Crash, Exited, TypeOK, GateTypes
<1>6. ASSUME Refused \/ Restored PROVE GateTypes'
  BY <1>6, GateType DEF Refused, Restored, Ready, TypeOK, GateTypes, Fates
<1>7. CASE StartFails
  BY <1>7 DEF StartFails, RestoreFails, TypeOK, GateTypes
<1>8. CASE BeginPark \/ WriteStandIn \/ UndoPark \/ Reregister \/ LeaveParking
  BY <1>8 DEF BeginPark, WriteStandIn, UndoPark, Reregister, LeaveParking, Others, gate,
     TypeOK, GateTypes
<1>9. CASE AsideComes \/ AsideStarts \/ AsideEnds
  BY <1>9 DEF AsideComes, AsideStarts, AsideEnds, Others, gate, TypeOK, GateTypes
<1>10. CASE Parked \/ UnparkFirst \/ Unparked
  BY <1>10 DEF Parked, UnparkFirst, Unparked, gate, TypeOK, GateTypes
<1>11. CASE Spawn \/ Resume \/ StopStart
  BY <1>11 DEF Spawn, Resume, StopStart, gate, TypeOK, GateTypes
<1>12. CASE UNCHANGED vars
  BY <1>12 DEF vars, gate, TypeOK, GateTypes
<1>13. QED
  BY <1>1, <1>2, <1>3, <1>4, <1>5, <1>6, <1>7, <1>8, <1>9, <1>10, <1>11, <1>12
     DEF Next, System, Serve, Parking, BringBack, KeepEngine, SettingsMade

(* Every step keeps the types of what the extension knows.                   *)
LEMMA AttemptStep ==
    ASSUME TypeOK, [Next]_vars PROVE AttemptTypes'
<1>1. ASSUME NEW x \in Work, Give(x) \/ Call(x) PROVE AttemptTypes'
  <2>1. back' = back \/ back' = "waiting"
    BY <1>1, GateType DEF Give, Call
  <2>2. QED
    BY <1>1, <2>1 DEF Give, Call, Comes, answers, counts, TypeOK, AttemptTypes
<1>2. ASSUME NEW x \in Work, TurnEnds(x) PROVE AttemptTypes'
  BY <1>2 DEF TurnEnds, attempt, answers, counts, TypeOK, AttemptTypes
<1>3. CASE Drop \/ Close
  <2>1. CASE Drop
    BY <2>1 DEF Drop, attempt, answers, counts, TypeOK, AttemptTypes
  <2>2. CASE Close
    <3>1. UNCHANGED << wake, park, undo, late, back, parkAns, unparkAns, parks, faults, asides >>
      BY <2>2 DEF Close, answers, counts
    <3>2. closed' = TRUE
      BY <2>2 DEF Close
    <3>3. QED
      BY <3>1, <3>2 DEF TypeOK, AttemptTypes
  <2>3. QED
    BY <1>3, <2>1, <2>2
<1>4. CASE Retry \/ WakeUp
  BY <1>4 DEF Retry, WakeUp, Start, answers, counts, TypeOK, AttemptTypes
<1>5. CASE Exit \/ Crash
  <2>1. UNCHANGED << wake, closed, undo, late, back, parkAns, unparkAns >>
    BY <1>5 DEF Exit, Crash, Exited, answers
  <2>2. park' = park \/ park' = "off"
    BY <1>5 DEF Exit, Crash, Settles
  <2>3. parks' \in Nat /\ faults' \in Nat /\ asides' \in Nat
    BY <1>5 DEF Exit, Crash, Fault, counts, TypeOK, AttemptTypes
  <2>4. QED
    BY <2>1, <2>2, <2>3 DEF TypeOK, AttemptTypes
<1>6. CASE Refused
  BY <1>6 DEF Refused, Settles, answers, counts, TypeOK, AttemptTypes
<1>7. ASSUME Restored, UNCHANGED counts PROVE AttemptTypes'
  <2>1. UNCHANGED << closed, undo, late, parkAns, unparkAns, parks, faults, asides >>
    BY <1>7 DEF Restored, answers, counts
  <2>2. back' = "off" /\ wake' = FALSE /\ (park' = park \/ park' = "off")
    BY <1>7 DEF Restored, Ends, Settles
  <2>3. QED
    BY <2>1, <2>2 DEF TypeOK, AttemptTypes
<1>8. CASE StartFails
  <2>1. UNCHANGED << wake, closed, undo, late, parkAns, unparkAns >>
    BY <1>8 DEF StartFails, RestoreFails, answers
  <2>2. back' = "off" /\ (park' = park \/ park' = "off")
    BY <1>8 DEF StartFails, RestoreFails, Ends, Settles
  <2>3. parks' \in Nat /\ faults' \in Nat /\ asides' \in Nat
    BY <1>8 DEF StartFails, Fault, counts, TypeOK, AttemptTypes
  <2>4. QED
    BY <2>1, <2>2, <2>3 DEF TypeOK, AttemptTypes
<1>9. CASE ParkChat
  <2>1. UNCHANGED << closed, back, unparkAns, faults, asides >>
    BY <1>9 DEF ParkChat
  <2>2. wake' = TRUE /\ park' = "asked" /\ undo' = FALSE /\ late' = FALSE /\ parkAns' = "none"
    BY <1>9 DEF ParkChat
  <2>3. parks' \in Nat
    BY <1>9 DEF ParkChat, TypeOK, AttemptTypes
  <2>4. QED
    BY <2>1, <2>2, <2>3 DEF TypeOK, AttemptTypes
<1>10. CASE Parked
  <2>1. UNCHANGED << wake, closed, back, late, parkAns, unparkAns, parks, faults, asides >>
    BY <1>10 DEF Parked, answers, counts
  <2>2. undo' \in BOOLEAN /\ park' \in {"off", "stopping"}
    BY <1>10 DEF Parked, Woken, Settles
  <2>3. QED
    BY <2>1, <2>2 DEF TypeOK, AttemptTypes
<1>11. CASE AskFails
  <2>1. UNCHANGED << wake, closed, parkAns, unparkAns >> /\ late' = TRUE
    BY <1>11 DEF AskFails, answers
  <2>2. undo' \in BOOLEAN
    BY <1>11 DEF AskFails, Woken, Pid
  <2>3. park' \in {"off", "keeping"} /\ (back' = back \/ back' = "waiting")
    BY <1>11 DEF AskFails, Start, Settles
  <2>4. parks' \in Nat /\ faults' \in Nat /\ asides' \in Nat
    BY <1>11 DEF AskFails, Fault, counts, TypeOK, AttemptTypes
  <2>5. QED
    BY <2>1, <2>2, <2>3, <2>4 DEF TypeOK, AttemptTypes
<1>12. CASE BeginPark \/ WriteStandIn \/ UndoPark \/ Reregister \/ LeaveParking
  <2>1. UNCHANGED << wake, closed, park, back, undo, late >>
    BY <1>12 DEF BeginPark, WriteStandIn, UndoPark, Reregister, LeaveParking, Others, attempt
  <2>2. parkAns' \in {parkAns, "parked", "refused", "error"}
    BY <1>12 DEF BeginPark, WriteStandIn, UndoPark, Reregister, LeaveParking, answers
  <2>3. unparkAns' \in BOOLEAN
    <3>1. unparkAns' = unparkAns \/ unparkAns' = TRUE
      BY <1>12 DEF BeginPark, WriteStandIn, UndoPark, Reregister, LeaveParking, answers
    <3>2. QED
      BY <3>1, Zenon DEF TypeOK, AttemptTypes
  <2>4. parks' \in Nat /\ faults' \in Nat /\ asides' \in Nat
    <3>1. UNCHANGED << parks, asides >> /\ (faults' = faults \/ faults' = faults + 1)
      BY <1>12 DEF BeginPark, WriteStandIn, UndoPark, Reregister, LeaveParking, Fault, counts
    <3>2. QED
      BY <3>1 DEF TypeOK, AttemptTypes
  <2>5. QED
    BY <2>1, <2>2, <2>3, <2>4 DEF TypeOK, AttemptTypes
<1>13. CASE AsideComes \/ AsideStarts \/ AsideEnds
  BY <1>13 DEF AsideComes, AsideStarts, AsideEnds, Others, attempt, answers, counts, TypeOK, AttemptTypes
<1>14. CASE UnparkFirst \/ Unparked
  <2>1. UNCHANGED << wake, closed, park, late, parkAns >>
    BY <1>14 DEF UnparkFirst, Unparked, answers
  <2>2. undo' \in {undo, FALSE} /\ unparkAns' \in {unparkAns, FALSE}
    BY <1>14 DEF UnparkFirst, Unparked, answers
  <2>3. back' \in {"unparking", "restoring"}
    BY <1>14 DEF UnparkFirst, Unparked
  <2>4. parks' \in Nat /\ faults' \in Nat /\ asides' \in Nat
    BY <1>14 DEF UnparkFirst, Unparked, Fault, counts, TypeOK, AttemptTypes
  <2>5. QED
    BY <2>1, <2>2, <2>3, <2>4 DEF TypeOK, AttemptTypes
<1>15. CASE Spawn \/ Resume \/ StopStart
  BY <1>15 DEF Spawn, Resume, StopStart, Fault, answers, counts, TypeOK, AttemptTypes
<1>16. CASE UNCHANGED vars
  BY <1>16 DEF vars, attempt, answers, counts, TypeOK, AttemptTypes
<1>17. QED
  BY <1>1, <1>2, <1>3, <1>4, <1>5, <1>6, <1>7, <1>8, <1>9, <1>10, <1>11, <1>12, <1>13,
     <1>14, <1>15, <1>16
     DEF Next, System, Serve, Parking, BringBack, KeepEngine, SettingsMade

(***************************************************************************)
(* The invariant of the engine.                                            *)
(***************************************************************************)

(* A prompt of a peer was there at the idle check, and not yet a turn.                   *)
Known == aside # "none" => missed

(* Who sets what: the gate's stage tells the client's `wake` and the restore, and the    *)
(* stop that ends a park has a process that took nothing since its idle check.           *)
Staged ==
    /\ wake <=> stage \in {"parked", "starting", "failed"}
    /\ back # "off" <=> stage = "starting"
    /\ park = "asked" => stage \in {"parked", "starting"} /\ back \in {"off", "waiting"}
    /\ park = "keeping" => stage = "starting"
    /\ park = "stopping" =>
          Known /\ stage # "failed" /\ wake /\ proc = "exiting" /\ back \in {"off", "waiting", "restoring"}

(* What the process does: it parks only without a turn of its own, and an unopened one   *)
(* has nothing to do.                                                                    *)
Flagged ==
    /\ req \in Shapes /\ Serving
    /\ flag => Known
    /\ op \in {"writing", "undoing"} => flag
    /\ proc = "none" => ~open
    /\ ~open => ~flag /\ req = None /\ op = "next" /\ aside = "none"

(* Which process runs at each stage of the park and the restore.                         *)
Running ==
    /\ closed => proc # "up"
    /\ undo => back = "waiting" /\ (proc = "up" => open)
    /\ park = "asked" \/ back \in {"unparking", "setting"} => (proc = "up" => open)
    /\ back = "resuming" => (proc = "up" => ~open)
    /\ ~closed /\ proc = "exiting" => park = "stopping" \/ back \in {"killing", "restoring"}
    /\ ~closed /\ stage = "parked" /\ park = "off" => proc = "none"
    /\ ~closed /\ stage = "ready" => proc = "up" /\ open

(* The park request is out, or its answer tells what the engine is.                      *)
Asked ==
    ~closed /\ park = "asked" =>
        /\ parkAns = "none" => proc = "none" \/ req \in {Park, Late}
        /\ parkAns = "parked" => flag /\ req = None /\ proc = "up"
        /\ parkAns \in {"refused", "error"} => ~flag /\ ~standIn /\ req = None /\ proc = "up"

(* A restore that still has to unpark, and one that waits for it: the unpark is behind   *)
(* every park request.                                                                   *)
Unparking ==
    proc = "up" =>
        /\ back = "waiting" /\ undo /\ park # "asked" => req \in {None, Park, Late}
        /\ back = "unparking" /\ ~unparkAns => req \in {Unpark, Undone, Both}

(* Otherwise an open process is not parked, and has at most a second unpark to serve.    *)
Unasked == park = "asked" \/ (back = "waiting" /\ undo) \/ (back = "unparking" /\ ~unparkAns)
Clean ==
    proc = "up" /\ open /\ ~Unasked =>
        ~flag /\ ~standIn /\ (req = None \/ (stage = "ready" /\ req = Again))

(* Nothing is parked before the park request is served, nor left after the unpark is.    *)
NotYet ==
    proc = "up" =>
        /\ req # None /\ req # Unpark /\ op \in {"next", "leaving"} => ~flag /\ ~standIn
        /\ op = "leaving" => ~standIn

(* What a chat leaves: a park request that did not run out of time is served or dead.    *)
Left ==
    /\ ~late /\ (park = "asked" => parkAns # "none") => req \in Parkless
    /\ ~late /\ park # "asked" /\ closed => ~standIn
    /\ stage = "stopped" => ~standIn /\ proc = "none" /\ park = "off"

Engine == Staged /\ Flagged /\ Running /\ Asked /\ Unparking /\ Clean /\ NotYet /\ Left

(* A chat that is ready is no longer parked, nor has it to unpark.                       *)
LEMMA AtWork ==
    ASSUME TypeOK, Engine, stage = "ready", ~closed
    PROVE  proc = "up" /\ open /\ ~flag /\ ~standIn /\ ~wake
<1>1. proc = "up" /\ open /\ ~wake /\ back = "off" /\ park # "asked"
  BY DEF Engine, Staged, Running, TypeOK, AttemptTypes
<1>2. QED
  BY <1>1 DEF Engine, Clean, Unasked

(* An open chat that is not waking has no stand-in.                                      *)
LEMMA Awake ==
    ASSUME TypeOK, Engine, ~closed, ~wake PROVE ~standIn
<1>1. stage \in {"ready", "stopped"}
  BY DEF TypeOK, GateTypes, Engine, Staged
<1>2. QED
  BY <1>1, AtWork DEF Engine, Left

(* New work starts at most the restore of a chat that is parked.                         *)
LEMMA Entered ==
    ASSUME NEW x \in Work, enqueue(x)
    PROVE  \/ UNCHANGED << stage, back >>
           \/ stage = "parked" /\ stage' = "starting" /\ back' = "waiting"
  BY DEF enqueue, Start

(* A chat that closes removes its stand-in.                                               *)
LEMMA CloseLeft ==
    ASSUME TypeOK, Engine, Close PROVE Left'
<1>1. /\ ~closed /\ standIn' = (IF wake THEN FALSE ELSE standIn)
      /\ proc' = IF proc = "up" THEN "exiting" ELSE proc
      /\ UNCHANGED << stage, park, late, req, parkAns >>
  BY DEF Close, answers
<1>2. ~wake => ~standIn
  BY <1>1, Awake
<1>3. ~standIn'
  BY <1>1, <1>2
<1>4. stage = "stopped" => proc' = "none"
  BY <1>1 DEF Engine, Left
<1>5. QED
  BY <1>1, <1>3, <1>4 DEF Engine, Left

(* Every step keeps the engine's invariant.                                              *)
LEMMA EngineStep ==
    ASSUME TypeOK, Engine, [Next]_vars PROVE Engine'
<1>0. Close => Left'
  BY CloseLeft
<1>. USE Asks, Served, Appended, Distinct
     DEF TypeOK, AttemptTypes, EngineTypes, Serving, Shapes, Parkless, Unasked,
         Engine, Staged, Flagged, Running, Asked, Unparking, Clean, NotYet, Left, Known
<1>. stage \in Stages
  BY DEF GateTypes, Stages
<1>1. ASSUME NEW x \in Work, Give(x) \/ Call(x) PROVE Engine'
  <2>1. UNCHANGED << wake, closed, park, undo, late >> /\ UNCHANGED engine /\ UNCHANGED answers
    BY <1>1 DEF Give, Call, Comes
  <2>2. \/ UNCHANGED << stage, back >>
        \/ stage = "parked" /\ stage' = "starting" /\ back' = "waiting"
    BY <1>1, Entered DEF Give, Call
  <2>3. QED
    BY <2>1, <2>2 DEF engine, answers, Stages
<1>2. ASSUME NEW x \in Work, TurnEnds(x) PROVE Engine'
  BY <1>2 DEF TurnEnds, attempt, engine, answers
<1>3. CASE Drop
  BY <1>3 DEF Drop, attempt, engine, answers
<1>4. CASE Retry
  BY <1>4 DEF Retry, Start, engine, answers
<1>5. CASE WakeUp
  BY <1>5 DEF WakeUp, Start, engine, answers
<1>6. CASE BeginPark
  <2>1. Staged' /\ Flagged'
    BY <1>6 DEF BeginPark, Serves, Others, gate, attempt, Busy, Misses
  <2>2. Running' /\ Asked'
    BY <1>6 DEF BeginPark, Serves, Others, gate, attempt, Busy, Misses
  <2>3. Unparking' /\ Clean'
    BY <1>6 DEF BeginPark, Serves, Others, gate, attempt, Busy, Misses
  <2>4. NotYet' /\ Left'
    BY <1>6 DEF BeginPark, Serves, Others, gate, attempt, Busy, Misses
  <2>5. QED
    BY <2>1, <2>2, <2>3, <2>4
<1>7. CASE WriteStandIn
  <2>1. /\ Serves("park", "writing") /\ UNCHANGED << gate, attempt, proc, open, aside, missed, unparkAns >>
        /\ \/ standIn' = TRUE /\ flag' = TRUE /\ parkAns' = "parked" /\ req' = Tail(req) /\ op' = "next"
           \/ op' = "undoing" /\ UNCHANGED << standIn, flag, parkAns, req >>
    BY <1>7 DEF WriteStandIn, Others
  <2>2. Flagged'
    <3>1. req \in {Park, Undone} /\ Tail(req) \in {None, Unpark}
      BY <2>1 DEF Serves
    <3>2. CASE op' = "next"
      BY <2>1, <3>1, <3>2 DEF Serves, attempt
    <3>3. CASE op' = "undoing"
      BY <2>1, <3>1, <3>3 DEF Serves, attempt
    <3>4. QED
      BY <2>1, <3>2, <3>3
  <2>7. Staged' /\ Running'
    BY <2>1 DEF Serves, gate, attempt
  <2>3. Asked' /\ Unparking'
    BY <2>1 DEF Serves, gate, attempt
  <2>4. Clean' /\ NotYet'
    BY <2>1 DEF Serves, gate, attempt
  <2>5. Left'
    BY <2>1 DEF Serves, gate, attempt
  <2>6. QED
    BY <2>2, <2>3, <2>4, <2>5, <2>7
<1>8. CASE UndoPark
  BY <1>8 DEF UndoPark, Serves, Others, gate, attempt
<1>9. CASE Reregister
  BY <1>9 DEF Reregister, Serves, Others, gate, attempt, answers
<1>10. CASE LeaveParking
  <2>1. Staged' /\ Flagged'
    BY <1>10 DEF LeaveParking, Serves, Others, gate, attempt
  <2>2. Running' /\ Asked'
    BY <1>10 DEF LeaveParking, Serves, Others, gate, attempt
  <2>3. Unparking' /\ Clean'
    BY <1>10 DEF LeaveParking, Serves, Others, gate, attempt
  <2>4. NotYet' /\ Left'
    BY <1>10 DEF LeaveParking, Serves, Others, gate, attempt
  <2>5. QED
    BY <2>1, <2>2, <2>3, <2>4
<1>11. CASE AsideComes
  BY <1>11 DEF AsideComes, Others, gate, attempt, answers
<1>12. CASE AsideStarts \/ AsideEnds
  <2>1. CASE AsideStarts
    BY <2>1 DEF AsideStarts, Others, gate, attempt, answers
  <2>2. CASE AsideEnds
    BY <2>2 DEF AsideEnds, Others, gate, attempt, answers
  <2>3. QED
    BY <1>12, <2>1, <2>2
<1>13. CASE Exit
  BY <1>13 DEF Exit, Exited, Read, Settles, answers, Stages
<1>14. CASE Crash
  BY <1>14 DEF Crash, Exited, Read, answers, Stages
<1>15. CASE ParkChat
  BY <1>15 DEF ParkChat
<1>16. CASE Refused
  BY <1>16 DEF Refused, Ready, Woken, Settles, answers
<1>17. CASE Parked
  <2>1. Staged' /\ Flagged'
    BY <1>17 DEF Parked, Woken, Settles, gate, answers
  <2>2. Running' /\ Asked'
    BY <1>17 DEF Parked, Woken, Settles, gate, answers
  <2>3. Unparking' /\ Clean'
    BY <1>17 DEF Parked, Woken, Settles, gate, answers
  <2>4. NotYet' /\ Left'
    BY <1>17 DEF Parked, Woken, Settles, gate, answers
  <2>5. QED
    BY <2>1, <2>2, <2>3, <2>4
<1>18. CASE AskFails
  <2>1. Staged' /\ Flagged'
    BY <1>18 DEF AskFails, Woken, Pid, Start, Settles, answers
  <2>2. Running' /\ Asked'
    BY <1>18 DEF AskFails, Woken, Pid, Start, Settles, answers
  <2>3. Unparking' /\ Clean'
    BY <1>18 DEF AskFails, Woken, Pid, Start, Settles, answers
  <2>4. NotYet' /\ Left'
    BY <1>18 DEF AskFails, Woken, Pid, Start, Settles, answers
  <2>5. QED
    BY <2>1, <2>2, <2>3, <2>4
<1>19. CASE UnparkFirst
  <2>1. Staged'
    BY <1>19 DEF UnparkFirst, Pid, gate
  <2>6. Flagged'
    <3>1. UNCHANGED << op, flag, aside, missed, open, proc >>
      BY <1>19 DEF UnparkFirst
    <3>2. CASE req' = req
      BY <3>1, <3>2
    <3>3. CASE proc = "up" /\ undo /\ req' = Append(req, "unpark")
      <4>1. req \in {None, Park, Late} /\ open
        BY <1>19, <3>3 DEF UnparkFirst
      <4>2. req' \in {Unpark, Undone, Both} /\ (op # "next" => Head(req') = Head(req))
        BY <3>3, <4>1
      <4>3. QED
        BY <3>1, <4>1, <4>2
    <3>4. QED
      BY <1>19, <3>2, <3>3 DEF UnparkFirst
  <2>2. Running' /\ Asked'
    BY <1>19 DEF UnparkFirst, Pid, gate
  <2>3. Unparking' /\ Clean'
    BY <1>19 DEF UnparkFirst, Pid, gate
  <2>4. NotYet' /\ Left'
    BY <1>19 DEF UnparkFirst, Pid, gate
  <2>5. QED
    BY <2>1, <2>2, <2>3, <2>4, <2>6
<1>20. CASE Unparked
  BY <1>20 DEF Unparked, gate, answers
<1>21. CASE KeepEngine
  BY <1>21 DEF KeepEngine, Restored, Ends, Ready, Settles, answers
<1>22. CASE SettingsMade
  BY <1>22 DEF SettingsMade, Restored, Ends, Ready, Settles, Pid, answers
<1>23. CASE Spawn
  BY <1>23 DEF Spawn, gate, answers
<1>24. CASE Resume
  BY <1>24 DEF Resume, gate, answers
<1>25. CASE StopStart
  BY <1>25 DEF StopStart, gate, answers
<1>26. CASE StartFails
  BY <1>26 DEF StartFails, RestoreFails, Ends, Settles, answers
<1>27. CASE Close
  <2>1. /\ closed' = TRUE /\ standIn' = (IF wake THEN FALSE ELSE standIn)
        /\ proc' = IF proc = "up" THEN "exiting" ELSE proc
        /\ ~(back = "waiting" /\ park # "asked") /\ ~(back = "restoring" /\ proc # "exiting")
        /\ UNCHANGED << stage, wake, park, back, undo, late, open, flag, req, op, aside, missed, parkAns, unparkAns >>
    BY <1>27 DEF Close, answers
  <2>2. Flagged' /\ Staged'
    BY <2>1
  <2>3. Running' /\ Asked' /\ Unparking' /\ Clean' /\ NotYet'
    BY <2>1
  <2>4. Left'
    BY <1>0, <1>27
  <2>5. QED
    BY <2>2, <2>3, <2>4
<1>28. CASE UNCHANGED vars
  BY <1>28 DEF vars, gate, attempt, engine, answers
<1>29. QED
  BY <1>1, <1>2, <1>3, <1>4, <1>5, <1>6, <1>7, <1>8, <1>9, <1>10, <1>11, <1>12, <1>13, <1>14, <1>15, <1>16, <1>17, <1>18, <1>19, <1>20, <1>21, <1>22, <1>23, <1>24, <1>25, <1>26, <1>27, <1>28
     DEF Next, System, Serve, Parking, BringBack

(* Every step keeps the types of the process.                                            *)
LEMMA ProcessStep ==
    ASSUME TypeOK, Engine, [Next]_vars PROVE EngineTypes' /\ Serving'
<1>1. Serving' /\ req' \in Seq({"park", "unpark", "again"})
  BY EngineStep, Asks DEF Engine, Flagged, Requests
<1>2. ASSUME NEW x \in Work, Give(x) \/ Call(x) \/ TurnEnds(x) PROVE EngineTypes'
  BY <1>1, <1>2 DEF Give, Call, TurnEnds, Comes, engine, TypeOK, EngineTypes
<1>3. CASE Drop \/ Retry \/ WakeUp
  BY <1>1, <1>3 DEF Drop, Retry, WakeUp, engine, TypeOK, EngineTypes
<1>4. CASE BeginPark \/ Reregister \/ LeaveParking
  BY <1>1, <1>4 DEF BeginPark, Misses, Reregister, LeaveParking, TypeOK, EngineTypes
<1>5. CASE WriteStandIn \/ UndoPark
  BY <1>1, <1>5 DEF WriteStandIn, UndoPark, TypeOK, EngineTypes
<1>6. CASE AsideComes \/ AsideStarts \/ AsideEnds
  BY <1>1, <1>6 DEF AsideComes, AsideStarts, AsideEnds, TypeOK, EngineTypes
<1>7. CASE Exit \/ Crash
  BY <1>1, <1>7 DEF Exit, Crash, Exited, Settles, TypeOK, EngineTypes
<1>8. CASE ParkChat \/ Refused \/ Parked \/ AskFails
  BY <1>1, <1>8 DEF ParkChat, Refused, Parked, AskFails, Settles, TypeOK, EngineTypes
<1>9. CASE UnparkFirst \/ Unparked
  BY <1>1, <1>9 DEF UnparkFirst, Unparked, TypeOK, EngineTypes
<1>10. CASE Restored \/ StartFails
  BY <1>1, <1>10 DEF Restored, StartFails, RestoreFails, Ends, Settles, TypeOK, EngineTypes
<1>11. CASE Spawn \/ Resume \/ StopStart
  BY <1>1, <1>11 DEF Spawn, Resume, StopStart, TypeOK, EngineTypes
<1>12. CASE Close
  BY <1>1, <1>12 DEF Close, TypeOK, EngineTypes
<1>13. CASE UNCHANGED vars
  BY <1>1, <1>13 DEF vars, engine, TypeOK, EngineTypes
<1>14. QED
  BY <1>1, <1>2, <1>3, <1>4, <1>5, <1>6, <1>7, <1>8, <1>9, <1>10, <1>11, <1>12, <1>13
     DEF Next, System, Serve, Parking, BringBack, KeepEngine, SettingsMade

(* The first state has an idle engine.                                                   *)
LEMMA First == Init => TypeOK /\ Engine
<1>. SUFFICES ASSUME Init PROVE TypeOK /\ Engine
  OBVIOUS
<1>1. GateTypes /\ AttemptTypes
  BY DEF Init, GateTypes, AttemptTypes
<1>2. EngineTypes /\ Serving
  <2>1. << >> \in Seq({"park", "unpark", "again"})
    OBVIOUS
  <2>2. QED
    BY <2>1 DEF Init, EngineTypes, Serving
<1>3. req = None /\ None \in Shapes /\ None \in Parkless
  BY DEF Init, None, Shapes, Parkless
<1>4. Engine
  BY <1>2, <1>3, Distinct
     DEF Init, Engine, Staged, Flagged, Running, Asked, Unparking, Unasked, Clean, NotYet, Left
<1>5. QED
  BY <1>1, <1>2, <1>4 DEF TypeOK

(* Every variable keeps its type, and the engine serves a request it was asked.          *)
THEOREM TypeCorrect == Spec => []TypeOK
<1>1. Init => TypeOK /\ Engine
  BY First
<1>2. TypeOK /\ Engine /\ [Next]_vars => (TypeOK /\ Engine)'
  BY GateStep, AttemptStep, ProcessStep, EngineStep DEF TypeOK
<1>3. QED
  BY <1>1, <1>2, PTL DEF Spec

(* The engine's invariant holds in every state.                                          *)
LEMMA EngineInvariant == Spec => []Engine
<1>1. Init => TypeOK /\ Engine
  BY First
<1>2. TypeOK /\ Engine /\ [Next]_vars => (TypeOK /\ Engine)'
  BY GateStep, AttemptStep, ProcessStep, EngineStep DEF TypeOK
<1>3. QED
  BY <1>1, <1>2, PTL DEF Spec

(* Work of a chat that is ready goes to an engine that is up, has the session open and   *)
(* is not parked: park.ts never leaves the gate ready with no engine.                    *)
THEOREM ReadyServed == Spec => []ReadyIsServed
<1>1. TypeOK /\ Engine => ReadyIsServed
  BY AtWork DEF ReadyIsServed
<1>2. QED
  BY <1>1, TypeCorrect, EngineInvariant, PTL

(* A chat that was closed leaves no stand-in, unless its park request failed.            *)
THEOREM NothingLeft == Spec => []ClosedLeavesNothing
<1>1. TypeOK /\ Engine => ClosedLeavesNothing
  BY DEF ClosedLeavesNothing, Engine, Left
<1>2. QED
  BY <1>1, TypeCorrect, EngineInvariant, PTL

(***************************************************************************)
(* The gate.                                                               *)
(***************************************************************************)

(* When the work came: in the order it was given, and a prompt runs as a turn.           *)
Arrived ==
    /\ \A x \in Work : came[x] <= arrivals /\ (work[x] = "new" <=> came[x] = 0)
    /\ \A x \in Work : Kind[x] = "prompt" => work[x] # "sent"

(* Turns run at a chat that is ready.                                                    *)
TurnsAreReady == \A x \in Work : work[x] = "turn" => stage = "ready"

(* A step of the gate is one of three: work comes, what waits is given out, and work is  *)
(* over.                                                                                 *)
Arrives(a) ==
    /\ work[a] = "new" /\ arrivals' = arrivals + 1
    /\ came' = [came EXCEPT ![a] = arrivals + 1]
    /\ \/ work' = Puts(a, "held") \/ work' = Puts(a, "refused")
       \/ ~Message(a) /\ work' = Puts(a, "sent")
       \/ (Message(a) => Waits(work) = {}) /\ work' = Given(work, {a})
       \/ pump(Puts(a, "held"), came')

Pumps ==
    /\ UNCHANGED << came, arrivals >>
    /\ \/ pump(work, came)
       \/ \E x \in Work : work[x] = "turn" /\ pump(Puts(x, "done"), came)

Over ==
    /\ UNCHANGED << came, arrivals >>
    /\ \A x \in Work : \/ work'[x] = work[x]
                       \/ work[x] = "held" /\ work'[x] = "refused"
                       \/ work[x] = "turn" /\ work'[x] = "done"

LEMMA GateActs ==
    ASSUME TypeOK, [Next]_vars PROVE (\E a \in Work : Arrives(a)) \/ Pumps \/ Over
<1>. work \in [Work -> Fates]
  BY DEF TypeOK, GateTypes, Fates
<1>1. ASSUME NEW x \in Work, Give(x) \/ Call(x) PROVE Arrives(x)
  BY <1>1 DEF Give, Call, Comes, enqueue, Arrives, Message
<1>2. ASSUME NEW x \in Work, TurnEnds(x) PROVE Pumps \/ Over
  BY <1>2 DEF TurnEnds, Pumps, Over, Puts
<1>3. CASE Drop \/ Close
  BY <1>3 DEF Drop, Close, Waits, Over
<1>4. CASE Retry \/ WakeUp \/ ParkChat \/ AskFails
  BY <1>4 DEF Retry, WakeUp, ParkChat, AskFails, Start, Over
<1>5. CASE Exit \/ Crash
  BY <1>5 DEF Exit, Crash, Exited, Over
<1>6. CASE Refused
  BY <1>6 DEF Refused, Ready, Pumps, Over
<1>7. ASSUME Restored PROVE Pumps
  BY <1>7 DEF Restored, Ready, Pumps
<1>8. CASE StartFails
  BY <1>8 DEF StartFails, RestoreFails, Over
<1>9. CASE BeginPark \/ WriteStandIn \/ UndoPark \/ Reregister \/ LeaveParking
  BY <1>9 DEF BeginPark, WriteStandIn, UndoPark, Reregister, LeaveParking, Others, gate, Over
<1>10. CASE AsideComes \/ AsideStarts \/ AsideEnds
  BY <1>10 DEF AsideComes, AsideStarts, AsideEnds, Others, gate, Over
<1>11. CASE Parked \/ UnparkFirst \/ Unparked
  BY <1>11 DEF Parked, UnparkFirst, Unparked, gate, Over
<1>12. CASE Spawn \/ Resume \/ StopStart
  BY <1>12 DEF Spawn, Resume, StopStart, gate, Over
<1>13. CASE UNCHANGED vars
  BY <1>13 DEF vars, gate, Over
<1>14. QED
  BY <1>1, <1>2, <1>3, <1>4, <1>5, <1>6, <1>7, <1>8, <1>9, <1>10, <1>11, <1>12, <1>13
     DEF Next, System, Serve, Parking, BringBack, KeepEngine, SettingsMade

(* What is given out: a prompt becomes a turn, the rest is sent.                         *)
LEMMA Gives ==
    ASSUME NEW w \in [Work -> Fates], NEW S \in SUBSET Work, NEW x \in Work
    PROVE  Given(w, S)[x] = IF x \notin S THEN w[x] ELSE IF Kind[x] = "prompt" THEN "turn" ELSE "sent"
  BY DEF Given

(* What a pump does to each work.                                                        *)
LEMMA PumpGives ==
    ASSUME NEW w \in [Work -> Fates], NEW cs, pump(w, cs), NEW x \in Work
    PROVE  \/ work'[x] = w[x] /\ (w[x] = "held" => ~Goes(w, cs, x))
           \/ /\ w[x] = "held" /\ Goes(w, cs, x)
              /\ work'[x] = IF Kind[x] = "prompt" THEN "turn" ELSE "sent"
<1>1. {y \in Waits(w) : Goes(w, cs, y)} \in SUBSET Work
  BY DEF Waits
<1>2. work'[x] = IF x \notin {y \in Waits(w) : Goes(w, cs, y)} THEN w[x]
                 ELSE IF Kind[x] = "prompt" THEN "turn" ELSE "sent"
  BY <1>1, Gives DEF pump
<1>3. x \in {y \in Waits(w) : Goes(w, cs, y)} <=> w[x] = "held" /\ Goes(w, cs, x)
  BY DEF Waits
<1>4. QED
  BY <1>2, <1>3

(* What goes leaves no message that came before it: the ones that stay behind wait for   *)
(* the same interjection.                                                                *)
LEMMA GoesInOrder ==
    ASSUME NEW w \in [Work -> Fates], NEW cs \in [Work -> Nat], NEW x \in Work, NEW y \in Work,
           Goes(w, cs, y), ~Goes(w, cs, x), Message(x), Message(y), cs[x] < cs[y]
    PROVE  FALSE
<1>1. PICK z \in Waits(w) : Kind[z] = "follow" /\ cs[z] <= cs[x]
        /\ ~(Turns(w) = {} /\ \A v \in Waits(w) : Kind[v] = "prompt" => cs[v] > cs[z])
  BY DEF Goes
<1>2. z \in Work
  BY DEF Waits
<1>3. cs[z] <= cs[y]
  BY <1>1, <1>2
<1>4. QED
  BY <1>1, <1>3 DEF Goes

(* What an arrival does to the work that is there.                                       *)
LEMMA ArrivalGives ==
    ASSUME TypeOK, NEW a \in Work, Arrives(a), NEW x \in Work
    PROVE  /\ x # a => came'[x] = came[x]
           /\ came'[a] = arrivals + 1 /\ work'[a] # "new"
           /\ Kind[a] = "prompt" => work'[a] # "sent"
           /\ x # a => \/ work'[x] = work[x]
                       \/ /\ pump(Puts(a, "held"), came') /\ work[x] = "held"
                          /\ work'[x] = IF Kind[x] = "prompt" THEN "turn" ELSE "sent"
<1>. work \in [Work -> Fates] /\ came \in [Work -> Nat] /\ "held" \in Fates
  BY DEF TypeOK, GateTypes, Fates
<1>1. (x # a => came'[x] = came[x]) /\ came'[a] = arrivals + 1
  BY DEF Arrives
<1>2. CASE \/ work' = Puts(a, "held") \/ work' = Puts(a, "refused")
           \/ ~Message(a) /\ work' = Puts(a, "sent")
  BY <1>1, <1>2 DEF Puts, Message
<1>3. CASE work' = Given(work, {a})
  BY <1>1, <1>3, Gives
<1>4. CASE pump(Puts(a, "held"), came')
  <2>1. Puts(a, "held") \in [Work -> Fates] /\ Puts(a, "held")[a] = "held"
        /\ (x # a => Puts(a, "held")[x] = work[x])
    BY DEF Puts
  <2>2. work'[a] \in {"held", "turn", "sent"} /\ (Kind[a] = "prompt" => work'[a] # "sent")
    BY <1>4, <2>1, PumpGives
  <2>3. x # a => \/ work'[x] = work[x]
                 \/ /\ work[x] = "held"
                    /\ work'[x] = IF Kind[x] = "prompt" THEN "turn" ELSE "sent"
    BY <1>4, <2>1, PumpGives
  <2>4. QED
    BY <1>1, <1>4, <2>2, <2>3
<1>5. QED
  BY <1>2, <1>3, <1>4 DEF Arrives

(* What is pumped was held; the rest stays or, of one turn, ends.                        *)
LEMMA PumpsGive ==
    ASSUME TypeOK, Pumps
    PROVE  \E w \in [Work -> Fates] :
              /\ pump(w, came)
              /\ \A x \in Work : w[x] = work[x] \/ (work[x] = "turn" /\ w[x] = "done")
<1>. work \in [Work -> Fates] /\ "done" \in Fates
  BY DEF TypeOK, GateTypes, Fates
<1>1. CASE pump(work, came)
  BY <1>1
<1>2. CASE \E x \in Work : work[x] = "turn" /\ pump(Puts(x, "done"), came)
  <2>1. PICK x \in Work : work[x] = "turn" /\ pump(Puts(x, "done"), came)
    BY <1>2
  <2>2. Puts(x, "done") \in [Work -> Fates]
        /\ \A y \in Work : Puts(x, "done")[y] = work[y] \/ (work[y] = "turn" /\ Puts(x, "done")[y] = "done")
    BY <2>1 DEF Puts
  <2>3. QED
    BY <2>1, <2>2
<1>3. QED
  BY <1>1, <1>2 DEF Pumps

LEMMA ArrivedStep ==
    ASSUME TypeOK, Arrived, [Next]_vars PROVE Arrived'
<1>. came \in [Work -> Nat] /\ arrivals \in Nat
  BY DEF TypeOK, GateTypes
<1>1. ASSUME NEW a \in Work, Arrives(a) PROVE Arrived'
  <2>1. arrivals' = arrivals + 1
    BY <1>1 DEF Arrives
  <2>2. ASSUME NEW x \in Work
        PROVE  /\ came'[x] <= arrivals' /\ (work'[x] = "new" <=> came'[x] = 0)
               /\ Kind[x] = "prompt" => work'[x] # "sent"
    BY <1>1, <2>1, ArrivalGives DEF Arrived
  <2>3. QED
    BY <2>2 DEF Arrived
<1>2. CASE Pumps
  <2>1. PICK w \in [Work -> Fates] :
              /\ pump(w, came)
              /\ \A x \in Work : w[x] = work[x] \/ (work[x] = "turn" /\ w[x] = "done")
    BY <1>2, PumpsGive
  <2>2. ASSUME NEW x \in Work
        PROVE  (work'[x] = "new" <=> work[x] = "new") /\ (Kind[x] = "prompt" => work'[x] # "sent")
    BY <2>1, PumpGives DEF Arrived
  <2>3. QED
    BY <1>2, <2>2 DEF Arrived, Pumps
<1>3. CASE Over
  BY <1>3 DEF Over, Arrived
<1>4. QED
  BY <1>1, <1>2, <1>3, GateActs

(* A message never overtakes one that came before it and still waits.                    *)
LEMMA OrderStep ==
    ASSUME TypeOK, Arrived, NobodyOvertakes, [Next]_vars PROVE NobodyOvertakes'
<1>. came \in [Work -> Nat] /\ arrivals \in Nat
  BY DEF TypeOK, GateTypes
<1>. SUFFICES ASSUME NEW x \in Work, NEW y \in Work, Message(x), Message(y),
                     came'[x] < came'[y], work'[x] = "held"
              PROVE  work'[y] \in {"new", "held", "refused"}
  BY DEF NobodyOvertakes, Message
<1>. DEFINE Fine == {"new", "held", "refused"}
<1>1. ASSUME NEW a \in Work, Arrives(a) PROVE work'[y] \in Fine
  <2>1. came' \in [Work -> Nat] /\ Puts(a, "held") \in [Work -> Fates]
        /\ Puts(a, "held")[a] = "held" /\ \A z \in Work : z # a => Puts(a, "held")[z] = work[z]
    <3>1. work \in [Work -> Fates] /\ "held" \in Fates
      BY DEF TypeOK, GateTypes, Fates
    <3>2. came' \in [Work -> Nat]
      BY <1>1 DEF Arrives
    <3>3. QED
      BY <3>1, <3>2 DEF Puts
  <2>2. x # a /\ work[x] = "held" /\ came'[x] = came[x]
    <3>1. x # a
      <4>1. came[y] <= arrivals
        BY DEF Arrived
      <4>2. QED
        BY <1>1, <4>1, ArrivalGives
    <3>2. QED
      BY <1>1, <3>1, ArrivalGives
  <2>3. CASE pump(Puts(a, "held"), came')
    <3>1. ~Goes(Puts(a, "held"), came', x)
      BY <2>1, <2>2, <2>3, PumpGives
    <3>2. ~Goes(Puts(a, "held"), came', y)
      BY <2>1, <3>1, GoesInOrder
    <3>3. work'[y] = Puts(a, "held")[y]
      BY <2>1, <2>3, <3>2, PumpGives
    <3>4. CASE y = a
      BY <2>1, <3>3, <3>4
    <3>5. CASE y # a
      <4>1. came[x] < came[y]
        BY <1>1, <2>2, <3>5, ArrivalGives
      <4>2. work[y] \in Fine
        BY <2>2, <4>1 DEF NobodyOvertakes
      <4>3. QED
        BY <2>1, <3>3, <3>5, <4>2
    <3>6. QED
      BY <3>4, <3>5
  <2>4. CASE ~pump(Puts(a, "held"), came')
    <3>1. CASE y = a
      <4>1. Waits(work) # {}
        BY <2>2 DEF Waits
      <4>2. work' = Puts(a, "held") \/ work' = Puts(a, "refused")
        BY <1>1, <2>4, <3>1, <4>1 DEF Arrives
      <4>3. QED
        BY <3>1, <4>2 DEF Puts, TypeOK, GateTypes
    <3>2. CASE y # a
      <4>1. came[x] < came[y] /\ work'[y] = work[y]
        BY <1>1, <2>2, <2>4, <3>2, ArrivalGives
      <4>2. QED
        BY <2>2, <4>1 DEF NobodyOvertakes
    <3>3. QED
      BY <3>1, <3>2
  <2>5. QED
    BY <2>3, <2>4
<1>2. CASE Pumps
  <2>1. PICK w \in [Work -> Fates] :
              /\ pump(w, came)
              /\ \A z \in Work : w[z] = work[z] \/ (work[z] = "turn" /\ w[z] = "done")
    BY <1>2, PumpsGive
  <2>2. came[x] < came[y] /\ w[x] = "held" /\ ~Goes(w, came, x)
    BY <1>2, <2>1, PumpGives DEF Pumps
  <2>3. work[x] = "held" /\ work[y] \in Fine
    BY <2>1, <2>2 DEF NobodyOvertakes
  <2>4. w[y] = work[y] /\ ~Goes(w, came, y)
    BY <2>1, <2>2, <2>3, GoesInOrder
  <2>5. QED
    BY <2>1, <2>3, <2>4, PumpGives
<1>3. CASE Over
  <2>1. came[x] < came[y] /\ work[x] = "held"
    BY <1>3 DEF Over
  <2>2. work[y] \in Fine
    BY <2>1 DEF NobodyOvertakes
  <2>3. QED
    BY <1>3, <2>2 DEF Over
<1>4. QED
  BY <1>1, <1>2, <1>3, GateActs

(* An interjection that waited goes when the prompts before it are over.                 *)
LEMMA WaitStep ==
    ASSUME TypeOK, Arrived, [Next]_vars,
           NEW x \in Work, NEW y \in Work,
           Kind[x] = "follow", work[x] = "held", work'[x] = "sent",
           Kind[y] = "prompt", 0 < came[y], came[y] < came[x]
    PROVE  work'[y] \in {"done", "refused"}
<1>. came \in [Work -> Nat] /\ arrivals \in Nat /\ work \in [Work -> Fates]
  BY DEF TypeOK, GateTypes, Fates
<1>1. work[y] # "new" /\ work[y] # "sent" /\ work[x] # "new"
  BY DEF Arrived
<1>2. ASSUME NEW w \in [Work -> Fates], NEW cs \in [Work -> Nat], pump(w, cs),
             w[x] = "held", cs[y] < cs[x], w[y] # "new", w[y] # "sent"
      PROVE  work'[y] \in {"done", "refused"}
  <2>1. Goes(w, cs, x)
    BY <1>2, PumpGives
  <2>2. x \in Waits(w) /\ Message(x)
    BY <1>2 DEF Waits, Message
  <2>3. Turns(w) = {} /\ \A z \in Waits(w) : Kind[z] = "prompt" => cs[z] > cs[x]
    BY <2>1, <2>2 DEF Goes
  <2>4. w[y] # "turn" /\ w[y] # "held"
    BY <1>2, <2>3 DEF Turns, Waits
  <2>5. w[y] \in {"done", "refused"} /\ work'[y] = w[y]
    BY <1>2, <2>4, PumpGives DEF Fates
  <2>6. QED
    BY <2>5
<1>3. ASSUME NEW a \in Work, Arrives(a) PROVE work'[y] \in {"done", "refused"}
  <2>1. x # a /\ y # a
    BY <1>1, <1>3 DEF Arrives
  <2>2. pump(Puts(a, "held"), came')
    BY <1>3, <2>1, ArrivalGives
  <2>3. /\ came' \in [Work -> Nat] /\ came'[y] < came'[x]
        /\ Puts(a, "held") \in [Work -> Fates]
        /\ Puts(a, "held")[x] = work[x] /\ Puts(a, "held")[y] = work[y]
    BY <1>3, <2>1 DEF Arrives, Puts, Fates
  <2>4. QED
    BY <1>1, <1>2, <2>2, <2>3
<1>4. CASE Pumps
  <2>1. PICK w \in [Work -> Fates] :
              /\ pump(w, came)
              /\ \A z \in Work : w[z] = work[z] \/ (work[z] = "turn" /\ w[z] = "done")
    BY <1>4, PumpsGive
  <2>2. QED
    BY <1>1, <1>2, <2>1
<1>5. CASE Over
  BY <1>5 DEF Over
<1>6. QED
  BY <1>3, <1>4, <1>5, GateActs

(* Turns are given out only by a gate that is ready, and end with its engine.            *)
LEMMA TurnsStep ==
    ASSUME TypeOK, Engine, TurnsAreReady, [Next]_vars PROVE TurnsAreReady'
<1>. work \in [Work -> Fates] /\ "held" \in Fates /\ "done" \in Fates
  BY DEF TypeOK, GateTypes, Fates
<1>. SUFFICES ASSUME NEW x \in Work, work'[x] = "turn" PROVE stage' = "ready"
  BY DEF TurnsAreReady
<1>1. ASSUME NEW a \in Work, Give(a) PROVE stage' = "ready"
  BY <1>1 DEF Give, Comes, enqueue, Start, Puts, TurnsAreReady
<1>2. ASSUME NEW a \in Work, Call(a) PROVE stage' = "ready"
  BY <1>2 DEF Call, Comes, enqueue, Start, Puts, TurnsAreReady
<1>3. ASSUME NEW a \in Work, TurnEnds(a) PROVE stage' = "ready"
  BY <1>3 DEF TurnEnds, Puts, TurnsAreReady
<1>4. CASE Drop \/ Close
  BY <1>4 DEF Drop, Close, TurnsAreReady
<1>5. CASE Retry \/ WakeUp \/ ParkChat
  BY <1>5 DEF Retry, WakeUp, ParkChat, Start, Turns, TurnsAreReady
<1>6. CASE AskFails
  <2>1. work' = work /\ stage # "ready"
    BY <1>6 DEF AskFails, Engine, Staged
  <2>2. QED
    BY <2>1 DEF TurnsAreReady
<1>7. CASE Exit \/ Crash
  BY <1>7 DEF Exit, Crash, Exited
<1>8. CASE Refused
  BY <1>8 DEF Refused, Ready, TurnsAreReady
<1>9. ASSUME Restored PROVE stage' = "ready"
  BY <1>9 DEF Restored, Ready
<1>10. CASE StartFails
  <2>1. work' = work /\ back # "off"
    BY <1>10 DEF StartFails, RestoreFails
  <2>2. stage = "starting"
    BY <2>1 DEF Engine, Staged
  <2>3. QED
    BY <2>1, <2>2 DEF TurnsAreReady
<1>11. CASE BeginPark \/ WriteStandIn \/ UndoPark \/ Reregister \/ LeaveParking
  BY <1>11 DEF BeginPark, WriteStandIn, UndoPark, Reregister, LeaveParking, Others, gate,
     TurnsAreReady
<1>12. CASE AsideComes \/ AsideStarts \/ AsideEnds
  BY <1>12 DEF AsideComes, AsideStarts, AsideEnds, Others, gate, TurnsAreReady
<1>13. CASE Parked \/ UnparkFirst \/ Unparked
  BY <1>13 DEF Parked, UnparkFirst, Unparked, gate, TurnsAreReady
<1>14. CASE Spawn \/ Resume \/ StopStart
  BY <1>14 DEF Spawn, Resume, StopStart, gate, TurnsAreReady
<1>15. CASE UNCHANGED vars
  BY <1>15 DEF vars, gate, TurnsAreReady
<1>16. QED
  BY <1>1, <1>2, <1>3, <1>4, <1>5, <1>6, <1>7, <1>8, <1>9, <1>10, <1>11, <1>12, <1>13,
     <1>14, <1>15
     DEF Next, System, Serve, Parking, BringBack, KeepEngine, SettingsMade

(* Both hold at first.                                                                   *)
LEMMA FirstWork == Init => Arrived /\ TurnsAreReady /\ NobodyOvertakes
  BY DEF Init, Arrived, TurnsAreReady, NobodyOvertakes

(* The order of arrival and where turns run hold in every state.                         *)
LEMMA GateInvariant == Spec => [](Arrived /\ TurnsAreReady)
<1>1. Init => Arrived /\ TurnsAreReady
  BY FirstWork
<1>2. TypeOK /\ Engine /\ Arrived /\ TurnsAreReady /\ [Next]_vars => (Arrived /\ TurnsAreReady)'
  BY ArrivedStep, TurnsStep
<1>3. QED
  BY <1>1, <1>2, TypeCorrect, EngineInvariant, PTL DEF Spec

(* A message never overtakes one that came before it and still waits, through every park *)
(* and restore: engineGate.ts gives what waits in the order it came.                     *)
THEOREM InOrder == Spec => []NobodyOvertakes
<1>1. Init => NobodyOvertakes
  BY FirstWork
<1>2. TypeOK /\ Arrived /\ NobodyOvertakes /\ [Next]_vars => NobodyOvertakes'
  BY OrderStep
<1>3. QED
  BY <1>1, <1>2, TypeCorrect, GateInvariant, PTL DEF Spec

(* An interjection that waited is given when the prompts before it have ended.           *)
THEOREM InterjectionsAfterTurns == Spec => InterjectionsWait
<1>. DEFINE Waited == \A x, y \in Work :
          /\ Kind[x] = "follow" /\ work[x] = "held" /\ work'[x] = "sent"
          /\ Kind[y] = "prompt" /\ 0 < came[y] /\ came[y] < came[x]
          => work'[y] \in {"done", "refused"}
<1>1. TypeOK /\ Arrived /\ [Next]_vars => [Waited]_vars
  BY WaitStep
<1>2. QED
  BY <1>1, TypeCorrect, GateInvariant, PTL DEF Spec, InterjectionsWait

(* The stop that ends a park ends no turn of the user's, for its chat is not ready, and  *)
(* what it ends of a peer's was accepted, and not a turn, at the idle check: none came   *)
(* since, as the engine's flag was set with the check.                                   *)
THEOREM StopsEndOnlyTheMissed == Spec => []StopEndsOnlyTheMissed
<1>1. TypeOK /\ Engine /\ TurnsAreReady => StopEndsOnlyTheMissed
  <2>. SUFFICES ASSUME TypeOK, Engine, TurnsAreReady, park = "stopping"
                PROVE  Turns(work) = {} /\ (aside # "none" => missed)
    BY DEF StopEndsOnlyTheMissed
  <2>1. Known /\ wake /\ stage # "ready"
    BY DEF Engine, Staged
  <2>2. Turns(work) = {}
    BY <2>1 DEF Turns, TurnsAreReady
  <2>3. QED
    BY <2>1, <2>2 DEF Known
<1>2. QED
  BY <1>1, TypeCorrect, EngineInvariant, GateInvariant, PTL

(***************************************************************************)
(* What held work waits for.                                               *)
(***************************************************************************)

(* Of any works that came, one came first: the count of arrivals only grows.             *)
Lined ==
    \A T \in SUBSET Work :
        T # {} /\ (\A x \in T : came[x] # 0) =>
            \E x \in T : \A y \in T \ {x} : came[x] < came[y]

LEMMA LinedStep ==
    ASSUME TypeOK, Arrived, Lined, [Next]_vars PROVE Lined'
<1>. came \in [Work -> Nat] /\ arrivals \in Nat
  BY DEF TypeOK, GateTypes
<1>1. CASE UNCHANGED came
  BY <1>1 DEF Lined
<1>2. ASSUME NEW a \in Work, Arrives(a) PROVE Lined'
  <2>1. came' = [came EXCEPT ![a] = arrivals + 1] /\ came[a] = 0
    BY <1>2 DEF Arrives, Arrived
  <2>2. \A x \in Work \ {a} : came'[x] = came[x] /\ came'[x] < came'[a]
    BY <2>1 DEF Arrived
  <2>3. SUFFICES ASSUME NEW T \in SUBSET Work, T # {}, \A x \in T : came'[x] # 0
                 PROVE  \E x \in T : \A y \in T \ {x} : came'[x] < came'[y]
    BY DEF Lined
  <2>4. CASE T \subseteq {a}
    BY <2>3, <2>4
  <2>5. CASE ~(T \subseteq {a})
    <3>1. T \ {a} # {} /\ \A x \in T \ {a} : came[x] # 0
      BY <2>2, <2>3, <2>5
    <3>2. PICK x \in T \ {a} : \A y \in (T \ {a}) \ {x} : came[x] < came[y]
      BY <3>1 DEF Lined
    <3>3. \A y \in T \ {x} : came'[x] < came'[y]
      BY <2>2, <3>2
    <3>4. QED
      BY <3>2, <3>3
  <2>6. QED
    BY <2>4, <2>5
<1>3. QED
  BY <1>1, <1>2, GateActs DEF Pumps, Over

(* What a pump leaves are messages, and it leaves them behind a turn: of the prompts     *)
(* before a waiting interjection the first is given out.                                 *)
LEMMA PumpLeaves ==
    ASSUME NEW w \in [Work -> Fates], NEW cs \in [Work -> Nat], pump(w, cs),
           \A T \in SUBSET Waits(w) : T # {} => \E x \in T : \A y \in T \ {x} : cs[x] < cs[y],
           NEW x \in Work, work'[x] = "held"
    PROVE  Message(x) /\ Turns(work') # {}
<1>1. w[x] = "held" /\ ~Goes(w, cs, x)
  BY PumpGives
<1>2. Message(x)
  BY <1>1 DEF Goes
<1>3. SUFFICES ASSUME Turns(work') = {} PROVE FALSE
  BY <1>2
<1>4. \A y \in Work : w[y] # "turn" /\ (w[y] = "held" /\ Kind[y] = "prompt" => ~Goes(w, cs, y))
  BY <1>3, PumpGives DEF Turns
<1>5. Turns(w) = {}
  BY <1>4 DEF Turns
<1>. DEFINE P == {y \in Waits(w) : Kind[y] = "prompt"}
<1>6. \A z \in Waits(w) : ~Goes(w, cs, z) =>
         \E y \in Waits(w) : /\ Kind[y] = "follow" /\ cs[y] <= cs[z]
                             /\ \E v \in P : cs[v] <= cs[y]
  BY <1>5 DEF Goes, Waits
<1>7. x \in Waits(w)
  BY <1>1 DEF Waits
<1>8. P # {} /\ P \in SUBSET Waits(w)
  BY <1>1, <1>6, <1>7
<1>9. PICK p \in P : \A y \in P \ {p} : cs[p] < cs[y]
  BY <1>8
<1>10. p \in Work /\ ~Goes(w, cs, p) /\ p \in Waits(w) /\ Kind[p] = "prompt"
  BY <1>4, <1>9 DEF Waits
<1>11. PICK y \in Waits(w) : Kind[y] = "follow" /\ cs[y] <= cs[p] /\ \E v \in P : cs[v] <= cs[y]
  BY <1>6, <1>10
<1>12. cs[p] <= cs[y] /\ y \in Work
  <2>1. PICK v \in P : cs[v] <= cs[y]
    BY <1>11
  <2>2. y \in Work /\ v \in Work
    BY <1>8 DEF Waits
  <2>3. cs[p] <= cs[v]
    BY <1>9, <1>10, <2>2
  <2>4. QED
    BY <1>10, <2>1, <2>2, <2>3
<1>13. cs[y] = cs[p] /\ y # p
  BY <1>10, <1>11, <1>12
<1>14. {y, p} \in SUBSET Waits(w) /\ {y, p} # {}
  BY <1>10, <1>11
<1>15. PICK m \in {y, p} : \A n \in {y, p} \ {m} : cs[m] < cs[n]
  BY <1>14
<1>16. QED
  BY <1>10, <1>12, <1>13, <1>15

(* Held work is never stranded: it waits for the user's Retry, for a start that is under *)
(* way, or behind a turn of an engine that is up.                                        *)
HeldHasAReason ==
    Waits(work) # {} =>
        /\ ~closed
        /\ \/ stage = "failed"
           \/ stage = "starting" /\ back # "off"
           \/ stage = "ready" /\ proc = "up" /\ Turns(work) # {}

\* The request a start waits for is still to be served, unless its engine is gone.
Requested(r) == \E i \in DOMAIN req : req[i] = r
StartsAreServed ==
    /\ ~closed /\ park = "asked" /\ parkAns = "none" /\ proc # "none" => Requested("park")
    /\ back = "unparking" /\ ~unparkAns /\ proc = "up" => Requested("unpark")

\* Nothing is held by a chat that is closed, parked or stopped; at a gate that is ready
\* only messages are, behind a turn.
Behind ==
    /\ closed \/ stage \in {"parked", "stopped"} => Waits(work) = {}
    /\ stage = "ready" => \A x \in Waits(work) : Message(x) /\ Turns(work) # {}

LEMMA BehindStep ==
    ASSUME TypeOK, Engine, Arrived, TurnsAreReady, Lined, Behind, [Next]_vars PROVE Behind'
<1>. work \in [Work -> Fates] /\ "held" \in Fates /\ "done" \in Fates /\ came \in [Work -> Nat]
     /\ arrivals \in Nat
  BY DEF TypeOK, GateTypes, Fates
<1>0. \A w \in [Work -> Fates] :
         (\A x \in Work : w[x] = "held" => work[x] = "held") =>
         \A T \in SUBSET Waits(w) : T # {} => \E x \in T : \A y \in T \ {x} : came[x] < came[y]
  BY DEF Lined, Arrived, Waits
<1>p. ASSUME NEW w \in [Work -> Fates], pump(w, came),
             \A x \in Work : w[x] = "held" => work[x] = "held"
      PROVE  \A x \in Waits(work)' : Message(x) /\ Turns(work)' # {}
  BY <1>0, <1>p, PumpLeaves DEF Waits, Turns
<1>1. ASSUME NEW a \in Work, Give(a) \/ Call(a) PROVE Behind'
  <2>1. ~closed /\ UNCHANGED closed
    BY <1>1 DEF Give, Call, Comes
  <2>2. CASE UNCHANGED stage /\ (work' = Puts(a, "sent") \/ work' = Puts(a, "refused"))
    <3>1. work[a] = "new"
      BY <1>1 DEF Give, Call, Comes
    <3>2. \A f \in {"sent", "refused"} :
             Waits(Puts(a, f)) = Waits(work) /\ Turns(Puts(a, f)) = Turns(work)
      BY <3>1 DEF Puts, Waits, Turns
    <3>3. Waits(work)' = Waits(work) /\ Turns(work)' = Turns(work)
      BY <2>2, <3>2 DEF Waits, Turns
    <3>4. QED
      BY <2>1, <2>2, <3>3 DEF Behind
  <2>3. CASE enqueue(a)
    <3>1. CASE stage = "stopped" /\ UNCHANGED stage /\ work' = Puts(a, "refused")
      BY <2>1, <3>1 DEF Behind, Puts, Waits, Turns
    <3>2. CASE stage' \in {"starting", "failed"}
      BY <2>1, <3>2 DEF Behind
    <3>3. CASE stage = "ready" /\ UNCHANGED stage /\ work' = Given(work, {a})
      <4>1. \A x \in Work : work'[x] = "held" => x # a /\ work[x] = "held"
        BY <3>3, Gives
      <4>2. \A x \in Work : work[x] = "turn" => work'[x] = "turn"
        BY <1>1, <3>3, Gives DEF Give, Call, Comes
      <4>3. QED
        BY <2>1, <3>3, <4>1, <4>2 DEF Behind, Waits, Turns
    <3>4. CASE stage = "ready" /\ UNCHANGED stage /\ pump(Puts(a, "held"), came')
      <4>1. came' = [came EXCEPT ![a] = arrivals + 1]
        BY <1>1 DEF Give, Call, Comes
      <4>2. Lined'
        BY LinedStep
      <4>3. Puts(a, "held") \in [Work -> Fates] /\ came' \in [Work -> Nat]
            /\ \A x \in Waits(Puts(a, "held")) : came'[x] # 0
        BY <4>1 DEF Puts, Waits, Arrived
      <4>4. \A T \in SUBSET Waits(Puts(a, "held")) :
               T # {} => \E x \in T : \A y \in T \ {x} : came'[x] < came'[y]
        BY <4>2, <4>3 DEF Lined, Waits
      <4>5. \A x \in Waits(work)' : Message(x) /\ Turns(work)' # {}
        BY <3>4, <4>3, <4>4, PumpLeaves DEF Waits, Turns
      <4>6. QED
        BY <2>1, <3>4, <4>5 DEF Behind
    <3>5. QED
      BY <2>3, <3>1, <3>2, <3>3, <3>4 DEF enqueue, Start
  <2>4. QED
    BY <1>1, <2>2, <2>3 DEF Give, Call
<1>2. ASSUME NEW a \in Work, TurnEnds(a) PROVE Behind'
  <2>1. /\ stage = "ready" /\ UNCHANGED << stage, closed >> /\ ~closed
        /\ pump(Puts(a, "done"), came) /\ work[a] = "turn"
    BY <1>2 DEF TurnEnds, TurnsAreReady, attempt, Engine, Running
  <2>2. Puts(a, "done") \in [Work -> Fates]
        /\ \A x \in Work : Puts(a, "done")[x] = "held" => work[x] = "held"
    BY DEF Puts
  <2>3. QED
    BY <1>p, <2>1, <2>2 DEF Behind
<1>3. CASE Drop
  BY <1>3 DEF Drop, attempt, Behind, Waits, Turns
<1>4. CASE Close
  BY <1>4 DEF Close, Behind, Waits, Turns
<1>5. CASE Retry \/ WakeUp
  BY <1>5 DEF Retry, WakeUp, Start, Behind
<1>6. CASE ParkChat
  BY <1>6 DEF ParkChat, Behind
<1>7. CASE AskFails
  BY <1>7 DEF AskFails, Start, Behind
<1>8. CASE Exit \/ Crash
  <2>1. UNCHANGED closed /\ proc # "none"
    BY <1>8 DEF Exit, Crash, Exited
  <2>2. work' = [x \in Work |-> CASE work[x] = "turn" -> "done"
                                    [] work[x] = "held" /\ stage = "ready" /\ ~closed -> "refused"
                                    [] OTHER -> work[x]]
        /\ stage' = IF stage = "ready" /\ ~closed THEN "stopped" ELSE stage
    BY <1>8 DEF Exit, Crash, Exited
  <2>3. \A x \in Work : work'[x] = "held" => work[x] = "held" /\ (closed \/ stage # "ready")
    BY <2>2
  <2>4. QED
    BY <2>1, <2>2, <2>3 DEF Behind, Waits
<1>9. CASE Refused
  <2>1. CASE Woken \/ closed
    BY <1>9, <2>1 DEF Refused, Behind
  <2>2. CASE ~(Woken \/ closed)
    BY <1>9, <1>p, <2>2 DEF Refused, Ready, Behind
  <2>3. QED
    BY <2>1, <2>2
<1>10. ASSUME Restored, ~closed PROVE Behind'
  BY <1>10, <1>p DEF Restored, Ready, Behind
<1>11. CASE KeepEngine
  BY <1>10, <1>11 DEF KeepEngine
<1>12. CASE SettingsMade
  BY <1>10, <1>12 DEF SettingsMade, Pid
<1>13. CASE StartFails
  BY <1>13 DEF StartFails, RestoreFails, Behind
<1>14. CASE BeginPark \/ WriteStandIn \/ UndoPark \/ Reregister \/ LeaveParking
  <2>1. UNCHANGED << stage, work, closed >>
    <3>1. CASE BeginPark BY <3>1 DEF BeginPark, Others, gate, attempt
    <3>2. CASE WriteStandIn BY <3>2 DEF WriteStandIn, Others, gate, attempt
    <3>3. CASE UndoPark BY <3>3 DEF UndoPark, Others, gate, attempt
    <3>4. CASE Reregister BY <3>4 DEF Reregister, Others, gate, attempt
    <3>5. CASE LeaveParking BY <3>5 DEF LeaveParking, Others, gate, attempt
    <3>6. QED
      BY <1>14, <3>1, <3>2, <3>3, <3>4, <3>5
  <2>2. QED
    BY <2>1 DEF Behind, Waits, Turns
<1>15. CASE AsideComes \/ AsideStarts \/ AsideEnds
  BY <1>15 DEF AsideComes, AsideStarts, AsideEnds, Others, gate, attempt, Behind
<1>16. CASE Parked \/ UnparkFirst \/ Unparked
  BY <1>16 DEF Parked, UnparkFirst, Unparked, gate, Behind
<1>17. CASE Spawn \/ Resume \/ StopStart
  BY <1>17 DEF Spawn, Resume, StopStart, gate, Behind
<1>18. CASE UNCHANGED vars
  BY <1>18 DEF vars, gate, attempt, Behind
<1>19. QED
  BY <1>1, <1>2, <1>3, <1>4, <1>5, <1>6, <1>7, <1>8, <1>9, <1>11, <1>12, <1>13, <1>14, <1>15,
     <1>16, <1>17, <1>18
     DEF Next, System, Serve, Parking, BringBack

(* A park or unpark that is awaited is in the engine's queue.                            *)
LEMMA StillAsked == Engine => StartsAreServed
<1>1. /\ \A r \in {Park, Late} : \E i \in DOMAIN r : r[i] = "park"
      /\ \A r \in {Unpark, Undone, Both} : \E i \in DOMAIN r : r[i] = "unpark"
  BY DEF Park, Again, Late, Unpark, Undone, Both
<1>2. QED
  BY <1>1 DEF Engine, Asked, Unparking, StartsAreServed, Requested

(* However often the chat is parked, restored, lost or closed, work that is held has a   *)
(* cause to go that is still to come, and a start that must end for it has its answer    *)
(* on the way (the safety half of HeldWorkGoes).                                         *)
THEOREM HeldWorkIsNotStranded == Spec => [](HeldHasAReason /\ StartsAreServed)
<1>1. Init => Lined /\ Behind
  BY DEF Init, Lined, Behind, Waits
<1>2. TypeOK /\ Engine /\ Arrived /\ TurnsAreReady /\ Lined /\ Behind /\ [Next]_vars
        => (Lined /\ Behind)'
  BY LinedStep, BehindStep
<1>3. TypeOK /\ Engine /\ Behind => HeldHasAReason
  BY AtWork DEF TypeOK, GateTypes, Engine, Staged, Behind, HeldHasAReason
<1>4. QED
  BY <1>1, <1>2, <1>3, TypeCorrect, EngineInvariant, GateInvariant, StillAsked, PTL DEF Spec
=============================================================================
