------------------------- MODULE SessionDrainProofs -------------------------
(* Proofs about SessionDrain for every set of prompts, senders, resumers and *)
(* stoppers, every bound and every agent's allowance of steps.               *)
EXTENDS SessionDrain, TLAPS

(***************************************************************************)
(* Types.                                                                  *)
(***************************************************************************)

(* A sender's prompt is a prompt.                                            *)
LEMMA SendType ==
    \A s \in Senders : Sends[s].id \in Prompts /\ Sends[s].delivery \in Deliveries
  BY DrainAssumption

(* The entry made next is one of the entries, and new.                       *)
LEMMA NextEntry ==
    ASSUME TypeOK, made < MaxEntries
    PROVE  made + 1 \in Entry /\ made + 1 \in 0..MaxEntries /\ made + 1 # 0
  BY DrainAssumption DEF TypeOK, EntryTypes, Entry

(* What a start changes keeps its type.                                      *)
LEMMA StartType ==
    ASSUME TypeOK, NEW f \in BOOLEAN, Start(f)
    PROVE  /\ active' \in Entry \cup {0} /\ made' \in 0..MaxEntries
           /\ pc' \in [Entry -> Stages] /\ force' \in [Entry -> BOOLEAN]
           /\ made + 1 \in Entry
<1>1. made + 1 \in Entry /\ made + 1 \in 0..MaxEntries
  BY NextEntry DEF Start
<1>2. pc' \in [Entry -> Stages]
  BY DEF Start, TypeOK, DrainTypes, Stages
<1>3. force' \in [Entry -> BOOLEAN]
  BY DEF Start, TypeOK, DrainTypes
<1>4. QED
  BY <1>1, <1>2, <1>3 DEF Start

(* What a wake changes keeps its type.                                       *)
LEMMA WakeType ==
    ASSUME TypeOK, wake
    PROVE  /\ active' \in Entry \cup {0} /\ made' \in 0..MaxEntries
           /\ pc' \in [Entry -> Stages] /\ force' \in [Entry -> BOOLEAN]
           /\ pendingWake' \in [Entry -> BOOLEAN]
<1>1. CASE active = 0
  BY <1>1, StartType DEF wake, TypeOK, EntryTypes
<1>2. CASE active # 0
  BY <1>2 DEF wake, TypeOK, EntryTypes, DrainTypes
<1>3. QED
  BY <1>1, <1>2

(* What settling an entry changes keeps its type.                            *)
LEMMA SettleType ==
    ASSUME TypeOK, NEW e \in Entry, NEW exit \in Exits, settle(e, exit)
    PROVE  /\ active' \in Entry \cup {0} /\ made' \in 0..MaxEntries
           /\ pc' \in [Entry -> Stages] /\ force' \in [Entry -> BOOLEAN]
           /\ pendingWake' \in [Entry -> BOOLEAN]
           /\ done' \in [Entry -> Exits \cup {"open"}]
           /\ owed' \subseteq Prompts
<1>1. active' \in Entry \cup {0} /\ made' \in 0..MaxEntries
  BY NextEntry DEF settle, TypeOK, EntryTypes
<1>2. pc' \in [Entry -> Stages]
  BY NextEntry DEF settle, TypeOK, DrainTypes, Stages
<1>3. force' \in [Entry -> BOOLEAN]
  BY NextEntry DEF settle, TypeOK, DrainTypes
<1>4. pendingWake' \in [Entry -> BOOLEAN]
  BY DEF settle, TypeOK, EntryTypes
<1>5. done' \in [Entry -> Exits \cup {"open"}]
  BY DEF settle, TypeOK, EntryTypes
<1>6. owed' \subseteq Prompts
  BY DEF settle, TypeOK, InboxTypes
<1>7. QED
  BY <1>1, <1>2, <1>3, <1>4, <1>5, <1>6

(* A drain that leaves keeps the types.                                      *)
LEMMA LeaveType ==
    ASSUME TypeOK, NEW e \in Entry, NEW exit \in Exits, Leave(e, exit), faults' \in Nat
    PROVE  TypeOK'
<1>1. InboxTypes'
  BY SettleType DEF Leave, TypeOK, InboxTypes, inbox
<1>2. EntryTypes'
  BY SettleType DEF Leave, Forget, TypeOK, EntryTypes
<1>3. DrainTypes'
  BY SettleType DEF Leave, Forget, TypeOK, DrainTypes, Deliveries
<1>4. CallerTypes'
  BY DEF Leave, TypeOK, CallerTypes, callers
<1>5. QED
  BY <1>1, <1>2, <1>3, <1>4 DEF TypeOK

(* Every step keeps every variable's type.                                    *)
LEMMA TypeStep ==
    ASSUME TypeOK, [Next]_vars PROVE TypeOK'
<1>1. ASSUME NEW e \in Entry, Begin(e) PROVE TypeOK'
  BY <1>1 DEF Begin, At, Goto, TypeOK, InboxTypes, EntryTypes, DrainTypes, CallerTypes,
     inbox, entries, drain, callers, Stages, Deliveries, Rows, hasPending, Oldest, Found
<1>2. ASSUME NEW e \in Entry, LookForSteers(e) PROVE TypeOK'
  BY <1>2 DEF LookForSteers, At, Goto, TypeOK, InboxTypes, EntryTypes, DrainTypes,
     CallerTypes, inbox, entries, drain, callers, Stages, Deliveries, Rows, hasPending,
     Oldest, Found
<1>3. ASSUME NEW e \in Entry, LookForQueued(e) PROVE TypeOK'
  BY <1>3 DEF LookForQueued, At, Goto, TypeOK, InboxTypes, EntryTypes, DrainTypes,
     CallerTypes, inbox, entries, drain, callers, Stages, Deliveries, Rows, hasPending,
     Oldest, Found
<1>4. ASSUME NEW e \in Entry, Attempt(e) PROVE TypeOK'
  <2>1. InboxTypes'
    BY <1>4 DEF Attempt, At, Goto, TypeOK, InboxTypes, inbox, entries, drain, callers,
       Rows, Deliveries
  <2>2. EntryTypes'
    BY <1>4 DEF Attempt, At, Goto, TypeOK, EntryTypes, inbox, entries, drain, callers
  <2>3. DrainTypes'
    BY <1>4 DEF Attempt, At, Goto, TypeOK, DrainTypes, inbox, entries, drain, callers,
       Stages, InboxTypes
  <2>4. CallerTypes'
    BY <1>4 DEF Attempt, At, Goto, TypeOK, CallerTypes, inbox, entries, drain, callers,
       EntryTypes, Exits, Found
  <2>5. QED
    BY <2>1, <2>2, <2>3, <2>4 DEF TypeOK
<1>5. ASSUME NEW e \in Entry, promoteNextQueued(e) PROVE TypeOK'
  BY <1>5 DEF promoteNextQueued, At, Goto, TypeOK, InboxTypes, EntryTypes, DrainTypes,
     CallerTypes, inbox, entries, drain, callers, Stages, Deliveries, Rows, hasPending,
     Oldest, Found
<1>6. ASSUME NEW e \in Entry, promoteSteers(e) PROVE TypeOK'
  BY <1>6 DEF promoteSteers, At, Goto, TypeOK, InboxTypes, EntryTypes, DrainTypes,
     CallerTypes, inbox, entries, drain, callers, Stages, Deliveries, Rows, hasPending,
     Oldest, Found
<1>7. ASSUME NEW e \in Entry, publish(e) PROVE TypeOK'
  BY <1>7 DEF publish, At, Goto, TypeOK, InboxTypes, EntryTypes, DrainTypes, CallerTypes,
     inbox, entries, drain, callers, Stages, Deliveries, Rows, hasPending, Oldest, Found
<1>8. ASSUME NEW e \in Entry, Assemble(e) PROVE TypeOK'
  BY <1>8 DEF Assemble, At, Goto, TypeOK, InboxTypes, EntryTypes, DrainTypes, CallerTypes,
     inbox, entries, drain, callers, Stages, Deliveries, Rows, hasPending, Oldest, Found
<1>9. ASSUME NEW e \in Entry, Turn(e) PROVE TypeOK'
  BY <1>9 DEF Turn, At, Goto, TypeOK, InboxTypes, EntryTypes, DrainTypes, CallerTypes,
     inbox, entries, drain, callers, Stages, Deliveries, Rows, hasPending, Oldest, Found
<1>10. ASSUME NEW e \in Entry, Continue(e) PROVE TypeOK'
  BY <1>10 DEF Continue, At, Goto, TypeOK, InboxTypes, EntryTypes, DrainTypes, CallerTypes,
     inbox, entries, drain, callers, Stages, Deliveries, Rows, hasPending, Oldest, Found
<1>11. ASSUME NEW e \in Entry, Idle(e) PROVE TypeOK'
  <2>1. InboxTypes' /\ EntryTypes' /\ CallerTypes'
    BY <1>11 DEF Idle, TypeOK, InboxTypes, EntryTypes, CallerTypes, inbox, entries, callers
  <2>2. promotion' \in [Entry -> Deliveries \cup {"none"}] /\ step' \in [Entry -> Nat]
    BY <1>11 DEF Idle, TypeOK, DrainTypes, Deliveries
  <2>3. pc' \in [Entry -> Stages]
    BY <1>11 DEF Idle, Goto, TypeOK, DrainTypes, Stages
  <2>4. DrainTypes'
    BY <1>11, <2>2, <2>3 DEF Idle, TypeOK, DrainTypes
  <2>5. QED
    BY <2>1, <2>4 DEF TypeOK
<1>12. ASSUME NEW e \in Entry, End(e) PROVE TypeOK'
  <2>1. "ok" \in Exits /\ faults' \in Nat
    BY <1>12 DEF End, Exits, TypeOK, CallerTypes
  <2>2. QED
    BY <1>12, <2>1, LeaveType DEF End
<1>13. ASSUME NEW e \in Entry, Unwind(e) PROVE TypeOK'
  <2>1. "interrupted" \in Exits /\ faults' \in Nat
    BY <1>13 DEF Unwind, Exits, TypeOK, CallerTypes
  <2>2. QED
    BY <1>13, <2>1, LeaveType DEF Unwind
<1>14. ASSUME NEW e \in Entry, Fail(e) PROVE TypeOK'
  <2>1. faults' \in Nat
    BY <1>14 DEF Fail, TypeOK, CallerTypes
  <2>2. PICK exit \in {"failed", "interrupted"} : Leave(e, exit)
    BY <1>14 DEF Fail
  <2>3. exit \in Exits
    BY DEF Exits
  <2>4. QED
    BY <2>1, <2>2, <2>3, LeaveType
<1>15. ASSUME NEW s \in Senders, Find(s) PROVE TypeOK'
  BY <1>15 DEF Find, TypeOK, InboxTypes, EntryTypes, DrainTypes, CallerTypes, inbox,
     entries, drain, callers, Stages, Deliveries, Rows, hasPending, Oldest, Found
<1>16. ASSUME NEW s \in Senders, admit(s) PROVE TypeOK'
  <2>1. InboxTypes'
    BY <1>16, SendType DEF admit, TypeOK, InboxTypes, inbox, entries, drain, callers, Rows,
       Deliveries
  <2>2. EntryTypes'
    BY <1>16, SendType DEF admit, TypeOK, EntryTypes, inbox, entries, drain, callers
  <2>3. DrainTypes'
    BY <1>16, SendType DEF admit, TypeOK, DrainTypes, inbox, entries, drain, callers,
       Stages, InboxTypes
  <2>4. CallerTypes'
    BY <1>16, SendType DEF admit, TypeOK, CallerTypes, inbox, entries, drain, callers,
       EntryTypes, Exits, Found
  <2>5. QED
    BY <2>1, <2>2, <2>3, <2>4 DEF TypeOK
<1>17. ASSUME NEW s \in Senders, Wake(s) PROVE TypeOK'
  <2>1. InboxTypes'
    BY <1>17, SendType DEF Wake, TypeOK, InboxTypes, inbox
  <2>2. EntryTypes'
    BY <1>17, WakeType DEF Wake, TypeOK, EntryTypes
  <2>3. DrainTypes'
    BY <1>17, WakeType DEF Wake, TypeOK, DrainTypes
  <2>4. CallerTypes'
    BY <1>17 DEF Wake, TypeOK, CallerTypes
  <2>5. QED
    BY <2>1, <2>2, <2>3, <2>4 DEF TypeOK
<1>18. ASSUME NEW r \in Resumers, Run(r) PROVE TypeOK'
  <2>1. InboxTypes'
    BY <1>18 DEF Run, TypeOK, InboxTypes, inbox
  <2>2. EntryTypes'
    BY <1>18, StartType DEF Run, TypeOK, EntryTypes
  <2>3. DrainTypes'
    BY <1>18, StartType DEF Run, TypeOK, DrainTypes
  <2>4. CallerTypes'
    <3>1. CASE active = 0
      <4>1. made + 1 \in Entry /\ made + 1 # 0
        BY <1>18, <3>1, NextEntry DEF Run, Start
      <4>2. QED
        BY <1>18, <3>1, <4>1 DEF Run, TypeOK, CallerTypes
    <3>2. CASE active # 0
      BY <1>18, <3>2 DEF Run, TypeOK, CallerTypes, EntryTypes
    <3>3. QED
      BY <3>1, <3>2
  <2>5. QED
    BY <2>1, <2>2, <2>3, <2>4 DEF TypeOK
<1>19. ASSUME NEW r \in Resumers, Answer(r) PROVE TypeOK'
  <2>1. InboxTypes' /\ EntryTypes' /\ DrainTypes'
    BY <1>19 DEF Answer, TypeOK, InboxTypes, EntryTypes, DrainTypes, inbox, entries, drain
  <2>2. CallerTypes'
    <3>1. on[r] \in Entry => done[on[r]] \in Exits
      BY <1>19 DEF Answer, TypeOK, EntryTypes
    <3>2. on[r] \in Entry \cup {0}
      BY DEF TypeOK, CallerTypes
    <3>3. on[r] # 0
      BY <1>19 DEF Answer, TypeOK, CallerTypes
    <3>4. ask' \in [Resumers -> {"new", "joined", "behind", "again"} \cup Exits]
      BY <1>19, <3>1, <3>2, <3>3 DEF Answer, TypeOK, CallerTypes
    <3>5. ask'[r] \notin {"joined", "behind"}
      BY <1>19, <3>1, <3>2, <3>3 DEF Answer, TypeOK, CallerTypes, Exits
    <3>6. QED
      BY <1>19, <3>4, <3>5 DEF Answer, TypeOK, CallerTypes
  <2>3. QED
    BY <2>1, <2>2 DEF TypeOK
<1>20. ASSUME NEW k \in Stoppers, Interrupt(k) PROVE TypeOK'
  <2>1. InboxTypes'
    BY <1>20 DEF Interrupt, TypeOK, InboxTypes, inbox, entries, drain, callers, Rows,
       Deliveries
  <2>2. EntryTypes'
    BY <1>20 DEF Interrupt, TypeOK, EntryTypes, inbox, entries, drain, callers
  <2>3. DrainTypes'
    BY <1>20 DEF Interrupt, TypeOK, DrainTypes, inbox, entries, drain, callers, Stages,
       InboxTypes
  <2>4. CallerTypes'
    BY <1>20 DEF Interrupt, TypeOK, CallerTypes, inbox, entries, drain, callers, EntryTypes,
       Exits, Found
  <2>5. QED
    BY <2>1, <2>2, <2>3, <2>4 DEF TypeOK
<1>21. ASSUME NEW k \in Stoppers, Interrupted(k) PROVE TypeOK'
  BY <1>21 DEF Interrupted, TypeOK, InboxTypes, EntryTypes, DrainTypes, CallerTypes, inbox,
     entries, drain, callers, Stages, Deliveries, Rows, hasPending, Oldest, Found
<1>22. ASSUME Crash PROVE TypeOK'
  <2>1. InboxTypes'
    BY <1>22 DEF Crash, TypeOK, InboxTypes, inbox
  <2>2. EntryTypes' /\ DrainTypes'
    <3>1. CASE active = 0
      BY <1>22, <3>1 DEF Crash, TypeOK, EntryTypes, DrainTypes, Stages
    <3>2. CASE active # 0
      <4>1. active \in Entry
        BY <3>2 DEF TypeOK, EntryTypes
      <4>2. EntryTypes'
        BY <1>22, <3>2, <4>1 DEF Crash, Forget, TypeOK, EntryTypes
      <4>3. DrainTypes'
        <5>1. pc' \in [Entry -> Stages] /\ force' \in [Entry -> BOOLEAN]
          BY <1>22 DEF Crash, TypeOK, DrainTypes, Stages
        <5>2. Forget(active)
          BY <1>22, <3>2 DEF Crash
        <5>3. /\ promotion' \in [Entry -> Deliveries \cup {"none"}]
              /\ cutoff' \in [Entry -> Nat] /\ step' \in [Entry -> Nat]
          BY <4>1, <5>2 DEF Forget, TypeOK, DrainTypes, Deliveries
        <5>4. /\ batch' \in [Entry -> SUBSET Prompts]
              /\ fresh' \in [Entry -> BOOLEAN] /\ more' \in [Entry -> BOOLEAN]
          BY <4>1, <5>2 DEF Forget, TypeOK, DrainTypes
        <5>5. QED
          BY <5>1, <5>3, <5>4 DEF DrainTypes
      <4>4. QED
        BY <4>2, <4>3
    <3>3. QED
      BY <3>1, <3>2
  <2>3. CallerTypes'
    BY <1>22 DEF Crash, TypeOK, CallerTypes, Exits
  <2>4. QED
    BY <2>1, <2>2, <2>3 DEF TypeOK
<1>23. CASE UNCHANGED vars
  BY <1>23 DEF vars, TypeOK, InboxTypes, EntryTypes, DrainTypes, CallerTypes, inbox,
     entries, drain, callers, Stages, Deliveries, Rows, hasPending, Oldest, Found
<1>24. QED
  BY <1>1, <1>2, <1>3, <1>4, <1>5, <1>6, <1>7, <1>8, <1>9, <1>10, <1>11, <1>12, <1>13,
     <1>14, <1>15, <1>16, <1>17, <1>18, <1>19, <1>20, <1>21, <1>22, <1>23 DEF Next, System,
     DrainStep

(* Every variable keeps its type.                                            *)
THEOREM TypeCorrect == Spec => []TypeOK
<1>1. Init => TypeOK
  BY DrainAssumption DEF Init, TypeOK, InboxTypes, EntryTypes, DrainTypes, CallerTypes,
     Entry, Stages, Deliveries, Rows, Exits
<1>2. TypeOK /\ [Next]_vars => TypeOK'
  BY TypeStep
<1>3. QED
  BY <1>1, <1>2, PTL DEF Spec

(***************************************************************************)
(* One drain.                                                              *)
(***************************************************************************)

(* The session's entry is the one whose drain is alive.                      *)
Owner ==
    /\ active <= made
    /\ \A e \in Entry : pc[e] # "off" <=> active = e

(* Every step keeps the entry and its drain together.                         *)
LEMMA OwnerStep ==
    ASSUME TypeOK, Owner, [Next]_vars PROVE Owner'
<1>0. ASSUME NEW e \in Entry, NEW stage, stage # "off", pc[e] # "off", Goto(e, stage),
             UNCHANGED << active, made >>
      PROVE  Owner'
  BY <1>0 DEF Goto, TypeOK, DrainTypes, Owner
<1>1. ASSUME NEW e \in Entry, Begin(e) PROVE Owner'
  BY <1>0, <1>1 DEF Begin, At, entries
<1>2. ASSUME NEW e \in Entry, LookForSteers(e) PROVE Owner'
  BY <1>0, <1>2 DEF LookForSteers, At, entries
<1>3. ASSUME NEW e \in Entry, LookForQueued(e) PROVE Owner'
  BY <1>0, <1>3 DEF LookForQueued, At, entries
<1>4. ASSUME NEW e \in Entry, Attempt(e) PROVE Owner'
  BY <1>0, <1>4 DEF Attempt, At, entries
<1>5. ASSUME NEW e \in Entry, promoteNextQueued(e) PROVE Owner'
  BY <1>0, <1>5 DEF promoteNextQueued, At, entries
<1>6. ASSUME NEW e \in Entry, promoteSteers(e) PROVE Owner'
  BY <1>0, <1>6 DEF promoteSteers, At, entries
<1>7. ASSUME NEW e \in Entry, publish(e) PROVE Owner'
  BY <1>0, <1>7 DEF publish, At, entries
<1>8. ASSUME NEW e \in Entry, Assemble(e) PROVE Owner'
  BY <1>0, <1>8 DEF Assemble, At, entries
<1>9. ASSUME NEW e \in Entry, Turn(e) PROVE Owner'
  BY <1>0, <1>9 DEF Turn, At, entries
<1>10. ASSUME NEW e \in Entry, Continue(e) PROVE Owner'
  BY <1>0, <1>10 DEF Continue, At, entries
<1>11. ASSUME NEW e \in Entry, Idle(e) PROVE Owner'
  BY <1>0, <1>11 DEF Idle, At, entries
<1>12. ASSUME NEW e \in Entry, End(e) PROVE Owner'
  <2>1. PICK exit \in Exits : settle(e, exit)
    BY <1>12 DEF End, Leave, Exits
  <2>2. pc[e] # "off" /\ active = e
    BY <1>12 DEF End, At, Owner
  <2>3. CASE pc'[e] = "ready" /\ UNCHANGED active
    <3>1. made' = made /\ pc' = [pc EXCEPT ![e] = "ready"]
      BY <2>1, <2>2, <2>3, NextEntry DEF settle, TypeOK, DrainTypes, EntryTypes
    <3>2. QED
      BY <2>2, <2>3, <3>1 DEF Owner, TypeOK, DrainTypes
  <2>4. CASE made < MaxEntries /\ made' = made + 1 /\ active' = made + 1
             /\ pc' = [pc EXCEPT ![e] = "off", ![made + 1] = "ready"]
    BY <2>2, <2>4, NextEntry DEF Owner, TypeOK, DrainTypes, EntryTypes, Entry
  <2>5. CASE active' = 0 /\ made' = made /\ pc' = [pc EXCEPT ![e] = "off"]
    BY <2>2, <2>5 DEF Owner, TypeOK, DrainTypes, EntryTypes, Entry
  <2>6. QED
    BY <2>1, <2>2, <2>3, <2>4, <2>5 DEF settle, TypeOK, DrainTypes
<1>13. ASSUME NEW e \in Entry, Unwind(e) PROVE Owner'
  <2>1. PICK exit \in Exits : settle(e, exit)
    BY <1>13 DEF Unwind, Leave, Exits
  <2>2. pc[e] # "off" /\ active = e
    BY <1>13 DEF Unwind, At, Owner
  <2>3. CASE pc'[e] = "ready" /\ UNCHANGED active
    <3>1. made' = made /\ pc' = [pc EXCEPT ![e] = "ready"]
      BY <2>1, <2>2, <2>3, NextEntry DEF settle, TypeOK, DrainTypes, EntryTypes
    <3>2. QED
      BY <2>2, <2>3, <3>1 DEF Owner, TypeOK, DrainTypes
  <2>4. CASE made < MaxEntries /\ made' = made + 1 /\ active' = made + 1
             /\ pc' = [pc EXCEPT ![e] = "off", ![made + 1] = "ready"]
    BY <2>2, <2>4, NextEntry DEF Owner, TypeOK, DrainTypes, EntryTypes, Entry
  <2>5. CASE active' = 0 /\ made' = made /\ pc' = [pc EXCEPT ![e] = "off"]
    BY <2>2, <2>5 DEF Owner, TypeOK, DrainTypes, EntryTypes, Entry
  <2>6. QED
    BY <2>1, <2>2, <2>3, <2>4, <2>5 DEF settle, TypeOK, DrainTypes
<1>14. ASSUME NEW e \in Entry, Fail(e) PROVE Owner'
  <2>1. PICK exit \in Exits : settle(e, exit)
    BY <1>14 DEF Fail, Leave, Exits
  <2>2. pc[e] # "off" /\ active = e
    BY <1>14 DEF Fail, At, Owner
  <2>3. CASE pc'[e] = "ready" /\ UNCHANGED active
    <3>1. made' = made /\ pc' = [pc EXCEPT ![e] = "ready"]
      BY <2>1, <2>2, <2>3, NextEntry DEF settle, TypeOK, DrainTypes, EntryTypes
    <3>2. QED
      BY <2>2, <2>3, <3>1 DEF Owner, TypeOK, DrainTypes
  <2>4. CASE made < MaxEntries /\ made' = made + 1 /\ active' = made + 1
             /\ pc' = [pc EXCEPT ![e] = "off", ![made + 1] = "ready"]
    BY <2>2, <2>4, NextEntry DEF Owner, TypeOK, DrainTypes, EntryTypes, Entry
  <2>5. CASE active' = 0 /\ made' = made /\ pc' = [pc EXCEPT ![e] = "off"]
    BY <2>2, <2>5 DEF Owner, TypeOK, DrainTypes, EntryTypes, Entry
  <2>6. QED
    BY <2>1, <2>2, <2>3, <2>4, <2>5 DEF settle, TypeOK, DrainTypes
<1>15. ASSUME NEW s \in Senders, Find(s) PROVE Owner'
  BY <1>15 DEF Find, inbox, entries, drain, callers, TypeOK, EntryTypes, DrainTypes, Owner,
     Entry
<1>16. ASSUME NEW s \in Senders, admit(s) PROVE Owner'
  BY <1>16 DEF admit, inbox, entries, drain, callers, TypeOK, EntryTypes, DrainTypes, Owner,
     Entry
<1>17. ASSUME NEW s \in Senders, Wake(s) PROVE Owner'
  <2>1. CASE active = 0
    <3>1. Start(FALSE) /\ made + 1 \in Entry
      BY <1>17, <2>1, NextEntry DEF Wake, wake, Start
    <3>2. made' = made + 1 /\ active' = made + 1 /\ pc' = [pc EXCEPT ![made + 1] = "ready"]
      BY <3>1 DEF Start
    <3>3. QED
      BY <2>1, <3>1, <3>2 DEF Owner, TypeOK, EntryTypes, DrainTypes, Entry
  <2>2. CASE active # 0
    BY <1>17, <2>2 DEF Wake, wake, Owner
  <2>3. QED
    BY <2>1, <2>2
<1>18. ASSUME NEW r \in Resumers, Run(r) PROVE Owner'
  <2>1. CASE active = 0
    <3>1. Start(TRUE) /\ made + 1 \in Entry
      BY <1>18, <2>1, NextEntry DEF Run, Start
    <3>2. made' = made + 1 /\ active' = made + 1 /\ pc' = [pc EXCEPT ![made + 1] = "ready"]
      BY <3>1 DEF Start
    <3>3. QED
      BY <2>1, <3>1, <3>2 DEF Owner, TypeOK, EntryTypes, DrainTypes, Entry
  <2>2. CASE active # 0
    BY <1>18, <2>2 DEF Run, Owner
  <2>3. QED
    BY <2>1, <2>2
<1>19. ASSUME NEW r \in Resumers, Answer(r) PROVE Owner'
  BY <1>19 DEF Answer, inbox, entries, drain, callers, TypeOK, EntryTypes, DrainTypes,
     Owner, Entry
<1>20. ASSUME NEW k \in Stoppers, Interrupt(k) PROVE Owner'
  BY <1>20 DEF Interrupt, inbox, entries, drain, callers, TypeOK, EntryTypes, DrainTypes,
     Owner, Entry
<1>21. ASSUME NEW k \in Stoppers, Interrupted(k) PROVE Owner'
  BY <1>21 DEF Interrupted, inbox, entries, drain, callers, TypeOK, EntryTypes, DrainTypes,
     Owner, Entry
<1>22. ASSUME Crash PROVE Owner'
  BY <1>22 DEF Crash, Owner, TypeOK, EntryTypes, Entry
<1>23. CASE UNCHANGED vars
  BY <1>23 DEF vars, inbox, entries, drain, callers, TypeOK, EntryTypes, DrainTypes, Owner,
     Entry
<1>24. QED
  BY <1>1, <1>2, <1>3, <1>4, <1>5, <1>6, <1>7, <1>8, <1>9, <1>10, <1>11, <1>12, <1>13,
     <1>14, <1>15, <1>16, <1>17, <1>18, <1>19, <1>20, <1>21, <1>22, <1>23 DEF Next, System,
     DrainStep

(* At most one drain works on the session.                                   *)
THEOREM OneDrainAtATime == Spec => []OneDrain
<1>1. Init => Owner
  BY DEF Init, Owner, Entry
<1>2. Owner => OneDrain
  BY DEF Owner, OneDrain
<1>3. TypeOK /\ Owner /\ [Next]_vars => Owner'
  BY OwnerStep
<1>4. QED
  BY <1>1, <1>2, <1>3, TypeCorrect, PTL DEF Spec

(***************************************************************************)
(* One row for a prompt, whoever sends it.                                 *)
(***************************************************************************)

(* Every step keeps the accepted senders' row theirs.                         *)
LEMMA AgreeStep ==
    ASSUME TypeOK, AnswersAgree, [Next]_vars PROVE AnswersAgree'
<1>1. ASSUME NEW e \in Entry, Begin(e) PROVE AnswersAgree'
  BY <1>1 DEF Begin, inbox, callers, AnswersAgree
<1>2. ASSUME NEW e \in Entry, LookForSteers(e) PROVE AnswersAgree'
  BY <1>2 DEF LookForSteers, inbox, callers, AnswersAgree
<1>3. ASSUME NEW e \in Entry, LookForQueued(e) PROVE AnswersAgree'
  BY <1>3 DEF LookForQueued, inbox, callers, AnswersAgree
<1>4. ASSUME NEW e \in Entry, Attempt(e) PROVE AnswersAgree'
  BY <1>4 DEF Attempt, inbox, callers, AnswersAgree
<1>5. ASSUME NEW e \in Entry, promoteNextQueued(e) PROVE AnswersAgree'
  BY <1>5 DEF promoteNextQueued, inbox, callers, AnswersAgree
<1>6. ASSUME NEW e \in Entry, promoteSteers(e) PROVE AnswersAgree'
  BY <1>6 DEF promoteSteers, inbox, callers, AnswersAgree
<1>7. ASSUME NEW e \in Entry, publish(e) PROVE AnswersAgree'
  BY <1>7 DEF publish, inbox, callers, AnswersAgree
<1>8. ASSUME NEW e \in Entry, Assemble(e) PROVE AnswersAgree'
  BY <1>8 DEF Assemble, inbox, callers, AnswersAgree
<1>9. ASSUME NEW e \in Entry, Turn(e) PROVE AnswersAgree'
  BY <1>9 DEF Turn, inbox, callers, AnswersAgree
<1>10. ASSUME NEW e \in Entry, Continue(e) PROVE AnswersAgree'
  BY <1>10 DEF Continue, inbox, callers, AnswersAgree
<1>11. ASSUME NEW e \in Entry, Idle(e) PROVE AnswersAgree'
  BY <1>11 DEF Idle, inbox, callers, AnswersAgree
<1>12. ASSUME NEW e \in Entry, End(e) PROVE AnswersAgree'
  BY <1>12 DEF End, Leave, inbox, callers, AnswersAgree
<1>13. ASSUME NEW e \in Entry, Unwind(e) PROVE AnswersAgree'
  BY <1>13 DEF Unwind, Leave, inbox, callers, AnswersAgree
<1>14. ASSUME NEW e \in Entry, Fail(e) PROVE AnswersAgree'
  BY <1>14 DEF Fail, Leave, inbox, callers, AnswersAgree
<1>15. ASSUME NEW s \in Senders, Find(s) PROVE AnswersAgree'
  BY <1>15, SendType DEF Find, Found, inbox, TypeOK, CallerTypes, InboxTypes, Rows,
     AnswersAgree
<1>16. ASSUME NEW s \in Senders, admit(s) PROVE AnswersAgree'
  <2>1. CASE row[Sends[s].id] = None
    <3>1. /\ row' = [row EXCEPT ![Sends[s].id] = [seq |-> seq + 1, delivery |-> Sends[s].delivery]]
          /\ post' = [post EXCEPT ![s] = IF Sends[s].resume THEN "wake" ELSE "sent"]
      BY <1>16, <2>1 DEF admit
    <3>2. [seq |-> seq + 1, delivery |-> Sends[s].delivery] \in Rows
      BY SendType DEF Rows, TypeOK, InboxTypes
    <3>3. ASSUME NEW t \in Senders, post'[t] \in {"wake", "sent"}
          PROVE  row'[Sends[t].id] # None /\ row'[Sends[t].id].delivery = Sends[t].delivery
      <4>1. CASE Sends[t].id = Sends[s].id
        <5>1. row'[Sends[t].id] = [seq |-> seq + 1, delivery |-> Sends[s].delivery]
          BY <3>1, <4>1, SendType DEF TypeOK, InboxTypes
        <5>2. CASE t = s
          BY <3>2, <5>1, <5>2, DrainAssumption
        <5>3. CASE t # s
          <6>1. post[t] \in {"wake", "sent"}
            BY <3>1, <3>3, <5>3 DEF TypeOK, CallerTypes
          <6>2. QED
            BY <2>1, <4>1, <6>1 DEF AnswersAgree
        <5>4. QED
          BY <5>2, <5>3
      <4>2. CASE Sends[t].id # Sends[s].id
        <5>1. t # s
          BY <4>2
        <5>2. post[t] \in {"wake", "sent"} /\ row'[Sends[t].id] = row[Sends[t].id]
          BY <3>1, <3>3, <4>2, <5>1, SendType DEF TypeOK, CallerTypes, InboxTypes
        <5>3. QED
          BY <5>2 DEF AnswersAgree
      <4>3. QED
        BY <4>1, <4>2
    <3>4. QED
      BY <3>3 DEF AnswersAgree
  <2>2. CASE row[Sends[s].id] # None
    BY <1>16, <2>2, SendType
       DEF admit, Found, TypeOK, CallerTypes, InboxTypes, Rows, Deliveries, AnswersAgree
  <2>3. QED
    BY <2>1, <2>2
<1>17. ASSUME NEW s \in Senders, Wake(s) PROVE AnswersAgree'
  BY <1>17 DEF Wake, inbox, TypeOK, CallerTypes, AnswersAgree
<1>18. ASSUME NEW r \in Resumers, Run(r) PROVE AnswersAgree'
  BY <1>18 DEF Run, inbox, AnswersAgree
<1>19. ASSUME NEW r \in Resumers, Answer(r) PROVE AnswersAgree'
  BY <1>19 DEF Answer, inbox, AnswersAgree
<1>20. ASSUME NEW k \in Stoppers, Interrupt(k) PROVE AnswersAgree'
  BY <1>20 DEF Interrupt, inbox, AnswersAgree
<1>21. ASSUME NEW k \in Stoppers, Interrupted(k) PROVE AnswersAgree'
  BY <1>21 DEF Interrupted, inbox, AnswersAgree
<1>22. ASSUME Crash PROVE AnswersAgree'
  BY <1>22 DEF Crash, inbox, TypeOK, CallerTypes, AnswersAgree
<1>23. CASE UNCHANGED vars
  BY <1>23 DEF vars, inbox, callers, AnswersAgree
<1>24. QED
  BY <1>1, <1>2, <1>3, <1>4, <1>5, <1>6, <1>7, <1>8, <1>9, <1>10, <1>11, <1>12, <1>13,
     <1>14, <1>15, <1>16, <1>17, <1>18, <1>19, <1>20, <1>21, <1>22, <1>23 DEF Next, System,
     DrainStep

(* An accepted prompt has its row, of the delivery its sender asked for.     *)
THEOREM SendersAgree == Spec => []AnswersAgree
<1>1. Init => AnswersAgree
  BY DEF Init, AnswersAgree
<1>2. TypeOK /\ AnswersAgree /\ [Next]_vars => AnswersAgree'
  BY AgreeStep
<1>3. QED
  BY <1>1, <1>2, TypeCorrect, PTL DEF Spec

(***************************************************************************)
(* No prompt is forgotten.                                                 *)
(***************************************************************************)

(* A drain at this stage looks at the prompt before it ends.                 *)
Sees(e, p) ==
    \/ pc[e] \in {"ready", "steers?", "attempt", "next", "open", "select", "publish",
                  "provider", "continue?"}
    \/ pc[e] \in {"queue?", "idle?"} /\ row[p].delivery = "queue"

(* What the session was woken for waits for a drain that sees it or for the   *)
(* follow-up.                                                                *)
Kept ==
    /\ active = 0 => owed \subseteq visible
    /\ active # 0 => \A p \in owed \ visible :
          pendingWake[active] \/ (~stopping[active] /\ Sees(active, p))
    /\ \A p \in owed : row[p] # None

(* An entry is made without a stop.                                          *)
Unused == \A e \in Entry : stopping[e] => active = e

(* Every step keeps stops to the session's entry.                             *)
LEMMA UnusedStep ==
    ASSUME TypeOK, Owner, Unused, [Next]_vars PROVE Unused'
<1>1. ASSUME NEW e \in Entry, Begin(e) PROVE Unused'
  BY <1>1 DEF Begin, entries, Unused
<1>2. ASSUME NEW e \in Entry, LookForSteers(e) PROVE Unused'
  BY <1>2 DEF LookForSteers, entries, Unused
<1>3. ASSUME NEW e \in Entry, LookForQueued(e) PROVE Unused'
  BY <1>3 DEF LookForQueued, entries, Unused
<1>4. ASSUME NEW e \in Entry, Attempt(e) PROVE Unused'
  BY <1>4 DEF Attempt, entries, Unused
<1>5. ASSUME NEW e \in Entry, promoteNextQueued(e) PROVE Unused'
  BY <1>5 DEF promoteNextQueued, entries, Unused
<1>6. ASSUME NEW e \in Entry, promoteSteers(e) PROVE Unused'
  BY <1>6 DEF promoteSteers, entries, Unused
<1>7. ASSUME NEW e \in Entry, publish(e) PROVE Unused'
  BY <1>7 DEF publish, entries, Unused
<1>8. ASSUME NEW e \in Entry, Assemble(e) PROVE Unused'
  BY <1>8 DEF Assemble, entries, Unused
<1>9. ASSUME NEW e \in Entry, Turn(e) PROVE Unused'
  BY <1>9 DEF Turn, entries, Unused
<1>10. ASSUME NEW e \in Entry, Continue(e) PROVE Unused'
  BY <1>10 DEF Continue, entries, Unused
<1>11. ASSUME NEW e \in Entry, Idle(e) PROVE Unused'
  BY <1>11 DEF Idle, entries, Unused
<1>12. ASSUME NEW e \in Entry, End(e) PROVE Unused'
  <2>1. active = e /\ stopping' = [stopping EXCEPT ![e] = FALSE]
    BY <1>12 DEF End, At, Leave, Forget, Owner
  <2>2. QED
    BY <2>1 DEF Unused, TypeOK, EntryTypes
<1>13. ASSUME NEW e \in Entry, Unwind(e) PROVE Unused'
  <2>1. active = e /\ stopping' = [stopping EXCEPT ![e] = FALSE]
    BY <1>13 DEF Unwind, At, Leave, Forget, Owner
  <2>2. QED
    BY <2>1 DEF Unused, TypeOK, EntryTypes
<1>14. ASSUME NEW e \in Entry, Fail(e) PROVE Unused'
  <2>1. active = e /\ stopping' = [stopping EXCEPT ![e] = FALSE]
    BY <1>14 DEF Fail, At, Leave, Forget, Owner
  <2>2. QED
    BY <2>1 DEF Unused, TypeOK, EntryTypes
<1>15. ASSUME NEW s \in Senders, Find(s) PROVE Unused'
  BY <1>15 DEF Find, entries, Unused
<1>16. ASSUME NEW s \in Senders, admit(s) PROVE Unused'
  BY <1>16 DEF admit, entries, Unused
<1>17. ASSUME NEW s \in Senders, Wake(s) PROVE Unused'
  <2>1. stopping' = stopping /\ (active # 0 => active' = active)
    BY <1>17 DEF Wake, wake
  <2>2. QED
    BY <2>1 DEF Unused, Entry
<1>18. ASSUME NEW r \in Resumers, Run(r) PROVE Unused'
  <2>1. stopping' = stopping /\ (active # 0 => active' = active)
    BY <1>18 DEF Run
  <2>2. QED
    BY <2>1 DEF Unused, Entry
<1>19. ASSUME NEW r \in Resumers, Answer(r) PROVE Unused'
  BY <1>19 DEF Answer, entries, Unused
<1>20. ASSUME NEW k \in Stoppers, Interrupt(k) PROVE Unused'
  BY <1>20 DEF Interrupt, Unused, TypeOK, EntryTypes
<1>21. ASSUME NEW k \in Stoppers, Interrupted(k) PROVE Unused'
  BY <1>21 DEF Interrupted, entries, Unused
<1>22. ASSUME Crash PROVE Unused'
  BY <1>22 DEF Crash, Forget, Unused, TypeOK, EntryTypes, Entry
<1>23. CASE UNCHANGED vars
  BY <1>23 DEF vars, entries, Unused
<1>24. QED
  BY <1>1, <1>2, <1>3, <1>4, <1>5, <1>6, <1>7, <1>8, <1>9, <1>10, <1>11, <1>12, <1>13,
     <1>14, <1>15, <1>16, <1>17, <1>18, <1>19, <1>20, <1>21, <1>22, <1>23 DEF Next, System,
     DrainStep

(* Every step keeps what the session was woken for.                           *)
LEMMA KeptStep ==
    ASSUME TypeOK, Owner, AnswersAgree, Unused, Kept, [Next]_vars PROVE Kept'
<1>1. ASSUME NEW e \in Entry, Begin(e) PROVE Kept'
  <2>1. active = e /\ UNCHANGED << active, pendingWake, stopping, owed, row >>
    BY <1>1 DEF Begin, At, Owner, inbox, entries
  <2>2. pc'[e] \in {"steers?", "open", "select", "publish", "provider", "continue?"}
    BY <1>1 DEF Begin, Goto, TypeOK, DrainTypes
  <2>3. visible' = visible
    BY <1>1 DEF Begin, inbox
  <2>4. pc[e] \in {"ready", "next", "select", "publish", "provider"} /\ ~stopping[e]
    BY <1>1 DEF Begin, At
  <2>5. QED
    BY <2>1, <2>2, <2>3, <2>4 DEF Kept, Sees, Entry
<1>2. ASSUME NEW e \in Entry, LookForSteers(e) PROVE Kept'
  <2>1. active = e /\ UNCHANGED << active, pendingWake, stopping, owed, row >>
    BY <1>2 DEF LookForSteers, At, Owner, inbox, entries
  <2>2. visible' = visible /\ ~stopping[e]
    BY <1>2 DEF LookForSteers, inbox, At
  <2>3. pc'[e] = "attempt" \/ (pc'[e] = "queue?" /\ hasPending("steer") = {})
    BY <1>2 DEF LookForSteers, Goto, TypeOK, DrainTypes
  <2>4. \A p \in owed \ visible : row[p] \in Rows
    BY DEF Kept, TypeOK, InboxTypes
  <2>5. hasPending("steer") = {} => \A p \in owed \ visible : row[p].delivery = "queue"
    BY <2>4, DrainAssumption DEF hasPending, Rows, Deliveries, TypeOK, InboxTypes, Kept
  <2>6. QED
    BY <2>1, <2>2, <2>3, <2>5 DEF Kept, Sees, Entry
<1>3. ASSUME NEW e \in Entry, LookForQueued(e) PROVE Kept'
  <2>1. active = e /\ UNCHANGED << active, pendingWake, stopping, owed, row >>
    BY <1>3 DEF LookForQueued, At, Owner, inbox, entries
  <2>2. visible' = visible /\ ~stopping[e] /\ pc[e] = "queue?"
    BY <1>3 DEF LookForQueued, inbox, At
  <2>3. pc'[e] = "attempt" \/ (pc'[e] = "ending" /\ hasPending("queue") = {})
    BY <1>3 DEF LookForQueued, Goto, TypeOK, DrainTypes
  <2>4. \A p \in owed \ visible : p \in Prompts /\ row[p] # None
    BY DEF Kept, TypeOK, InboxTypes
  <2>5. hasPending("queue") = {} => \A p \in owed \ visible : pendingWake[e]
    BY <2>1, <2>2, <2>4 DEF hasPending, Kept, Sees, Entry
  <2>6. QED
    BY <2>1, <2>2, <2>3, <2>5 DEF Kept, Sees, Entry
<1>4. ASSUME NEW e \in Entry, Attempt(e) PROVE Kept'
  <2>1. active = e /\ UNCHANGED << active, pendingWake, stopping, owed, row >>
    BY <1>4 DEF Attempt, At, Owner, inbox, entries
  <2>2. pc'[e] \in {"provider", "next", "select"} /\ ~stopping[e]
    BY <1>4 DEF Attempt, At, Goto, TypeOK, DrainTypes
  <2>3. visible' = visible
    BY <1>4 DEF Attempt, inbox
  <2>4. QED
    BY <2>1, <2>2, <2>3 DEF Kept, Sees, Entry
<1>5. ASSUME NEW e \in Entry, promoteNextQueued(e) PROVE Kept'
  <2>1. active = e /\ UNCHANGED << active, pendingWake, stopping, owed, row >>
    BY <1>5 DEF promoteNextQueued, At, Owner, inbox, entries
  <2>2. pc'[e] \in {"steers?", "open", "select", "publish", "provider", "continue?"}
    BY <1>5 DEF promoteNextQueued, Goto, TypeOK, DrainTypes
  <2>3. visible' = visible
    BY <1>5 DEF promoteNextQueued, inbox
  <2>4. pc[e] \in {"ready", "next", "select", "publish", "provider"} /\ ~stopping[e]
    BY <1>5 DEF promoteNextQueued, At
  <2>5. QED
    BY <2>1, <2>2, <2>3, <2>4 DEF Kept, Sees, Entry
<1>6. ASSUME NEW e \in Entry, promoteSteers(e) PROVE Kept'
  <2>1. active = e /\ UNCHANGED << active, pendingWake, stopping, owed, row >>
    BY <1>6 DEF promoteSteers, At, Owner, inbox, entries
  <2>2. pc'[e] \in {"steers?", "open", "select", "publish", "provider", "continue?"}
    BY <1>6 DEF promoteSteers, Goto, TypeOK, DrainTypes
  <2>3. visible' = visible
    BY <1>6 DEF promoteSteers, inbox
  <2>4. pc[e] \in {"ready", "next", "select", "publish", "provider"} /\ ~stopping[e]
    BY <1>6 DEF promoteSteers, At
  <2>5. QED
    BY <2>1, <2>2, <2>3, <2>4 DEF Kept, Sees, Entry
<1>7. ASSUME NEW e \in Entry, publish(e) PROVE Kept'
  <2>1. active = e /\ UNCHANGED << active, pendingWake, stopping, owed, row >>
    BY <1>7 DEF publish, At, Owner, inbox, entries
  <2>2. pc'[e] \in {"select", "publish"} /\ ~stopping[e] /\ visible \subseteq visible'
    BY <1>7 DEF publish, At, Goto, TypeOK, DrainTypes
  <2>3. QED
    BY <2>1, <2>2 DEF Kept, Sees, Entry
<1>8. ASSUME NEW e \in Entry, Assemble(e) PROVE Kept'
  <2>1. active = e /\ UNCHANGED << active, pendingWake, stopping, owed, row >>
    BY <1>8 DEF Assemble, At, Owner, inbox, entries
  <2>2. pc'[e] \in {"steers?", "open", "select", "publish", "provider", "continue?"}
    BY <1>8 DEF Assemble, Goto, TypeOK, DrainTypes
  <2>3. visible' = visible
    BY <1>8 DEF Assemble, inbox
  <2>4. pc[e] \in {"ready", "next", "select", "publish", "provider"} /\ ~stopping[e]
    BY <1>8 DEF Assemble, At
  <2>5. QED
    BY <2>1, <2>2, <2>3, <2>4 DEF Kept, Sees, Entry
<1>9. ASSUME NEW e \in Entry, Turn(e) PROVE Kept'
  <2>1. active = e /\ UNCHANGED << active, pendingWake, stopping, owed, row >>
    BY <1>9 DEF Turn, At, Owner, inbox, entries
  <2>2. pc'[e] \in {"steers?", "open", "select", "publish", "provider", "continue?"}
    BY <1>9 DEF Turn, Goto, TypeOK, DrainTypes
  <2>3. visible' = visible
    BY <1>9 DEF Turn, inbox
  <2>4. pc[e] \in {"ready", "next", "select", "publish", "provider"} /\ ~stopping[e]
    BY <1>9 DEF Turn, At
  <2>5. QED
    BY <2>1, <2>2, <2>3, <2>4 DEF Kept, Sees, Entry
<1>10. ASSUME NEW e \in Entry, Continue(e) PROVE Kept'
  <2>1. active = e /\ UNCHANGED << active, pendingWake, stopping, owed, row >>
    BY <1>10 DEF Continue, At, Owner, inbox, entries
  <2>2. visible' = visible /\ ~stopping[e]
    BY <1>10 DEF Continue, inbox, At
  <2>3. pc'[e] = "attempt" \/ (pc'[e] = "idle?" /\ hasPending("steer") = {})
    BY <1>10 DEF Continue, Goto, TypeOK, DrainTypes
  <2>4. \A p \in owed \ visible : row[p] \in Rows
    BY DEF Kept, TypeOK, InboxTypes
  <2>5. hasPending("steer") = {} => \A p \in owed \ visible : row[p].delivery = "queue"
    BY <2>4, DrainAssumption DEF hasPending, Rows, Deliveries, TypeOK, InboxTypes, Kept
  <2>6. QED
    BY <2>1, <2>2, <2>3, <2>5 DEF Kept, Sees, Entry
<1>11. ASSUME NEW e \in Entry, Idle(e) PROVE Kept'
  <2>1. active = e /\ UNCHANGED << active, pendingWake, stopping, owed, row >>
    BY <1>11 DEF Idle, At, Owner, inbox, entries
  <2>2. visible' = visible /\ ~stopping[e] /\ pc[e] = "idle?"
    BY <1>11 DEF Idle, inbox, At
  <2>3. pc'[e] = "attempt" \/ (pc'[e] = "ending" /\ hasPending("queue") = {})
    BY <1>11 DEF Idle, Goto, TypeOK, DrainTypes
  <2>4. \A p \in owed \ visible : p \in Prompts /\ row[p] # None
    BY DEF Kept, TypeOK, InboxTypes
  <2>5. hasPending("queue") = {} => \A p \in owed \ visible : pendingWake[e]
    BY <2>1, <2>2, <2>4 DEF hasPending, Kept, Sees, Entry
  <2>6. QED
    BY <2>1, <2>2, <2>3, <2>5 DEF Kept, Sees, Entry
<1>12. ASSUME NEW e \in Entry, End(e) PROVE Kept'
  <2>1. PICK exit \in Exits : settle(e, exit) /\ pc[e] = "ending"
    BY <1>12 DEF End, Leave, Exits
  <2>2. active = e /\ UNCHANGED << row, visible >>
    BY <1>12 DEF End, At, Leave, Owner, inbox
  <2>3. CASE pendingWake[e]
    <3>1. active' # 0 /\ pc'[active'] = "ready" /\ owed' = owed /\ active' \in Entry
      <4>1. CASE exit = "ok" /\ ~stopping[e]
        <5>1. pc' = [pc EXCEPT ![e] = "ready"] /\ active' = active /\ owed' = owed
          BY <2>1, <2>3, <4>1 DEF settle
        <5>2. e # 0 /\ pc'[e] = "ready"
          BY <5>1 DEF TypeOK, DrainTypes, Entry
        <5>3. QED
          BY <2>2, <5>1, <5>2
      <4>2. CASE ~(exit = "ok" /\ ~stopping[e])
        <5>1. /\ active' = made + 1 /\ made + 1 \in Entry /\ made + 1 # 0 /\ owed' = owed
              /\ pc' = [pc EXCEPT ![e] = "off", ![made + 1] = "ready"]
          BY <2>1, <2>3, <4>2, NextEntry DEF settle
        <5>2. QED
          BY <5>1 DEF TypeOK, DrainTypes
      <4>3. QED
        BY <4>1, <4>2
    <3>2. stopping'[active'] = FALSE \/ active' = made + 1
      BY <1>12, <2>1, <2>2, <2>3 DEF End, Leave, Forget, settle, TypeOK, EntryTypes
    <3>3. ~stopping'[active']
      BY <1>12, <2>2, <3>1, <3>2 DEF End, Leave, Forget, TypeOK, EntryTypes, Unused
    <3>4. QED
      BY <2>2, <3>1, <3>3 DEF Kept, Sees
  <2>4. CASE ~pendingWake[e]
    <3>1. active' = 0 /\ (owed' = {} \/ (exit = "ok" /\ owed' = owed))
      BY <2>1, <2>4 DEF settle
    <3>2. exit = "ok" => owed \subseteq visible
      BY <2>1, <2>2, <2>4 DEF Kept, Sees, Entry
    <3>3. QED
      BY <2>2, <3>1, <3>2 DEF Kept
  <2>5. QED
    BY <2>3, <2>4
<1>13. ASSUME NEW e \in Entry, Unwind(e) PROVE Kept'
  <2>1. PICK exit \in Exits : settle(e, exit) /\ exit # "ok"
    BY <1>13 DEF Unwind, Leave, Exits
  <2>2. active = e /\ UNCHANGED << row, visible >>
    BY <1>13 DEF Unwind, At, Leave, Owner, inbox
  <2>3. CASE pendingWake[e]
    <3>1. active' # 0 /\ pc'[active'] = "ready" /\ owed' = owed /\ active' \in Entry
      <4>1. CASE exit = "ok" /\ ~stopping[e]
        <5>1. pc' = [pc EXCEPT ![e] = "ready"] /\ active' = active /\ owed' = owed
          BY <2>1, <2>3, <4>1 DEF settle
        <5>2. e # 0 /\ pc'[e] = "ready"
          BY <5>1 DEF TypeOK, DrainTypes, Entry
        <5>3. QED
          BY <2>2, <5>1, <5>2
      <4>2. CASE ~(exit = "ok" /\ ~stopping[e])
        <5>1. /\ active' = made + 1 /\ made + 1 \in Entry /\ made + 1 # 0 /\ owed' = owed
              /\ pc' = [pc EXCEPT ![e] = "off", ![made + 1] = "ready"]
          BY <2>1, <2>3, <4>2, NextEntry DEF settle
        <5>2. QED
          BY <5>1 DEF TypeOK, DrainTypes
      <4>3. QED
        BY <4>1, <4>2
    <3>2. stopping'[active'] = FALSE \/ active' = made + 1
      BY <1>13, <2>1, <2>2, <2>3 DEF Unwind, Leave, Forget, settle, TypeOK, EntryTypes
    <3>3. ~stopping'[active']
      BY <1>13, <2>2, <3>1, <3>2 DEF Unwind, Leave, Forget, TypeOK, EntryTypes, Unused
    <3>4. QED
      BY <2>2, <3>1, <3>3 DEF Kept, Sees
  <2>4. CASE ~pendingWake[e]
    <3>1. active' = 0 /\ (owed' = {} \/ (exit = "ok" /\ owed' = owed))
      BY <2>1, <2>4 DEF settle
    <3>2. exit = "ok" => owed \subseteq visible
      BY <2>1, <2>2, <2>4 DEF Kept, Sees, Entry
    <3>3. QED
      BY <2>2, <3>1, <3>2 DEF Kept
  <2>5. QED
    BY <2>3, <2>4
<1>14. ASSUME NEW e \in Entry, Fail(e) PROVE Kept'
  <2>1. PICK exit \in Exits : settle(e, exit) /\ exit # "ok"
    BY <1>14 DEF Fail, Leave, Exits
  <2>2. active = e /\ UNCHANGED << row, visible >>
    BY <1>14 DEF Fail, At, Leave, Owner, inbox
  <2>3. CASE pendingWake[e]
    <3>1. active' # 0 /\ pc'[active'] = "ready" /\ owed' = owed /\ active' \in Entry
      <4>1. CASE exit = "ok" /\ ~stopping[e]
        <5>1. pc' = [pc EXCEPT ![e] = "ready"] /\ active' = active /\ owed' = owed
          BY <2>1, <2>3, <4>1 DEF settle
        <5>2. e # 0 /\ pc'[e] = "ready"
          BY <5>1 DEF TypeOK, DrainTypes, Entry
        <5>3. QED
          BY <2>2, <5>1, <5>2
      <4>2. CASE ~(exit = "ok" /\ ~stopping[e])
        <5>1. /\ active' = made + 1 /\ made + 1 \in Entry /\ made + 1 # 0 /\ owed' = owed
              /\ pc' = [pc EXCEPT ![e] = "off", ![made + 1] = "ready"]
          BY <2>1, <2>3, <4>2, NextEntry DEF settle
        <5>2. QED
          BY <5>1 DEF TypeOK, DrainTypes
      <4>3. QED
        BY <4>1, <4>2
    <3>2. stopping'[active'] = FALSE \/ active' = made + 1
      BY <1>14, <2>1, <2>2, <2>3 DEF Fail, Leave, Forget, settle, TypeOK, EntryTypes
    <3>3. ~stopping'[active']
      BY <1>14, <2>2, <3>1, <3>2 DEF Fail, Leave, Forget, TypeOK, EntryTypes, Unused
    <3>4. QED
      BY <2>2, <3>1, <3>3 DEF Kept, Sees
  <2>4. CASE ~pendingWake[e]
    <3>1. active' = 0 /\ (owed' = {} \/ (exit = "ok" /\ owed' = owed))
      BY <2>1, <2>4 DEF settle
    <3>2. exit = "ok" => owed \subseteq visible
      BY <2>1, <2>2, <2>4 DEF Kept, Sees, Entry
    <3>3. QED
      BY <2>2, <3>1, <3>2 DEF Kept
  <2>5. QED
    BY <2>3, <2>4
<1>15. ASSUME NEW s \in Senders, Find(s) PROVE Kept'
  BY <1>15 DEF Find, inbox, entries, drain, Kept, Sees
<1>16. ASSUME NEW s \in Senders, admit(s) PROVE Kept'
  <2>1. UNCHANGED << visible, active, pendingWake, stopping, pc, owed >>
    BY <1>16 DEF admit, entries, drain
  <2>2. \A p \in owed : row'[p] = row[p]
    BY <1>16 DEF admit, Kept, TypeOK, InboxTypes
  <2>3. QED
    BY <2>1, <2>2 DEF Kept, Sees
<1>17. ASSUME NEW s \in Senders, Wake(s) PROVE Kept'
  <2>1. UNCHANGED << row, visible, stopping >> /\ owed' = owed \cup {Sends[s].id}
    BY <1>17 DEF Wake, inbox
  <2>2. row[Sends[s].id] # None
    BY <1>17 DEF Wake, AnswersAgree
  <2>3. CASE active # 0
    <3>1. UNCHANGED active /\ pendingWake' = [pendingWake EXCEPT ![active] = TRUE]
      BY <1>17, <2>3 DEF Wake, wake
    <3>2. pendingWake'[active]
      BY <2>3, <3>1 DEF TypeOK, EntryTypes
    <3>3. QED
      BY <2>1, <2>2, <2>3, <3>1, <3>2 DEF Kept
  <2>4. CASE active = 0
    <3>1. active' \in Entry /\ active' = made + 1 /\ active' # 0 /\ pc'[active'] = "ready"
      BY <1>17, <2>4, NextEntry DEF Wake, wake, Start, TypeOK, DrainTypes
    <3>2. ~stopping'[active']
      BY <2>1, <2>4, <3>1 DEF Unused, Entry
    <3>3. QED
      BY <2>1, <2>2, <3>1, <3>2 DEF Kept, Sees
  <2>5. QED
    BY <2>3, <2>4
<1>18. ASSUME NEW r \in Resumers, Run(r) PROVE Kept'
  <2>1. UNCHANGED << row, visible, pendingWake, stopping, owed >>
    BY <1>18 DEF Run, inbox
  <2>2. CASE active # 0
    BY <1>18, <2>1, <2>2 DEF Run, Kept, Sees
  <2>3. CASE active = 0
    <3>1. active' # 0
      BY <1>18, <2>3, NextEntry DEF Run, Start
    <3>2. owed' \subseteq visible'
      BY <2>1, <2>3 DEF Kept
    <3>3. QED
      BY <2>1, <3>1, <3>2 DEF Kept
  <2>4. QED
    BY <2>2, <2>3
<1>19. ASSUME NEW r \in Resumers, Answer(r) PROVE Kept'
  BY <1>19 DEF Answer, inbox, entries, drain, Kept, Sees
<1>20. ASSUME NEW k \in Stoppers, Interrupt(k) PROVE Kept'
  BY <1>20 DEF Interrupt, inbox, drain, Kept, Sees, TypeOK, EntryTypes
<1>21. ASSUME NEW k \in Stoppers, Interrupted(k) PROVE Kept'
  BY <1>21 DEF Interrupted, inbox, entries, drain, Kept, Sees
<1>22. ASSUME Crash PROVE Kept'
  BY <1>22 DEF Crash, Kept
<1>23. CASE UNCHANGED vars
  BY <1>23 DEF vars, inbox, entries, drain, Kept, Sees
<1>24. QED
  BY <1>1, <1>2, <1>3, <1>4, <1>5, <1>6, <1>7, <1>8, <1>9, <1>10, <1>11, <1>12, <1>13,
     <1>14, <1>15, <1>16, <1>17, <1>18, <1>19, <1>20, <1>21, <1>22, <1>23 DEF Next, System,
     DrainStep

(* A quiet session has promoted whatever it was woken for.                   *)
THEOREM NothingForgotten == Spec => []NoPromptForgotten
<1>1. Init => Unused /\ Kept
  BY DEF Init, Unused, Kept
<1>2. TypeOK /\ Owner /\ Unused /\ [Next]_vars => Unused'
  BY UnusedStep
<1>3. TypeOK /\ Owner /\ AnswersAgree /\ Unused /\ Kept /\ [Next]_vars => Kept'
  BY KeptStep
<1>4. Init => Owner
  BY DEF Init, Owner, Entry
<1>5. TypeOK /\ Owner /\ [Next]_vars => Owner'
  BY OwnerStep
<1>6. Kept => NoPromptForgotten
  BY DEF Kept, NoPromptForgotten
<1>7. QED
  BY <1>1, <1>2, <1>3, <1>4, <1>5, <1>6, TypeCorrect, SendersAgree, PTL DEF Spec

(***************************************************************************)
(* What a turn is given.                                                   *)
(***************************************************************************)

(* Admissions are numbered.                                                  *)
Ordered == \A p \in Prompts : row[p] # None => row[p].seq <= seq

(* The batch is what the cutoff lets in of the waiting steers.               *)
Cut(e) ==
    /\ batch[e] \subseteq hasPending("steer")
    /\ \A p \in batch[e] : row[p].seq <= cutoff[e]
    /\ \A p \in hasPending("steer") \ batch[e] : row[p].seq > cutoff[e]

(* What each stage of an attempt may rely on.                                *)
Prepared(e) ==
    /\ cutoff[e] <= seq
    /\ pc[e] = "attempt" =>
          /\ promotion[e] = "none" => force[e]
          /\ promotion[e] = "queue" => hasPending("queue") # {}
          /\ promotion[e] = "steer" => more[e] \/ hasPending("steer") # {}
    /\ pc[e] = "next" => promotion[e] = "queue" /\ hasPending("queue") # {}
    /\ pc[e] = "open" => promotion[e] = "queue" /\ batch[e] \subseteq Oldest(hasPending("queue"))
    /\ pc[e] = "select" =>
          \/ promotion[e] = "queue" /\ fresh[e]
          \/ /\ promotion[e] = "steer"
             /\ more[e] \/ \E p \in hasPending("steer") : row[p].seq <= cutoff[e]
    /\ pc[e] = "publish" =>
          /\ promotion[e] # "none" /\ (promotion[e] = "queue" => fresh[e])
          /\ fresh[e] \/ more[e] \/ batch[e] # {}
          /\ Cut(e)
    /\ pc[e] = "provider" =>
          /\ force[e] \/ fresh[e] \/ more[e]
          /\ promotion[e] # "none" => \A p \in hasPending("steer") : row[p].seq > cutoff[e]
    /\ pc[e] = "continue?" => promotion[e] = "steer"

Ready == \A e \in Entry : Prepared(e)

(* While the inbox is as it was, so is what waits in it.                     *)
LEMMA PendingKept ==
    ASSUME UNCHANGED << row, visible >>
    PROVE  /\ \A kind : hasPending(kind)' = hasPending(kind)
           /\ Oldest(hasPending("queue"))' = Oldest(hasPending("queue"))
  BY DEF hasPending, Oldest

(* A row that waits has a number.                                            *)
LEMMA PendingType ==
    ASSUME TypeOK, NEW kind, NEW p \in hasPending(kind)
    PROVE  p \in Prompts /\ row[p] \in Rows /\ row[p].seq \in Nat
  BY DEF hasPending, TypeOK, InboxTypes, Rows

(* Every step keeps the admissions numbered.                                  *)
LEMMA OrderedStep ==
    ASSUME TypeOK, Ordered, [Next]_vars PROVE Ordered'
<1>1. ASSUME NEW e \in Entry, Begin(e) PROVE Ordered'
  BY <1>1 DEF Begin, inbox, Ordered
<1>2. ASSUME NEW e \in Entry, LookForSteers(e) PROVE Ordered'
  BY <1>2 DEF LookForSteers, inbox, Ordered
<1>3. ASSUME NEW e \in Entry, LookForQueued(e) PROVE Ordered'
  BY <1>3 DEF LookForQueued, inbox, Ordered
<1>4. ASSUME NEW e \in Entry, Attempt(e) PROVE Ordered'
  BY <1>4 DEF Attempt, inbox, Ordered
<1>5. ASSUME NEW e \in Entry, promoteNextQueued(e) PROVE Ordered'
  BY <1>5 DEF promoteNextQueued, inbox, Ordered
<1>6. ASSUME NEW e \in Entry, promoteSteers(e) PROVE Ordered'
  BY <1>6 DEF promoteSteers, inbox, Ordered
<1>7. ASSUME NEW e \in Entry, publish(e) PROVE Ordered'
  BY <1>7 DEF publish, inbox, Ordered
<1>8. ASSUME NEW e \in Entry, Assemble(e) PROVE Ordered'
  BY <1>8 DEF Assemble, inbox, Ordered
<1>9. ASSUME NEW e \in Entry, Turn(e) PROVE Ordered'
  BY <1>9 DEF Turn, inbox, Ordered
<1>10. ASSUME NEW e \in Entry, Continue(e) PROVE Ordered'
  BY <1>10 DEF Continue, inbox, Ordered
<1>11. ASSUME NEW e \in Entry, Idle(e) PROVE Ordered'
  BY <1>11 DEF Idle, inbox, Ordered
<1>12. ASSUME NEW e \in Entry, End(e) PROVE Ordered'
  BY <1>12 DEF End, Leave, inbox, Ordered
<1>13. ASSUME NEW e \in Entry, Unwind(e) PROVE Ordered'
  BY <1>13 DEF Unwind, Leave, inbox, Ordered
<1>14. ASSUME NEW e \in Entry, Fail(e) PROVE Ordered'
  BY <1>14 DEF Fail, Leave, inbox, Ordered
<1>15. ASSUME NEW s \in Senders, Find(s) PROVE Ordered'
  BY <1>15 DEF Find, inbox, Ordered
<1>16. ASSUME NEW s \in Senders, admit(s) PROVE Ordered'
  <2>1. CASE row' = row /\ seq' = seq
    BY <2>1 DEF Ordered
  <2>2. CASE /\ seq' = seq + 1
             /\ row' = [row EXCEPT ![Sends[s].id] = [seq |-> seq + 1, delivery |-> Sends[s].delivery]]
    <3>1. seq \in Nat /\ \A p \in Prompts : row[p] \in Rows \cup {None}
      BY DEF TypeOK, InboxTypes
    <3>2. \A p \in Prompts : row[p] # None => row[p].seq \in Nat
      BY <3>1 DEF Rows
    <3>3. ASSUME NEW p \in Prompts, row'[p] # None PROVE row'[p].seq <= seq'
      <4>1. CASE p = Sends[s].id
        BY <2>2, <3>1, <4>1 DEF TypeOK, InboxTypes
      <4>2. CASE p # Sends[s].id
        BY <2>2, <3>1, <3>2, <3>3, <4>2 DEF TypeOK, InboxTypes, Ordered
      <4>3. QED
        BY <4>1, <4>2
    <3>4. QED
      BY <3>3 DEF Ordered
  <2>3. QED
    BY <1>16, <2>1, <2>2 DEF admit
<1>17. ASSUME NEW s \in Senders, Wake(s) PROVE Ordered'
  BY <1>17 DEF Wake, inbox, Ordered
<1>18. ASSUME NEW r \in Resumers, Run(r) PROVE Ordered'
  BY <1>18 DEF Run, inbox, Ordered
<1>19. ASSUME NEW r \in Resumers, Answer(r) PROVE Ordered'
  BY <1>19 DEF Answer, inbox, Ordered
<1>20. ASSUME NEW k \in Stoppers, Interrupt(k) PROVE Ordered'
  BY <1>20 DEF Interrupt, inbox, Ordered
<1>21. ASSUME NEW k \in Stoppers, Interrupted(k) PROVE Ordered'
  BY <1>21 DEF Interrupted, inbox, Ordered
<1>22. ASSUME Crash PROVE Ordered'
  BY <1>22 DEF Crash, inbox, Ordered
<1>23. CASE UNCHANGED vars
  BY <1>23 DEF vars, inbox, Ordered
<1>24. QED
  BY <1>1, <1>2, <1>3, <1>4, <1>5, <1>6, <1>7, <1>8, <1>9, <1>10, <1>11, <1>12, <1>13,
     <1>14, <1>15, <1>16, <1>17, <1>18, <1>19, <1>20, <1>21, <1>22, <1>23 DEF Next, System,
     DrainStep

(* Every step keeps what the stages rely on.                                  *)
LEMMA ReadyStep ==
    ASSUME TypeOK, Owner, Ordered, Ready, [Next]_vars PROVE Ready'
<1>1. ASSUME NEW e \in Entry, Begin(e) PROVE Ready'
  <2>1. UNCHANGED << seq, row, visible >>
    BY <1>1 DEF Begin, inbox
  <2>2. /\ hasPending("steer")' = hasPending("steer") /\ hasPending("queue")' = hasPending("queue")
        /\ Oldest(hasPending("queue"))' = Oldest(hasPending("queue"))
    BY <2>1, PendingKept
  <2>3. ASSUME NEW f \in Entry, f # e PROVE Prepared(f)'
    <3>1. /\ pc'[f] = pc[f] /\ force'[f] = force[f] /\ promotion'[f] = promotion[f]
          /\ cutoff'[f] = cutoff[f] /\ batch'[f] = batch[f] /\ fresh'[f] = fresh[f]
          /\ more'[f] = more[f]
      BY <1>1, <2>3 DEF Begin, Goto, TypeOK, DrainTypes
    <3>2. QED
      BY <2>1, <2>2, <3>1 DEF Ready, Prepared, Cut
  <2>4. Prepared(e)'
    <3>0. Prepared(e)
      BY DEF Ready
    <3>1. QED
      BY <1>1, <2>1, <3>0 DEF Begin, At, Goto, Prepared, TypeOK, DrainTypes
  <2>5. QED
    BY <2>3, <2>4 DEF Ready
<1>2. ASSUME NEW e \in Entry, LookForSteers(e) PROVE Ready'
  <2>1. UNCHANGED << seq, row, visible >>
    BY <1>2 DEF LookForSteers, inbox
  <2>2. /\ hasPending("steer")' = hasPending("steer") /\ hasPending("queue")' = hasPending("queue")
        /\ Oldest(hasPending("queue"))' = Oldest(hasPending("queue"))
    BY <2>1, PendingKept
  <2>3. ASSUME NEW f \in Entry, f # e PROVE Prepared(f)'
    <3>1. /\ pc'[f] = pc[f] /\ force'[f] = force[f] /\ promotion'[f] = promotion[f]
          /\ cutoff'[f] = cutoff[f] /\ batch'[f] = batch[f] /\ fresh'[f] = fresh[f]
          /\ more'[f] = more[f]
      BY <1>2, <2>3 DEF LookForSteers, Goto, TypeOK, DrainTypes
    <3>2. QED
      BY <2>1, <2>2, <3>1 DEF Ready, Prepared, Cut
  <2>4. Prepared(e)'
    <3>0. Prepared(e)
      BY DEF Ready
    <3>1. QED
      BY <1>2, <2>1, <3>0, <2>2 DEF LookForSteers, At, Goto, Prepared, TypeOK, DrainTypes
  <2>5. QED
    BY <2>3, <2>4 DEF Ready
<1>3. ASSUME NEW e \in Entry, LookForQueued(e) PROVE Ready'
  <2>1. UNCHANGED << seq, row, visible >>
    BY <1>3 DEF LookForQueued, inbox
  <2>2. /\ hasPending("steer")' = hasPending("steer") /\ hasPending("queue")' = hasPending("queue")
        /\ Oldest(hasPending("queue"))' = Oldest(hasPending("queue"))
    BY <2>1, PendingKept
  <2>3. ASSUME NEW f \in Entry, f # e PROVE Prepared(f)'
    <3>1. /\ pc'[f] = pc[f] /\ force'[f] = force[f] /\ promotion'[f] = promotion[f]
          /\ cutoff'[f] = cutoff[f] /\ batch'[f] = batch[f] /\ fresh'[f] = fresh[f]
          /\ more'[f] = more[f]
      BY <1>3, <2>3 DEF LookForQueued, Goto, TypeOK, DrainTypes
    <3>2. QED
      BY <2>1, <2>2, <3>1 DEF Ready, Prepared, Cut
  <2>4. Prepared(e)'
    <3>0. Prepared(e)
      BY DEF Ready
    <3>1. QED
      BY <1>3, <2>1, <3>0, <2>2 DEF LookForQueued, At, Goto, Prepared, TypeOK, DrainTypes
  <2>5. QED
    BY <2>3, <2>4 DEF Ready
<1>4. ASSUME NEW e \in Entry, Attempt(e) PROVE Ready'
  <2>1. UNCHANGED << seq, row, visible >>
    BY <1>4 DEF Attempt, inbox
  <2>2. /\ hasPending("steer")' = hasPending("steer") /\ hasPending("queue")' = hasPending("queue")
        /\ Oldest(hasPending("queue"))' = Oldest(hasPending("queue"))
    BY <2>1, PendingKept
  <2>3. ASSUME NEW f \in Entry, f # e PROVE Prepared(f)'
    <3>1. /\ pc'[f] = pc[f] /\ force'[f] = force[f] /\ promotion'[f] = promotion[f]
          /\ cutoff'[f] = cutoff[f] /\ batch'[f] = batch[f] /\ fresh'[f] = fresh[f]
          /\ more'[f] = more[f]
      BY <1>4, <2>3 DEF Attempt, Goto, TypeOK, DrainTypes
    <3>2. QED
      BY <2>1, <2>2, <3>1 DEF Ready, Prepared, Cut
  <2>4. Prepared(e)'
    <3>0. Prepared(e)
      BY DEF Ready
    <3>1. CASE promotion[e] = "none"
      BY <1>4, <3>0, <2>1, <2>2, <3>1 DEF Attempt, At, Goto, Prepared, TypeOK, DrainTypes
    <3>2. CASE promotion[e] = "queue"
      BY <1>4, <3>0, <2>1, <2>2, <3>2 DEF Attempt, At, Goto, Prepared, TypeOK, InboxTypes, DrainTypes
    <3>3. CASE promotion[e] = "steer"
      <4>1. /\ pc'[e] = "select" /\ cutoff'[e] = seq /\ UNCHANGED << promotion, more >>
            /\ more[e] \/ hasPending("steer") # {}
        BY <1>4, <3>0, <3>3 DEF Attempt, At, Goto, Prepared, TypeOK, DrainTypes
      <4>2. \A p \in hasPending("steer") : row[p].seq <= seq
        BY DEF hasPending, Ordered
      <4>3. QED
        BY <2>1, <2>2, <3>0, <3>3, <4>1, <4>2 DEF Prepared, TypeOK, InboxTypes
    <3>4. QED
      BY <3>1, <3>2, <3>3 DEF TypeOK, DrainTypes, Deliveries
  <2>5. QED
    BY <2>3, <2>4 DEF Ready
<1>5. ASSUME NEW e \in Entry, promoteNextQueued(e) PROVE Ready'
  <2>1. UNCHANGED << seq, row, visible >>
    BY <1>5 DEF promoteNextQueued, inbox
  <2>2. /\ hasPending("steer")' = hasPending("steer") /\ hasPending("queue")' = hasPending("queue")
        /\ Oldest(hasPending("queue"))' = Oldest(hasPending("queue"))
    BY <2>1, PendingKept
  <2>3. ASSUME NEW f \in Entry, f # e PROVE Prepared(f)'
    <3>1. /\ pc'[f] = pc[f] /\ force'[f] = force[f] /\ promotion'[f] = promotion[f]
          /\ cutoff'[f] = cutoff[f] /\ batch'[f] = batch[f] /\ fresh'[f] = fresh[f]
          /\ more'[f] = more[f]
      BY <1>5, <2>3 DEF promoteNextQueued, Goto, TypeOK, DrainTypes
    <3>2. QED
      BY <2>1, <2>2, <3>1 DEF Ready, Prepared, Cut
  <2>4. Prepared(e)'
    <3>0. Prepared(e)
      BY DEF Ready
    <3>1. QED
      BY <1>5, <2>1, <3>0, <2>2 DEF promoteNextQueued, At, Goto, Prepared, TypeOK, DrainTypes
  <2>5. QED
    BY <2>3, <2>4 DEF Ready
<1>6. ASSUME NEW e \in Entry, promoteSteers(e) PROVE Ready'
  <2>1. UNCHANGED << seq, row, visible >>
    BY <1>6 DEF promoteSteers, inbox
  <2>2. /\ hasPending("steer")' = hasPending("steer") /\ hasPending("queue")' = hasPending("queue")
        /\ Oldest(hasPending("queue"))' = Oldest(hasPending("queue"))
    BY <2>1, PendingKept
  <2>3. ASSUME NEW f \in Entry, f # e PROVE Prepared(f)'
    <3>1. /\ pc'[f] = pc[f] /\ force'[f] = force[f] /\ promotion'[f] = promotion[f]
          /\ cutoff'[f] = cutoff[f] /\ batch'[f] = batch[f] /\ fresh'[f] = fresh[f]
          /\ more'[f] = more[f]
      BY <1>6, <2>3 DEF promoteSteers, Goto, TypeOK, DrainTypes
    <3>2. QED
      BY <2>1, <2>2, <3>1 DEF Ready, Prepared, Cut
  <2>4. Prepared(e)'
    <3>0. Prepared(e)
      BY DEF Ready
    <3>1. /\ pc[e] = "select" /\ pc'[e] = "publish"
          /\ batch'[e] = {p \in hasPending("steer") : row[p].seq <= cutoff[e]}
          /\ UNCHANGED << promotion, cutoff, fresh, more >>
      BY <1>6, <3>0 DEF promoteSteers, At, Goto, TypeOK, DrainTypes
    <3>2. cutoff[e] \in Nat /\ \A p \in hasPending("steer") : row[p].seq \in Nat
      BY PendingType DEF TypeOK, DrainTypes
    <3>3. Cut(e)'
      BY <2>1, <2>2, <3>1, <3>2 DEF Cut
    <3>4. QED
      BY <2>1, <3>0, <3>1, <3>3 DEF Prepared
  <2>5. QED
    BY <2>3, <2>4 DEF Ready
<1>7. ASSUME NEW e \in Entry, publish(e) PROVE Ready'
  <2>1. PICK q \in Oldest(batch[e]) : /\ visible' = visible \cup {q}
                                     /\ batch' = [batch EXCEPT ![e] = @ \ {q}]
    BY <1>7 DEF publish
  <2>2. /\ active = e /\ UNCHANGED << seq, row, cutoff, promotion, more >>
        /\ fresh'[e] = TRUE /\ batch'[e] = batch[e] \ {q}
    BY <1>7, <2>1 DEF publish, At, Owner, TypeOK, DrainTypes
  <2>3. ASSUME NEW f \in Entry, f # e PROVE Prepared(f)'
    <3>1. pc[f] = "off" /\ pc'[f] = "off"
      BY <1>7, <2>2, <2>3 DEF publish, Goto, Owner, TypeOK, DrainTypes
    <3>2. QED
      BY <2>2, <3>1 DEF Ready, Prepared
  <2>4. Prepared(e)'
    <3>1. CASE pc[e] = "open"
      <4>1. pc'[e] = "select" /\ promotion[e] = "queue"
        BY <1>7, <3>1 DEF publish, Goto, Ready, Prepared, TypeOK, DrainTypes
      <4>2. QED
        BY <2>2, <4>1 DEF Ready, Prepared
    <3>2. CASE pc[e] = "publish"
      <4>1. pc'[e] = "publish" /\ Cut(e) /\ promotion[e] # "none"
        BY <1>7, <3>2 DEF publish, Goto, Ready, Prepared, TypeOK, DrainTypes
      <4>2. hasPending("steer")' = hasPending("steer") \ {q}
        BY <2>1, <2>2 DEF hasPending
      <4>3. Cut(e)'
        BY <2>2, <4>1, <4>2 DEF Cut
      <4>4. QED
        BY <2>2, <4>1, <4>3 DEF Ready, Prepared
    <3>3. QED
      BY <1>7, <3>1, <3>2 DEF publish, At
  <2>5. QED
    BY <2>3, <2>4 DEF Ready
<1>8. ASSUME NEW e \in Entry, Assemble(e) PROVE Ready'
  <2>1. UNCHANGED << seq, row, visible >>
    BY <1>8 DEF Assemble, inbox
  <2>2. /\ hasPending("steer")' = hasPending("steer") /\ hasPending("queue")' = hasPending("queue")
        /\ Oldest(hasPending("queue"))' = Oldest(hasPending("queue"))
    BY <2>1, PendingKept
  <2>3. ASSUME NEW f \in Entry, f # e PROVE Prepared(f)'
    <3>1. /\ pc'[f] = pc[f] /\ force'[f] = force[f] /\ promotion'[f] = promotion[f]
          /\ cutoff'[f] = cutoff[f] /\ batch'[f] = batch[f] /\ fresh'[f] = fresh[f]
          /\ more'[f] = more[f]
      BY <1>8, <2>3 DEF Assemble, Goto, TypeOK, DrainTypes
    <3>2. QED
      BY <2>1, <2>2, <3>1 DEF Ready, Prepared, Cut
  <2>4. Prepared(e)'
    <3>0. Prepared(e)
      BY DEF Ready
    <3>1. QED
      BY <1>8, <2>1, <3>0, <2>2 DEF Assemble, At, Goto, Prepared, Cut, TypeOK, DrainTypes
  <2>5. QED
    BY <2>3, <2>4 DEF Ready
<1>9. ASSUME NEW e \in Entry, Turn(e) PROVE Ready'
  <2>1. UNCHANGED << seq, row, visible >>
    BY <1>9 DEF Turn, inbox
  <2>2. /\ hasPending("steer")' = hasPending("steer") /\ hasPending("queue")' = hasPending("queue")
        /\ Oldest(hasPending("queue"))' = Oldest(hasPending("queue"))
    BY <2>1, PendingKept
  <2>3. ASSUME NEW f \in Entry, f # e PROVE Prepared(f)'
    <3>1. /\ pc'[f] = pc[f] /\ force'[f] = force[f] /\ promotion'[f] = promotion[f]
          /\ cutoff'[f] = cutoff[f] /\ batch'[f] = batch[f] /\ fresh'[f] = fresh[f]
          /\ more'[f] = more[f]
      BY <1>9, <2>3 DEF Turn, Goto, TypeOK, DrainTypes
    <3>2. QED
      BY <2>1, <2>2, <3>1 DEF Ready, Prepared, Cut
  <2>4. Prepared(e)'
    <3>0. Prepared(e)
      BY DEF Ready
    <3>1. QED
      BY <1>9, <2>1, <3>0 DEF Turn, At, Goto, Prepared, TypeOK, DrainTypes
  <2>5. QED
    BY <2>3, <2>4 DEF Ready
<1>10. ASSUME NEW e \in Entry, Continue(e) PROVE Ready'
  <2>1. UNCHANGED << seq, row, visible >>
    BY <1>10 DEF Continue, inbox
  <2>2. /\ hasPending("steer")' = hasPending("steer") /\ hasPending("queue")' = hasPending("queue")
        /\ Oldest(hasPending("queue"))' = Oldest(hasPending("queue"))
    BY <2>1, PendingKept
  <2>3. ASSUME NEW f \in Entry, f # e PROVE Prepared(f)'
    <3>1. /\ pc'[f] = pc[f] /\ force'[f] = force[f] /\ promotion'[f] = promotion[f]
          /\ cutoff'[f] = cutoff[f] /\ batch'[f] = batch[f] /\ fresh'[f] = fresh[f]
          /\ more'[f] = more[f]
      BY <1>10, <2>3 DEF Continue, Goto, TypeOK, DrainTypes
    <3>2. QED
      BY <2>1, <2>2, <3>1 DEF Ready, Prepared, Cut
  <2>4. Prepared(e)'
    <3>0. Prepared(e)
      BY DEF Ready
    <3>1. QED
      BY <1>10, <2>1, <3>0, <2>2 DEF Continue, At, Goto, Prepared, TypeOK, DrainTypes
  <2>5. QED
    BY <2>3, <2>4 DEF Ready
<1>11. ASSUME NEW e \in Entry, Idle(e) PROVE Ready'
  <2>1. UNCHANGED << seq, row, visible >>
    BY <1>11 DEF Idle, inbox
  <2>2. /\ hasPending("steer")' = hasPending("steer") /\ hasPending("queue")' = hasPending("queue")
        /\ Oldest(hasPending("queue"))' = Oldest(hasPending("queue"))
    BY <2>1, PendingKept
  <2>3. ASSUME NEW f \in Entry, f # e PROVE Prepared(f)'
    <3>1. /\ pc'[f] = pc[f] /\ force'[f] = force[f] /\ promotion'[f] = promotion[f]
          /\ cutoff'[f] = cutoff[f] /\ batch'[f] = batch[f] /\ fresh'[f] = fresh[f]
          /\ more'[f] = more[f]
      BY <1>11, <2>3 DEF Idle, Goto, TypeOK, DrainTypes
    <3>2. QED
      BY <2>1, <2>2, <3>1 DEF Ready, Prepared, Cut
  <2>4. Prepared(e)'
    <3>0. Prepared(e)
      BY DEF Ready
    <3>1. QED
      BY <1>11, <2>1, <3>0, <2>2 DEF Idle, At, Goto, Prepared, TypeOK, DrainTypes
  <2>5. QED
    BY <2>3, <2>4 DEF Ready
<1>12. ASSUME NEW e \in Entry, End(e) PROVE Ready'
  <2>1. PICK exit \in Exits : settle(e, exit)
    BY <1>12 DEF End, Leave, Exits
  <2>2. /\ UNCHANGED << seq, row, visible >> /\ Forget(e)
    BY <1>12 DEF End, Leave, inbox
  <2>3. \A f \in Entry : pc'[f] \in {"off", "ready"} \/ (f # e /\ pc'[f] = pc[f])
    BY <2>1, NextEntry DEF settle, TypeOK, DrainTypes
  <2>4. \A f \in Entry : f # e => pc[f] = "off"
    BY <1>12 DEF End, At, Owner
  <2>5. \A f \in Entry : cutoff'[f] <= seq
    BY <2>2 DEF Forget, Ready, Prepared, TypeOK, DrainTypes, InboxTypes
  <2>6. QED
    BY <2>2, <2>3, <2>4, <2>5 DEF Ready, Prepared
<1>13. ASSUME NEW e \in Entry, Unwind(e) PROVE Ready'
  <2>1. PICK exit \in Exits : settle(e, exit)
    BY <1>13 DEF Unwind, Leave, Exits
  <2>2. /\ UNCHANGED << seq, row, visible >> /\ Forget(e)
    BY <1>13 DEF Unwind, Leave, inbox
  <2>3. \A f \in Entry : pc'[f] \in {"off", "ready"} \/ (f # e /\ pc'[f] = pc[f])
    BY <2>1, NextEntry DEF settle, TypeOK, DrainTypes
  <2>4. \A f \in Entry : f # e => pc[f] = "off"
    BY <1>13 DEF Unwind, At, Owner
  <2>5. \A f \in Entry : cutoff'[f] <= seq
    BY <2>2 DEF Forget, Ready, Prepared, TypeOK, DrainTypes, InboxTypes
  <2>6. QED
    BY <2>2, <2>3, <2>4, <2>5 DEF Ready, Prepared
<1>14. ASSUME NEW e \in Entry, Fail(e) PROVE Ready'
  <2>1. PICK exit \in Exits : settle(e, exit)
    BY <1>14 DEF Fail, Leave, Exits
  <2>2. /\ UNCHANGED << seq, row, visible >> /\ Forget(e)
    BY <1>14 DEF Fail, Leave, inbox
  <2>3. \A f \in Entry : pc'[f] \in {"off", "ready"} \/ (f # e /\ pc'[f] = pc[f])
    BY <2>1, NextEntry DEF settle, TypeOK, DrainTypes
  <2>4. \A f \in Entry : f # e => pc[f] = "off"
    BY <1>14 DEF Fail, At, Owner
  <2>5. \A f \in Entry : cutoff'[f] <= seq
    BY <2>2 DEF Forget, Ready, Prepared, TypeOK, DrainTypes, InboxTypes
  <2>6. QED
    BY <2>2, <2>3, <2>4, <2>5 DEF Ready, Prepared
<1>15. ASSUME NEW s \in Senders, Find(s) PROVE Ready'
  <2>1. UNCHANGED << seq, row, visible, drain >>
    BY <1>15 DEF Find, inbox
  <2>2. /\ hasPending("steer")' = hasPending("steer") /\ hasPending("queue")' = hasPending("queue")
        /\ Oldest(hasPending("queue"))' = Oldest(hasPending("queue"))
    BY <2>1, PendingKept
  <2>3. QED
    BY <2>1, <2>2 DEF drain, Ready, Prepared, Cut
<1>16. ASSUME NEW s \in Senders, admit(s) PROVE Ready'
  <2>1. UNCHANGED << visible, drain >>
    BY <1>16 DEF admit
  <2>2. CASE row' = row /\ seq' = seq
    <3>1. /\ hasPending("steer")' = hasPending("steer") /\ hasPending("queue")' = hasPending("queue")
          /\ Oldest(hasPending("queue"))' = Oldest(hasPending("queue"))
      BY <2>1, <2>2, PendingKept
    <3>2. QED
      BY <2>1, <2>2, <3>1 DEF drain, Ready, Prepared, Cut
  <2>3. CASE /\ seq' = seq + 1 /\ row[Sends[s].id] = None
             /\ row' = [row EXCEPT ![Sends[s].id] = [seq |-> seq + 1, delivery |-> Sends[s].delivery]]
    <3>0. seq \in Nat /\ row \in [Prompts -> Rows \cup {None}]
      BY DEF TypeOK, InboxTypes
    <3>1. row'[Sends[s].id].seq = seq + 1
      BY <2>3, <3>0, SendType
    <3>2. \A p \in Prompts : row[p] # None => row'[p] = row[p] /\ row[p].seq \in Nat
      BY <2>3, <3>0, SendType DEF Rows
    <3>3. \A kind : \A p \in hasPending(kind) : p \in hasPending(kind)' /\ row'[p] = row[p]
      BY <2>1, <3>2 DEF hasPending
    <3>4. \A kind : \A p \in hasPending(kind)' : p \in hasPending(kind) \/ row'[p].seq = seq + 1
      BY <2>1, <2>3, <3>0, <3>1, SendType DEF hasPending
    <3>5. \A kind : \A p \in hasPending(kind) : row[p].seq \in Nat /\ row[p].seq <= seq
      BY PendingType DEF Ordered, hasPending
    <3>6. \A p \in Oldest(hasPending("queue")) : p \in Oldest(hasPending("queue"))'
      BY <3>0, <3>3, <3>4, <3>5 DEF Oldest
    <3>7. ASSUME NEW f \in Entry PROVE Prepared(f)'
      <4>1. cutoff[f] \in Nat /\ cutoff[f] <= seq /\ cutoff'[f] = cutoff[f]
        BY <2>1 DEF drain, Ready, Prepared, TypeOK, DrainTypes
      <4>2. Cut(f) => Cut(f)'
        BY <2>1, <3>0, <3>3, <3>4, <3>5, <4>1 DEF Cut, drain
      <4>3. (\A p \in hasPending("steer") : row[p].seq > cutoff[f])
               => \A p \in hasPending("steer")' : row'[p].seq > cutoff'[f]
        BY <3>0, <3>3, <3>4, <4>1
      <4>4. (\E p \in hasPending("steer") : row[p].seq <= cutoff[f])
               => \E p \in hasPending("steer")' : row'[p].seq <= cutoff'[f]
        BY <3>3, <4>1
      <4>5. /\ hasPending("steer") # {} => hasPending("steer")' # {}
            /\ hasPending("queue") # {} => hasPending("queue")' # {}
        BY <3>3
      <4>6. batch[f] \subseteq Oldest(hasPending("queue"))
               => batch'[f] \subseteq Oldest(hasPending("queue"))'
        BY <2>1, <3>6 DEF drain
      <4>7. Prepared(f) /\ cutoff'[f] <= seq' /\ UNCHANGED << pc, promotion, force, fresh, more, batch >>
        BY <2>1, <2>3, <3>0, <4>1 DEF Ready, drain
      <4>8. QED
        BY <4>2, <4>3, <4>4, <4>5, <4>6, <4>7 DEF Prepared
    <3>8. QED
      BY <3>7 DEF Ready
  <2>4. QED
    BY <1>16, <2>2, <2>3 DEF admit
<1>17. ASSUME NEW s \in Senders, Wake(s) PROVE Ready'
  <2>1. /\ UNCHANGED << seq, row, visible, promotion, cutoff, batch, fresh, more >>
        /\ (UNCHANGED << pc, force >>) \/ (active = 0 /\ Start(FALSE))
    BY <1>17 DEF Wake, wake, inbox
  <2>2. /\ hasPending("steer")' = hasPending("steer") /\ hasPending("queue")' = hasPending("queue")
        /\ Oldest(hasPending("queue"))' = Oldest(hasPending("queue"))
    BY <2>1, PendingKept
  <2>3. CASE UNCHANGED << pc, force >>
    BY <2>1, <2>2, <2>3 DEF Ready, Prepared, Cut
  <2>4. CASE active = 0 /\ Start(FALSE)
    <3>1. \A f \in Entry : pc[f] = "off" /\ pc'[f] \in {"off", "ready"}
      BY <2>4, NextEntry DEF Start, Owner, Entry, TypeOK, DrainTypes
    <3>2. QED
      BY <2>1, <3>1 DEF Ready, Prepared
  <2>5. QED
    BY <2>1, <2>3, <2>4
<1>18. ASSUME NEW r \in Resumers, Run(r) PROVE Ready'
  <2>1. /\ UNCHANGED << seq, row, visible, promotion, cutoff, batch, fresh, more >>
        /\ (UNCHANGED << pc, force >>) \/ (active = 0 /\ Start(TRUE))
    BY <1>18 DEF Run, inbox
  <2>2. /\ hasPending("steer")' = hasPending("steer") /\ hasPending("queue")' = hasPending("queue")
        /\ Oldest(hasPending("queue"))' = Oldest(hasPending("queue"))
    BY <2>1, PendingKept
  <2>3. CASE UNCHANGED << pc, force >>
    BY <2>1, <2>2, <2>3 DEF Ready, Prepared, Cut
  <2>4. CASE active = 0 /\ Start(TRUE)
    <3>1. \A f \in Entry : pc[f] = "off" /\ pc'[f] \in {"off", "ready"}
      BY <2>4, NextEntry DEF Start, Owner, Entry, TypeOK, DrainTypes
    <3>2. QED
      BY <2>1, <3>1 DEF Ready, Prepared
  <2>5. QED
    BY <2>1, <2>3, <2>4
<1>19. ASSUME NEW r \in Resumers, Answer(r) PROVE Ready'
  <2>1. UNCHANGED << seq, row, visible, drain >>
    BY <1>19 DEF Answer, inbox
  <2>2. /\ hasPending("steer")' = hasPending("steer") /\ hasPending("queue")' = hasPending("queue")
        /\ Oldest(hasPending("queue"))' = Oldest(hasPending("queue"))
    BY <2>1, PendingKept
  <2>3. QED
    BY <2>1, <2>2 DEF drain, Ready, Prepared, Cut
<1>20. ASSUME NEW k \in Stoppers, Interrupt(k) PROVE Ready'
  <2>1. UNCHANGED << seq, row, visible, drain >>
    BY <1>20 DEF Interrupt, inbox
  <2>2. /\ hasPending("steer")' = hasPending("steer") /\ hasPending("queue")' = hasPending("queue")
        /\ Oldest(hasPending("queue"))' = Oldest(hasPending("queue"))
    BY <2>1, PendingKept
  <2>3. QED
    BY <2>1, <2>2 DEF drain, Ready, Prepared, Cut
<1>21. ASSUME NEW k \in Stoppers, Interrupted(k) PROVE Ready'
  <2>1. UNCHANGED << seq, row, visible, drain >>
    BY <1>21 DEF Interrupted, inbox
  <2>2. /\ hasPending("steer")' = hasPending("steer") /\ hasPending("queue")' = hasPending("queue")
        /\ Oldest(hasPending("queue"))' = Oldest(hasPending("queue"))
    BY <2>1, PendingKept
  <2>3. QED
    BY <2>1, <2>2 DEF drain, Ready, Prepared, Cut
<1>22. ASSUME Crash PROVE Ready'
  <2>1. UNCHANGED << seq, row, visible >> /\ \A f \in Entry : pc'[f] = "off"
    BY <1>22 DEF Crash, inbox
  <2>2. \A f \in Entry : cutoff'[f] <= seq
    BY <1>22 DEF Crash, Forget, Ready, Prepared, TypeOK, DrainTypes, InboxTypes
  <2>3. QED
    BY <2>1, <2>2 DEF Ready, Prepared
<1>23. CASE UNCHANGED vars
  <2>1. UNCHANGED << seq, row, visible, drain >>
    BY <1>23 DEF vars, inbox
  <2>2. /\ hasPending("steer")' = hasPending("steer") /\ hasPending("queue")' = hasPending("queue")
        /\ Oldest(hasPending("queue"))' = Oldest(hasPending("queue"))
    BY <2>1, PendingKept
  <2>3. QED
    BY <2>1, <2>2 DEF drain, Ready, Prepared, Cut
<1>24. QED
  BY <1>1, <1>2, <1>3, <1>4, <1>5, <1>6, <1>7, <1>8, <1>9, <1>10, <1>11, <1>12, <1>13,
     <1>14, <1>15, <1>16, <1>17, <1>18, <1>19, <1>20, <1>21, <1>22, <1>23 DEF Next, System,
     DrainStep

(* All that the drain relies on, for every behaviour.                        *)
LEMMA DrainInvariant == Spec => [](TypeOK /\ Owner /\ Ordered /\ Ready)
<1>1. Init => TypeOK /\ Owner /\ Ordered /\ Ready
  <2>1. ASSUME Init PROVE Owner /\ Ordered /\ Ready
    BY <2>1, DrainAssumption DEF Init, Owner, Entry, Ordered, Ready, Prepared
  <2>2. Init => TypeOK
    BY DrainAssumption DEF Init, TypeOK, InboxTypes, EntryTypes, DrainTypes, CallerTypes,
       Entry, Stages, Deliveries, Rows, Exits
  <2>3. QED
    BY <2>1, <2>2
<1>2. TypeOK /\ Owner /\ Ordered /\ Ready /\ [Next]_vars => (TypeOK /\ Owner /\ Ordered /\ Ready)'
  BY TypeStep, OwnerStep, OrderedStep, ReadyStep
<1>3. QED
  BY <1>1, <1>2, PTL DEF Spec

(* A turn that follows a promotion carries every steer admitted before it.   *)
THEOREM SteersAreCarried == Spec => []SteersReachTheTurn
<1>1. Ready => SteersReachTheTurn
  BY DEF Ready, Prepared, SteersReachTheTurn
<1>2. QED
  BY <1>1, DrainInvariant, PTL

(* An unforced drain calls the provider for new input or to go on.           *)
THEOREM ProviderHasInput == Spec => []NoIdleProviderCall
<1>1. Ready => NoIdleProviderCall
  BY DEF Ready, Prepared, NoIdleProviderCall
<1>2. QED
  BY <1>1, DrainInvariant, PTL

(***************************************************************************)
(* The drain implements the inbox.                                         *)
(***************************************************************************)

(* A step that leaves the inbox alone, and opens no turn, is a stutter of the  *)
(* inbox or the end of what was opening.                                     *)
LEMMA QuietStep ==
    ASSUME UNCHANGED << seq, row, visible >>, Opening' => Opening
    PROVE  [Inbox!Next]_(Inbox!vars)
<1>1. Opening \in BOOLEAN /\ Opening' \in BOOLEAN
  BY DEF Opening
<1>2. CASE Opening' = Opening
  BY <1>2 DEF Inbox!vars
<1>3. CASE Opening' = FALSE
  BY <1>3 DEF Inbox!Next, Inbox!Close
<1>4. QED
  BY <1>1, <1>2, <1>3

(* Every step is a step of the inbox or a stutter.                            *)
LEMMA InboxStep ==
    ASSUME TypeOK, Owner, Ordered, Ready, [Next]_vars PROVE [Inbox!Next]_(Inbox!vars)
<1>1. ASSUME NEW e \in Entry, Begin(e) PROVE [Inbox!Next]_(Inbox!vars)
  <2>1. UNCHANGED << seq, row, visible >>
    BY <1>1 DEF Begin, inbox
  <2>2. ASSUME NEW f \in Entry, pc'[f] \in {"select", "publish", "provider"}, promotion'[f] = "queue", fresh'[f]
        PROVE  pc[f] \in {"select", "publish", "provider"} /\ promotion[f] = "queue" /\ fresh[f]
    BY <1>1, <2>2 DEF Begin, At, Goto, Ready, Prepared, TypeOK, DrainTypes
  <2>3. QED
    BY <2>1, <2>2, QuietStep DEF Opening
<1>2. ASSUME NEW e \in Entry, LookForSteers(e) PROVE [Inbox!Next]_(Inbox!vars)
  <2>1. UNCHANGED << seq, row, visible >>
    BY <1>2 DEF LookForSteers, inbox
  <2>2. ASSUME NEW f \in Entry, pc'[f] \in {"select", "publish", "provider"}, promotion'[f] = "queue", fresh'[f]
        PROVE  pc[f] \in {"select", "publish", "provider"} /\ promotion[f] = "queue" /\ fresh[f]
    BY <1>2, <2>2 DEF LookForSteers, At, Goto, Ready, Prepared, TypeOK, DrainTypes
  <2>3. QED
    BY <2>1, <2>2, QuietStep DEF Opening
<1>3. ASSUME NEW e \in Entry, LookForQueued(e) PROVE [Inbox!Next]_(Inbox!vars)
  <2>1. UNCHANGED << seq, row, visible >>
    BY <1>3 DEF LookForQueued, inbox
  <2>2. ASSUME NEW f \in Entry, pc'[f] \in {"select", "publish", "provider"}, promotion'[f] = "queue", fresh'[f]
        PROVE  pc[f] \in {"select", "publish", "provider"} /\ promotion[f] = "queue" /\ fresh[f]
    BY <1>3, <2>2 DEF LookForQueued, At, Goto, Ready, Prepared, TypeOK, DrainTypes
  <2>3. QED
    BY <2>1, <2>2, QuietStep DEF Opening
<1>4. ASSUME NEW e \in Entry, Attempt(e) PROVE [Inbox!Next]_(Inbox!vars)
  <2>1. UNCHANGED << seq, row, visible >>
    BY <1>4 DEF Attempt, inbox
  <2>2. ASSUME NEW f \in Entry, pc'[f] \in {"select", "publish", "provider"}, promotion'[f] = "queue", fresh'[f]
        PROVE  pc[f] \in {"select", "publish", "provider"} /\ promotion[f] = "queue" /\ fresh[f]
    BY <1>4, <2>2 DEF Attempt, At, Goto, Ready, Prepared, TypeOK, DrainTypes
  <2>3. QED
    BY <2>1, <2>2, QuietStep DEF Opening
<1>5. ASSUME NEW e \in Entry, promoteNextQueued(e) PROVE [Inbox!Next]_(Inbox!vars)
  <2>1. UNCHANGED << seq, row, visible >>
    BY <1>5 DEF promoteNextQueued, inbox
  <2>2. ASSUME NEW f \in Entry, pc'[f] \in {"select", "publish", "provider"}, promotion'[f] = "queue", fresh'[f]
        PROVE  pc[f] \in {"select", "publish", "provider"} /\ promotion[f] = "queue" /\ fresh[f]
    BY <1>5, <2>2 DEF promoteNextQueued, At, Goto, Ready, Prepared, TypeOK, DrainTypes
  <2>3. QED
    BY <2>1, <2>2, QuietStep DEF Opening
<1>6. ASSUME NEW e \in Entry, promoteSteers(e) PROVE [Inbox!Next]_(Inbox!vars)
  <2>1. UNCHANGED << seq, row, visible >>
    BY <1>6 DEF promoteSteers, inbox
  <2>2. ASSUME NEW f \in Entry, pc'[f] \in {"select", "publish", "provider"}, promotion'[f] = "queue", fresh'[f]
        PROVE  pc[f] \in {"select", "publish", "provider"} /\ promotion[f] = "queue" /\ fresh[f]
    BY <1>6, <2>2 DEF promoteSteers, At, Goto, Ready, Prepared, TypeOK, DrainTypes
  <2>3. QED
    BY <2>1, <2>2, QuietStep DEF Opening
<1>7. ASSUME NEW e \in Entry, publish(e) PROVE [Inbox!Next]_(Inbox!vars)
  <2>1. PICK q \in Oldest(batch[e]) : visible' = visible \cup {q}
    BY <1>7 DEF publish
  <2>2. UNCHANGED << seq, row, promotion >> /\ active = e /\ fresh'[e] = TRUE
    BY <1>7 DEF publish, At, Owner, TypeOK, DrainTypes
  <2>3. q \in batch[e] /\ \A p \in batch[e] : row[q].seq <= row[p].seq
    BY <2>1 DEF Oldest
  <2>4. \A f \in Entry : f # e => pc[f] = "off" /\ pc'[f] = "off"
    BY <1>7, <2>2 DEF publish, Goto, Owner, TypeOK, DrainTypes
  <2>5. CASE pc[e] = "open"
    <3>1. pc'[e] = "select" /\ promotion[e] = "queue" /\ q \in Oldest(hasPending("queue"))
      BY <1>7, <2>3, <2>5 DEF publish, Goto, Ready, Prepared, TypeOK, DrainTypes
    <3>2. ~Opening /\ Opening' = TRUE
      BY <2>2, <2>4, <2>5, <3>1 DEF Opening
    <3>3. q \in Prompts /\ Inbox!Oldest(q, "queue")
      BY <3>1 DEF Oldest, hasPending, Inbox!Oldest, Inbox!Waiting
    <3>4. Inbox!Open(q)
      BY <2>1, <2>2, <3>2, <3>3 DEF Inbox!Open
    <3>5. QED
      BY <3>3, <3>4 DEF Inbox!Next
  <2>6. CASE pc[e] = "publish"
    <3>1. pc'[e] = "publish" /\ Cut(e) /\ (promotion[e] = "queue" => fresh[e])
      BY <1>7, <2>6 DEF publish, Goto, Ready, Prepared, TypeOK, DrainTypes
    <3>2. Opening' = Opening
      BY <2>2, <2>4, <2>6, <3>1 DEF Opening
    <3>3. \A p \in hasPending("steer") : row[q].seq <= row[p].seq
      <4>1. ASSUME NEW p \in hasPending("steer"), p \notin batch[e] PROVE row[q].seq <= row[p].seq
        <5>1. row[q].seq <= cutoff[e] /\ row[p].seq > cutoff[e] /\ q \in hasPending("steer")
          BY <2>3, <3>1, <4>1 DEF Cut
        <5>2. row[q].seq \in Nat /\ row[p].seq \in Nat /\ cutoff[e] \in Nat
          BY <5>1, PendingType DEF TypeOK, DrainTypes
        <5>3. QED
          BY <5>1, <5>2
      <4>2. QED
        BY <2>3, <4>1
    <3>4. q \in Prompts /\ Inbox!Oldest(q, "steer")
      BY <2>3, <3>1, <3>3 DEF Cut, hasPending, Inbox!Oldest, Inbox!Waiting
    <3>5. Inbox!Steer(q)
      BY <2>1, <2>2, <3>2, <3>4 DEF Inbox!Steer
    <3>6. QED
      BY <3>4, <3>5 DEF Inbox!Next
  <2>7. QED
    BY <1>7, <2>5, <2>6 DEF publish, At
<1>8. ASSUME NEW e \in Entry, Assemble(e) PROVE [Inbox!Next]_(Inbox!vars)
  <2>1. UNCHANGED << seq, row, visible >>
    BY <1>8 DEF Assemble, inbox
  <2>2. ASSUME NEW f \in Entry, pc'[f] \in {"select", "publish", "provider"}, promotion'[f] = "queue", fresh'[f]
        PROVE  pc[f] \in {"select", "publish", "provider"} /\ promotion[f] = "queue" /\ fresh[f]
    BY <1>8, <2>2 DEF Assemble, At, Goto, Ready, Prepared, TypeOK, DrainTypes
  <2>3. QED
    BY <2>1, <2>2, QuietStep DEF Opening
<1>9. ASSUME NEW e \in Entry, Turn(e) PROVE [Inbox!Next]_(Inbox!vars)
  <2>1. UNCHANGED << seq, row, visible >>
    BY <1>9 DEF Turn, inbox
  <2>2. ASSUME NEW f \in Entry, pc'[f] \in {"select", "publish", "provider"}, promotion'[f] = "queue", fresh'[f]
        PROVE  pc[f] \in {"select", "publish", "provider"} /\ promotion[f] = "queue" /\ fresh[f]
    BY <1>9, <2>2 DEF Turn, At, Goto, Ready, Prepared, TypeOK, DrainTypes
  <2>3. QED
    BY <2>1, <2>2, QuietStep DEF Opening
<1>10. ASSUME NEW e \in Entry, Continue(e) PROVE [Inbox!Next]_(Inbox!vars)
  <2>1. UNCHANGED << seq, row, visible >>
    BY <1>10 DEF Continue, inbox
  <2>2. ASSUME NEW f \in Entry, pc'[f] \in {"select", "publish", "provider"}, promotion'[f] = "queue", fresh'[f]
        PROVE  pc[f] \in {"select", "publish", "provider"} /\ promotion[f] = "queue" /\ fresh[f]
    BY <1>10, <2>2 DEF Continue, At, Goto, Ready, Prepared, TypeOK, DrainTypes
  <2>3. QED
    BY <2>1, <2>2, QuietStep DEF Opening
<1>11. ASSUME NEW e \in Entry, Idle(e) PROVE [Inbox!Next]_(Inbox!vars)
  <2>1. UNCHANGED << seq, row, visible >>
    BY <1>11 DEF Idle, inbox
  <2>2. ASSUME NEW f \in Entry, pc'[f] \in {"select", "publish", "provider"}, promotion'[f] = "queue", fresh'[f]
        PROVE  pc[f] \in {"select", "publish", "provider"} /\ promotion[f] = "queue" /\ fresh[f]
    BY <1>11, <2>2 DEF Idle, At, Goto, Ready, Prepared, TypeOK, DrainTypes
  <2>3. QED
    BY <2>1, <2>2, QuietStep DEF Opening
<1>12. ASSUME NEW e \in Entry, End(e) PROVE [Inbox!Next]_(Inbox!vars)
  <2>1. PICK exit \in Exits : settle(e, exit)
    BY <1>12 DEF End, Leave, Exits
  <2>2. UNCHANGED << seq, row, visible >> /\ Forget(e)
    BY <1>12 DEF End, Leave, inbox
  <2>3. \A f \in Entry : pc'[f] \in {"off", "ready"} \/ (f # e /\ pc'[f] = pc[f])
    BY <2>1, NextEntry DEF settle, TypeOK, DrainTypes
  <2>4. \A f \in Entry : f # e => pc[f] = "off"
    BY <1>12 DEF End, At, Owner
  <2>5. ~Opening'
    BY <2>3, <2>4 DEF Opening
  <2>6. QED
    BY <2>2, <2>5, QuietStep
<1>13. ASSUME NEW e \in Entry, Unwind(e) PROVE [Inbox!Next]_(Inbox!vars)
  <2>1. PICK exit \in Exits : settle(e, exit)
    BY <1>13 DEF Unwind, Leave, Exits
  <2>2. UNCHANGED << seq, row, visible >> /\ Forget(e)
    BY <1>13 DEF Unwind, Leave, inbox
  <2>3. \A f \in Entry : pc'[f] \in {"off", "ready"} \/ (f # e /\ pc'[f] = pc[f])
    BY <2>1, NextEntry DEF settle, TypeOK, DrainTypes
  <2>4. \A f \in Entry : f # e => pc[f] = "off"
    BY <1>13 DEF Unwind, At, Owner
  <2>5. ~Opening'
    BY <2>3, <2>4 DEF Opening
  <2>6. QED
    BY <2>2, <2>5, QuietStep
<1>14. ASSUME NEW e \in Entry, Fail(e) PROVE [Inbox!Next]_(Inbox!vars)
  <2>1. PICK exit \in Exits : settle(e, exit)
    BY <1>14 DEF Fail, Leave, Exits
  <2>2. UNCHANGED << seq, row, visible >> /\ Forget(e)
    BY <1>14 DEF Fail, Leave, inbox
  <2>3. \A f \in Entry : pc'[f] \in {"off", "ready"} \/ (f # e /\ pc'[f] = pc[f])
    BY <2>1, NextEntry DEF settle, TypeOK, DrainTypes
  <2>4. \A f \in Entry : f # e => pc[f] = "off"
    BY <1>14 DEF Fail, At, Owner
  <2>5. ~Opening'
    BY <2>3, <2>4 DEF Opening
  <2>6. QED
    BY <2>2, <2>5, QuietStep
<1>15. ASSUME NEW s \in Senders, Find(s) PROVE [Inbox!Next]_(Inbox!vars)
  BY <1>15, QuietStep DEF Find, inbox, drain, Opening
<1>16. ASSUME NEW s \in Senders, admit(s) PROVE [Inbox!Next]_(Inbox!vars)
  <2>1. UNCHANGED visible /\ Opening' = Opening
    BY <1>16 DEF admit, drain, Opening
  <2>2. CASE row' = row /\ seq' = seq
    BY <2>1, <2>2 DEF Inbox!vars
  <2>3. CASE /\ seq' = seq + 1 /\ row[Sends[s].id] = None
             /\ row' = [row EXCEPT ![Sends[s].id] = [seq |-> seq + 1, delivery |-> Sends[s].delivery]]
    <3>1. Inbox!Admit(Sends[s].id, Sends[s].delivery)
      BY <2>1, <2>3 DEF Inbox!Admit
    <3>2. QED
      BY <3>1, SendType DEF Inbox!Next, Deliveries
  <2>4. QED
    BY <1>16, <2>2, <2>3 DEF admit
<1>17. ASSUME NEW s \in Senders, Wake(s) PROVE [Inbox!Next]_(Inbox!vars)
  <2>1. /\ UNCHANGED << seq, row, visible, promotion, fresh >>
        /\ pc' = pc \/ (made < MaxEntries /\ pc' = [pc EXCEPT ![made + 1] = "ready"])
    BY <1>17 DEF Wake, wake, Start, inbox
  <2>2. \A x \in Entry : pc'[x] = pc[x] \/ pc'[x] = "ready"
    BY <2>1, NextEntry DEF TypeOK, DrainTypes
  <2>3. Opening' => Opening
    BY <2>1, <2>2 DEF Opening
  <2>4. QED
    BY <2>1, <2>3, QuietStep
<1>18. ASSUME NEW r \in Resumers, Run(r) PROVE [Inbox!Next]_(Inbox!vars)
  <2>1. /\ UNCHANGED << seq, row, visible, promotion, fresh >>
        /\ pc' = pc \/ (made < MaxEntries /\ pc' = [pc EXCEPT ![made + 1] = "ready"])
    BY <1>18 DEF Run, Start, inbox
  <2>2. \A x \in Entry : pc'[x] = pc[x] \/ pc'[x] = "ready"
    BY <2>1, NextEntry DEF TypeOK, DrainTypes
  <2>3. Opening' => Opening
    BY <2>1, <2>2 DEF Opening
  <2>4. QED
    BY <2>1, <2>3, QuietStep
<1>19. ASSUME NEW r \in Resumers, Answer(r) PROVE [Inbox!Next]_(Inbox!vars)
  BY <1>19, QuietStep DEF Answer, inbox, drain, Opening
<1>20. ASSUME NEW k \in Stoppers, Interrupt(k) PROVE [Inbox!Next]_(Inbox!vars)
  BY <1>20, QuietStep DEF Interrupt, inbox, drain, Opening
<1>21. ASSUME NEW k \in Stoppers, Interrupted(k) PROVE [Inbox!Next]_(Inbox!vars)
  BY <1>21, QuietStep DEF Interrupted, inbox, drain, Opening
<1>22. ASSUME Crash PROVE [Inbox!Next]_(Inbox!vars)
  <2>1. UNCHANGED << seq, row, visible >> /\ ~Opening'
    BY <1>22 DEF Crash, inbox, Opening
  <2>2. QED
    BY <2>1, QuietStep
<1>23. CASE UNCHANGED vars
  BY <1>23, QuietStep DEF vars, inbox, drain, Opening
<1>24. QED
  BY <1>1, <1>2, <1>3, <1>4, <1>5, <1>6, <1>7, <1>8, <1>9, <1>10, <1>11, <1>12, <1>13,
     <1>14, <1>15, <1>16, <1>17, <1>18, <1>19, <1>20, <1>21, <1>22, <1>23 DEF Next, System,
     DrainStep

(* The drain implements the inbox: each prompt becomes visible once, the oldest *)
(* of its kind first, and one queued prompt for a turn.                      *)
THEOREM DrainImplementsInbox == Spec => ImplementsInbox
<1>1. Init => Inbox!Init
  BY DEF Init, Inbox!Init, Opening
<1>2. TypeOK /\ Owner /\ Ordered /\ Ready /\ [Next]_vars => [Inbox!Next]_(Inbox!vars)
  BY InboxStep
<1>3. QED
  BY <1>1, <1>2, DrainInvariant, PTL DEF Spec, ImplementsInbox, Inbox!Spec
=============================================================================
