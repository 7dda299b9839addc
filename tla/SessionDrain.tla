---------------------------- MODULE SessionDrain ----------------------------
(***************************************************************************)
(* One V2 session: prompts are admitted to a durable inbox                 *)
(* (core/src/session/input.ts), the process-wide coordinator starts at     *)
(* most one drain of the session (core/src/session/run-coordinator.ts),    *)
(* and the drain promotes the inbox turn by turn (runner/llm.ts `run`).    *)
(*                                                                         *)
(* Senders admit a prompt and wake the session; resumers call `run`;       *)
(* stoppers call `interrupt`.  A promise is answered when its entry is     *)
(* settled, and settling is the last thing a drain's fiber does.  A read   *)
(* of the store and what follows it are two steps.  The process may die:   *)
(* the inbox survives, the coordinator does not, and a sender that has no  *)
(* answer sends the same prompt again.  The sequence counts the admissions *)
(* only; compaction, which repeats an attempt and promotes nothing, and    *)
(* what a turn writes are left out.                                        *)
(***************************************************************************)
EXTENDS Integers, FiniteSets

CONSTANTS
    Prompts,      \* message ids
    None,         \* the row of an id nobody admitted
    Senders,      \* calls of `prompt`
    Sends,        \* what each sends: [id, delivery, resume]
    Resumers,     \* calls of `resume`
    Stoppers,     \* calls of `interrupt`
    Steps,        \* the agent's configured `steps`
    MaxEntries,   \* bound: entries the coordinator makes
    MaxFaults     \* bound: drains that fail, and deaths of the process

Deliveries == {"steer", "queue"}
Rows == [seq : Nat, delivery : Deliveries]
Entry == 1..MaxEntries

ASSUME DrainAssumption ==
    /\ None \notin Rows
    /\ Sends \in [Senders -> [id : Prompts, delivery : Deliveries, resume : BOOLEAN]]
    /\ Steps \in Nat \ {0}
    /\ MaxEntries \in Nat /\ MaxFaults \in Nat

VARIABLES
    seq, row, visible,         \* the aggregate's sequence and session_input
    active, made,              \* the coordinator's map for this session; entries so far
    done, pendingWake, stopping,  \* each entry
    pc, force, promotion, cutoff, batch, fresh, more, step,  \* each entry's drain
    post, ask, on, halt, target,  \* senders, resumers and stoppers
    owed,                      \* prompts somebody woke the session for and nobody called off
    faults                     \* what the bound counts

inbox    == << seq, row, visible >>
entries  == << active, made, done, pendingWake, stopping >>
drain    == << pc, force, promotion, cutoff, batch, fresh, more, step >>
callers  == << post, ask, on, halt, target >>
vars     == << inbox, entries, drain, callers, owed, faults >>

Stages == {"off", "ready", "steers?", "queue?", "attempt", "next", "open", "select",
           "publish", "provider", "continue?", "idle?", "ending"}
Exits == {"ok", "failed", "interrupted"}

InboxTypes ==
    /\ seq \in Nat
    /\ row \in [Prompts -> Rows \cup {None}]
    /\ visible \subseteq Prompts /\ owed \subseteq Prompts

EntryTypes ==
    /\ active \in Entry \cup {0} /\ made \in 0..MaxEntries
    /\ done \in [Entry -> Exits \cup {"open"}]
    /\ pendingWake \in [Entry -> BOOLEAN] /\ stopping \in [Entry -> BOOLEAN]

DrainTypes ==
    /\ pc \in [Entry -> Stages]
    /\ promotion \in [Entry -> Deliveries \cup {"none"}]
    /\ cutoff \in [Entry -> Nat] /\ step \in [Entry -> Nat]
    /\ batch \in [Entry -> SUBSET Prompts]
    /\ force \in [Entry -> BOOLEAN] /\ fresh \in [Entry -> BOOLEAN] /\ more \in [Entry -> BOOLEAN]

CallerTypes ==
    /\ post \in [Senders -> {"new", "absent", "wake", "sent", "conflict"}]
    /\ ask \in [Resumers -> {"new", "joined", "behind", "again"} \cup Exits]
    /\ halt \in [Stoppers -> {"new", "waiting", "returned"}]
    /\ on \in [Resumers -> Entry \cup {0}] /\ target \in [Stoppers -> Entry \cup {0}]
    /\ \A r \in Resumers : ask[r] \in {"joined", "behind"} => on[r] # 0
    /\ faults \in Nat

TypeOK == InboxTypes /\ EntryTypes /\ DrainTypes /\ CallerTypes

Init ==
    /\ seq = 0 /\ row = [p \in Prompts |-> None] /\ visible = {} /\ owed = {}
    /\ active = 0 /\ made = 0
    /\ done = [e \in Entry |-> "open"]
    /\ pendingWake = [e \in Entry |-> FALSE] /\ stopping = [e \in Entry |-> FALSE]
    /\ pc = [e \in Entry |-> "off"]
    /\ force = [e \in Entry |-> FALSE] /\ promotion = [e \in Entry |-> "none"]
    /\ cutoff = [e \in Entry |-> 0] /\ step = [e \in Entry |-> 1]
    /\ batch = [e \in Entry |-> {}]
    /\ fresh = [e \in Entry |-> FALSE] /\ more = [e \in Entry |-> FALSE]
    /\ post = [s \in Senders |-> "new"]
    /\ ask = [r \in Resumers |-> "new"] /\ on = [r \in Resumers |-> 0]
    /\ halt = [k \in Stoppers |-> "new"] /\ target = [k \in Stoppers |-> 0]
    /\ faults = 0

(***************************************************************************)
(* The coordinator.                                                        *)
(***************************************************************************)

\* A new entry becomes the session's, its drain forked.
Start(f) ==
    LET e == made + 1 IN
    /\ made < MaxEntries
    /\ made' = e /\ active' = e
    /\ pc' = [pc EXCEPT ![e] = "ready"]
    /\ force' = [force EXCEPT ![e] = f]

\* The bug of a wake that does not wait for the entry that is stopping.
WakeBeside ==
    \/ /\ active # 0 /\ ~stopping[active] /\ made < MaxEntries
       /\ pendingWake' = [pendingWake EXCEPT ![active] = TRUE]
       /\ UNCHANGED << active, made, pc, force >>
    \/ /\ active # 0 => stopping[active]
       /\ Start(FALSE)
       /\ UNCHANGED pendingWake

\* The bound also leaves room for the entry of a follow-up.
wake ==
    \/ /\ active # 0 /\ made < MaxEntries
       /\ pendingWake' = [pendingWake EXCEPT ![active] = TRUE]
       /\ UNCHANGED << active, made, pc, force >>
    \/ /\ active = 0
       /\ Start(FALSE)
       /\ UNCHANGED pendingWake

Run(r) ==
    /\ ask[r] \in {"new", "again"}
    /\ \/ /\ active # 0
          /\ ask' = [ask EXCEPT ![r] = IF stopping[active] THEN "behind" ELSE "joined"]
          /\ on' = [on EXCEPT ![r] = active]
          /\ UNCHANGED << active, made, pc, force >>
       \/ /\ active = 0
          /\ Start(TRUE)
          /\ ask' = [ask EXCEPT ![r] = "joined"]
          /\ on' = [on EXCEPT ![r] = made + 1]
    /\ UNCHANGED << inbox, done, pendingWake, stopping, promotion, cutoff, batch, fresh,
                    more, step, post, halt, target, owed, faults >>

\* `andThen(run)` runs only when the entry it waited behind succeeded.
Answer(r) ==
    /\ ask[r] \in {"joined", "behind"}
    /\ done[on[r]] # "open"
    /\ ask' = [ask EXCEPT ![r] = IF @ = "behind" /\ done[on[r]] = "ok" THEN "again" ELSE done[on[r]]]
    /\ on' = [on EXCEPT ![r] = 0]
    /\ UNCHANGED << inbox, entries, drain, post, halt, target, owed, faults >>

Interrupt(k) ==
    /\ halt[k] = "new"
    /\ \/ /\ active = 0
          /\ halt' = [halt EXCEPT ![k] = "returned"]
          /\ UNCHANGED << pendingWake, stopping, target, owed >>
       \/ /\ active # 0
          /\ halt' = [halt EXCEPT ![k] = "waiting"]
          /\ target' = [target EXCEPT ![k] = active]
          /\ stopping' = [stopping EXCEPT ![active] = TRUE]
          /\ pendingWake' = [pendingWake EXCEPT ![active] = FALSE]
          /\ owed' = {}
    /\ UNCHANGED << inbox, active, made, done, drain, post, ask, on, faults >>

Interrupted(k) ==
    /\ halt[k] = "waiting"
    /\ pc[target[k]] = "off"
    /\ halt' = [halt EXCEPT ![k] = "returned"]
    /\ target' = [target EXCEPT ![k] = 0]
    /\ UNCHANGED << inbox, entries, drain, post, ask, on, owed, faults >>

\* The bugs of settling without a look at the wakes, and of a promise that a
\* failed drain never answers.
SettleDropsWake(e, exit) ==
    /\ active' = 0
    /\ pc' = [pc EXCEPT ![e] = "off"]
    /\ done' = [done EXCEPT ![e] = exit]
    /\ owed' = IF exit = "ok" THEN owed ELSE {}
    /\ UNCHANGED << made, pendingWake, force >>

SettleLeavesPromise(e, exit) ==
    /\ active' = 0
    /\ pc' = [pc EXCEPT ![e] = "off"]
    /\ done' = IF exit = "ok" THEN [done EXCEPT ![e] = exit] ELSE done
    /\ owed' = IF exit = "ok" THEN owed ELSE {}
    /\ UNCHANGED << made, pendingWake, force >>

\* A follow-up that nobody called off takes the same entry after a success and
\* a new one after anything else; without one the entry is gone.
settle(e, exit) ==
    \/ /\ exit = "ok" /\ ~stopping[e] /\ pendingWake[e]
       /\ pendingWake' = [pendingWake EXCEPT ![e] = FALSE]
       /\ pc' = [pc EXCEPT ![e] = "ready"]
       /\ force' = [force EXCEPT ![e] = FALSE]
       /\ UNCHANGED << active, made, done, owed >>
    \/ /\ ~(exit = "ok" /\ ~stopping[e])
       /\ pendingWake[e]
       /\ made < MaxEntries
       /\ made' = made + 1 /\ active' = made + 1
       /\ pc' = [pc EXCEPT ![e] = "off", ![made + 1] = "ready"]
       /\ force' = [force EXCEPT ![made + 1] = FALSE]
       /\ done' = [done EXCEPT ![e] = exit]
       /\ UNCHANGED << pendingWake, owed >>
    \/ /\ ~pendingWake[e]
       /\ active' = 0
       /\ pc' = [pc EXCEPT ![e] = "off"]
       /\ done' = [done EXCEPT ![e] = exit]
       /\ owed' = IF exit = "ok" THEN owed ELSE {}
       /\ UNCHANGED << made, pendingWake, force >>

(***************************************************************************)
(* The drain.                                                              *)
(***************************************************************************)

hasPending(kind) ==
    {p \in Prompts : row[p] # None /\ p \notin visible /\ row[p].delivery = kind}

\* The bug of a batch in no order.
AnyOf(ps) == ps

Oldest(ps) == {p \in ps : \A q \in ps : row[p].seq <= row[q].seq}

At(e, stage) == pc[e] = stage /\ ~stopping[e]
Goto(e, stage) == pc' = [pc EXCEPT ![e] = stage]

Begin(e) ==
    /\ At(e, "ready")
    /\ Goto(e, "steers?")
    /\ UNCHANGED << inbox, entries, force, promotion, cutoff, batch, fresh, more, step,
                    callers, owed, faults >>

LookForSteers(e) ==
    /\ At(e, "steers?")
    /\ \/ /\ hasPending("steer") # {}
          /\ promotion' = [promotion EXCEPT ![e] = "steer"]
          /\ Goto(e, "attempt")
       \/ /\ hasPending("steer") = {}
          /\ Goto(e, "queue?")
          /\ UNCHANGED promotion
    /\ UNCHANGED << inbox, entries, force, cutoff, batch, fresh, more, step,
                    callers, owed, faults >>

\* The bug of a wake that calls the provider with nothing to promote.
LookForQueuedForces(e) ==
    /\ At(e, "queue?")
    /\ promotion' = [promotion EXCEPT ![e] = IF hasPending("queue") = {} THEN "none" ELSE "queue"]
    /\ Goto(e, "attempt")
    /\ UNCHANGED << inbox, entries, force, cutoff, batch, fresh, more, step,
                    callers, owed, faults >>

LookForQueued(e) ==
    /\ At(e, "queue?")
    /\ \/ /\ hasPending("queue") # {}
          /\ promotion' = [promotion EXCEPT ![e] = "queue"]
          /\ Goto(e, "attempt")
       \/ /\ hasPending("queue") = {} /\ force[e]
          /\ promotion' = [promotion EXCEPT ![e] = "none"]
          /\ Goto(e, "attempt")
       \/ /\ hasPending("queue") = {} /\ ~force[e]
          /\ Goto(e, "ending")
          /\ UNCHANGED promotion
    /\ UNCHANGED << inbox, entries, force, cutoff, batch, fresh, more, step,
                    callers, owed, faults >>

\* One provider attempt: what is admitted after the cutoff waits for the next.
Attempt(e) ==
    /\ At(e, "attempt")
    /\ fresh' = [fresh EXCEPT ![e] = FALSE]
    /\ \/ /\ promotion[e] = "none"
          /\ Goto(e, "provider")
          /\ UNCHANGED cutoff
       \/ /\ promotion[e] # "none"
          /\ cutoff' = [cutoff EXCEPT ![e] = seq]
          /\ Goto(e, IF promotion[e] = "queue" THEN "next" ELSE "select")
    /\ UNCHANGED << inbox, entries, force, promotion, batch, more, step,
                    callers, owed, faults >>

promoteNextQueued(e) ==
    /\ At(e, "next")
    /\ batch' = [batch EXCEPT ![e] = Oldest(hasPending("queue"))]
    /\ Goto(e, IF hasPending("queue") = {} THEN "select" ELSE "open")
    /\ UNCHANGED << inbox, entries, force, promotion, cutoff, fresh, more, step,
                    callers, owed, faults >>

\* The bug of a cutoff that leaves out the last admission.
SteersBelowCutoff(e) ==
    /\ At(e, "select")
    /\ batch' = [batch EXCEPT ![e] = {p \in hasPending("steer") : row[p].seq < cutoff[e]}]
    /\ Goto(e, "publish")
    /\ UNCHANGED << inbox, entries, force, promotion, cutoff, fresh, more, step,
                    callers, owed, faults >>

promoteSteers(e) ==
    /\ At(e, "select")
    /\ batch' = [batch EXCEPT ![e] = {p \in hasPending("steer") : row[p].seq <= cutoff[e]}]
    /\ Goto(e, "publish")
    /\ UNCHANGED << inbox, entries, force, promotion, cutoff, fresh, more, step,
                    callers, owed, faults >>

\* The rows are published in the order they were read; one promoted meanwhile
\* is left as it is.
publish(e) ==
    /\ At(e, "open") \/ At(e, "publish")
    /\ \E p \in Oldest(batch[e]) :
         /\ visible' = visible \cup {p}
         /\ batch' = [batch EXCEPT ![e] = @ \ {p}]
    /\ fresh' = [fresh EXCEPT ![e] = TRUE]
    /\ Goto(e, IF pc[e] = "open" THEN "select" ELSE "publish")
    /\ UNCHANGED << seq, row, entries, force, promotion, cutoff, more, step,
                    callers, owed, faults >>

\* New user input resets the agent's allowance of steps.
Assemble(e) ==
    /\ At(e, "publish") /\ batch[e] = {}
    /\ Goto(e, "provider")
    /\ step' = [step EXCEPT ![e] = IF fresh[e] THEN 1 ELSE @]
    /\ UNCHANGED << inbox, entries, force, promotion, cutoff, batch, fresh, more,
                    callers, owed, faults >>

\* The last step is given no tools, so it asks for no other.
Turn(e) ==
    /\ At(e, "provider")
    /\ \E m \in BOOLEAN :
         /\ m => step[e] < Steps
         /\ more' = [more EXCEPT ![e] = m]
    /\ step' = [step EXCEPT ![e] = @ + 1]
    /\ promotion' = [promotion EXCEPT ![e] = "steer"]
    /\ Goto(e, "continue?")
    /\ UNCHANGED << inbox, entries, force, cutoff, batch, fresh,
                    callers, owed, faults >>

Continue(e) ==
    /\ At(e, "continue?")
    /\ Goto(e, IF more[e] \/ hasPending("steer") # {} THEN "attempt" ELSE "idle?")
    /\ UNCHANGED << inbox, entries, force, promotion, cutoff, batch, fresh, more, step,
                    callers, owed, faults >>

Idle(e) ==
    /\ At(e, "idle?")
    /\ \/ /\ hasPending("queue") # {}
          /\ promotion' = [promotion EXCEPT ![e] = "queue"]
          /\ step' = [step EXCEPT ![e] = 1]
          /\ Goto(e, "attempt")
       \/ /\ hasPending("queue") = {}
          /\ Goto(e, "ending")
          /\ UNCHANGED << promotion, step >>
    /\ UNCHANGED << inbox, entries, force, cutoff, batch, fresh, more,
                    callers, owed, faults >>

\* The drain's variables go with it, and of an entry only its promise is left.
Forget(e) ==
    /\ stopping' = [stopping EXCEPT ![e] = FALSE]
    /\ promotion' = [promotion EXCEPT ![e] = "none"]
    /\ cutoff' = [cutoff EXCEPT ![e] = 0] /\ step' = [step EXCEPT ![e] = 1]
    /\ batch' = [batch EXCEPT ![e] = {}]
    /\ fresh' = [fresh EXCEPT ![e] = FALSE] /\ more' = [more EXCEPT ![e] = FALSE]

Leave(e, exit) ==
    /\ settle(e, exit)
    /\ Forget(e)
    /\ UNCHANGED << inbox, callers >>

End(e) == pc[e] = "ending" /\ Leave(e, "ok") /\ UNCHANGED faults

\* The session is gone or has moved, the model or the provider fails, or the
\* user declines what a tool asked.
Fail(e) ==
    /\ At(e, "ready") \/ At(e, "attempt") \/ At(e, "provider")
    /\ faults < MaxFaults
    /\ faults' = faults + 1
    /\ \E exit \in {"failed", "interrupted"} : Leave(e, exit)

Unwind(e) ==
    /\ pc[e] # "off" /\ stopping[e]
    /\ Leave(e, "interrupted")
    /\ UNCHANGED faults

(***************************************************************************)
(* Senders.                                                                *)
(***************************************************************************)

\* The bug of a resend that takes any row for its own.
FoundAny(s) == IF Sends[s].resume THEN "wake" ELSE "sent"

\* What `prompt` does with a row it finds.
Found(s) ==
    LET x == Sends[s] IN
    IF row[x.id].delivery # x.delivery THEN "conflict"
    ELSE IF x.resume THEN "wake" ELSE "sent"

Find(s) ==
    /\ post[s] = "new"
    /\ post' = [post EXCEPT ![s] = IF row[Sends[s].id] = None THEN "absent" ELSE Found(s)]
    /\ UNCHANGED << inbox, entries, drain, ask, on, halt, target, owed, faults >>

\* The admission event and its row are one transaction; if another sender's row
\* came in between, it fails and the row is read.
admit(s) ==
    LET x == Sends[s] IN
    /\ post[s] = "absent"
    /\ \/ /\ row[x.id] = None
          /\ seq' = seq + 1
          /\ row' = [row EXCEPT ![x.id] = [seq |-> seq + 1, delivery |-> x.delivery]]
          /\ post' = [post EXCEPT ![s] = IF x.resume THEN "wake" ELSE "sent"]
       \/ /\ row[x.id] # None
          /\ post' = [post EXCEPT ![s] = Found(s)]
          /\ UNCHANGED << seq, row >>
    /\ UNCHANGED << visible, entries, drain, ask, on, halt, target, owed, faults >>

Wake(s) ==
    /\ post[s] = "wake"
    /\ wake
    /\ post' = [post EXCEPT ![s] = "sent"]
    /\ owed' = owed \cup {Sends[s].id}
    /\ UNCHANGED << inbox, done, stopping, promotion, cutoff, batch, fresh, more, step,
                    ask, on, halt, target, faults >>

\* The process dies and is started again.
Crash ==
    /\ faults < MaxFaults
    /\ faults' = faults + 1
    /\ active' = 0
    /\ pc' = [e \in Entry |-> "off"]
    /\ IF active = 0 THEN UNCHANGED << stopping, promotion, cutoff, batch, fresh, more, step >>
                     ELSE Forget(active)
    /\ owed' = {}
    /\ on' = [r \in Resumers |-> 0] /\ target' = [k \in Stoppers |-> 0]
    /\ post' = [s \in Senders |-> IF post[s] \in {"absent", "wake"} THEN "new" ELSE post[s]]
    /\ ask' = [r \in Resumers |-> IF ask[r] \in {"joined", "behind", "again"} THEN "interrupted" ELSE ask[r]]
    /\ halt' = [k \in Stoppers |-> IF halt[k] = "waiting" THEN "returned" ELSE halt[k]]
    /\ UNCHANGED << inbox, made, done, pendingWake, force >>

DrainStep(e) ==
    \/ Begin(e) \/ LookForSteers(e) \/ LookForQueued(e) \/ Attempt(e)
    \/ promoteNextQueued(e) \/ promoteSteers(e) \/ publish(e) \/ Assemble(e)
    \/ Turn(e) \/ Continue(e) \/ Idle(e) \/ End(e) \/ Unwind(e)

System ==
    \/ \E e \in Entry : DrainStep(e)
    \/ \E s \in Senders : admit(s) \/ Wake(s)
    \/ \E r \in Resumers : Answer(r) \/ (ask[r] = "again" /\ Run(r))
    \/ \E k \in Stoppers : Interrupted(k)

Next ==
    \/ System
    \/ \E e \in Entry : Fail(e)
    \/ \E s \in Senders : Find(s)
    \/ \E r \in Resumers : Run(r)
    \/ \E k \in Stoppers : Interrupt(k)
    \/ Crash

Spec == Init /\ [][Next]_vars

\* A provider stream ends, and the runtime runs every fiber that can.
FairSpec == Spec /\ WF_vars(System)

(***************************************************************************)
(* Properties.                                                             *)
(***************************************************************************)

\* Two drains never work on the session at once, whatever starts, stops and
\* restarts entries.
OneDrain == \A e, f \in Entry : pc[e] # "off" /\ pc[f] # "off" => e = f

\* When the session goes quiet, no prompt is left behind that somebody woke it
\* for: a wake between a drain's last look at the inbox and its settling starts
\* another.  Only an interruption, a failure or a crash calls a wake off.
NoPromptForgotten == active = 0 => owed \subseteq visible

\* A turn that follows a promotion carries every steer admitted before it.
SteersReachTheTurn ==
    \A e \in Entry : pc[e] = "provider" /\ promotion[e] # "none" =>
        \A p \in hasPending("steer") : row[p].seq > cutoff[e]

\* A drain that nobody forced calls the provider only with new input, or
\* because the turn before asked for it.
NoIdleProviderCall ==
    \A e \in Entry : pc[e] = "provider" => force[e] \/ fresh[e] \/ more[e]

\* An accepted resend finds one row, of the kind its sender asked for.
AnswersAgree ==
    \A s \in Senders : post[s] \in {"wake", "sent"} =>
        row[Sends[s].id] # None /\ row[Sends[s].id].delivery = Sends[s].delivery

\* A queued prompt was promoted and its turn is still to come.
Opening ==
    \E e \in Entry : pc[e] \in {"select", "publish", "provider"} /\ promotion[e] = "queue"
                     /\ fresh[e]

Inbox == INSTANCE SessionInbox WITH opening <- Opening

\* The drain implements the inbox: each prompt is promoted once, in the order of
\* its kind, and one queued prompt at a time.
ImplementsInbox == Inbox!Spec

\* The session comes to rest again and again: whoever resumed or interrupted it
\* is answered, and every prompt it was woken for and not called off is promoted.
EveryoneIsServed ==
    []<>(/\ \A r \in Resumers : ask[r] \in {"new"} \cup Exits
         /\ \A k \in Stoppers : halt[k] # "waiting"
         /\ owed \subseteq visible)
=============================================================================
