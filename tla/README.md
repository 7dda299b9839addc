# Origami Coder: verification project

Origami Coder is a coding agent: an engine (TypeScript on the Effect runtime)
that runs chat sessions against language models, a VS Code extension and
terminal front ends over it, and services that let several engines and their
users share work. This directory holds TLA+ models of the part of it that is
concurrent and owns the program's promises: who runs a turn, who may stop it,
what becomes of the sub-agents it started, how their results come back, how a
prompt gets from the durable inbox into a turn, and how the engine of an idle
chat is stopped and started again without losing a message of a user or a peer.

Each module is translated from the source. The comments name the function they
stand for; `PROJECT.json` maps every definition to its lines. Paths below are
relative to `src/packages/`.

1. [The system](#the-system)
2. [What is modelled](#what-is-modelled)
3. [Runs](#runs)
4. [Fairness](#fairness)
5. [Proofs](#proofs)
6. [What the models found](#what-the-models-found)
7. [What is left out](#what-is-left-out)
8. [Plan](#plan)

## The system

### How the parts fit together

```
 VS Code extension / TUI / web  --ACP, HTTP-->  engine process (one per folder or nest)
                                                  |
   SessionPrompt.prompt --- SessionRunState --- Runner (one per session)
        |                                         |  forks the turn
        |                                     prompt loop -- processor -- provider
        |                                         |  tool calls
        |                                   task / task_stop / shell / edit ...
        |                                         |  start, extend, cancel
        +--- inject, drain, confirm ------- background-job registry (one per process)
             (a result becomes a message)         |  a job's body prompts its own session
                                                  +--> SessionPrompt.prompt of the child
```

A user message becomes a row of the session store and a call of the session's
*runner*, which has at most one turn in flight and lets later callers join it.
The turn is a loop: read the messages, ask the model, run the tools it called,
until the newest user message has a finished answer. The `task` tool makes a
child session and a *job* with the child's id in the job registry; the job's
body prompts the child and waits for its turn. A foreground call waits for the
job; a detached one returns, and the job's result is later queued for the
parent and written into it as a message, which starts or joins a turn of the
parent. Stopping anything walks the tree of jobs under it. These four
mechanisms call one another in both directions, with waits between their
steps, and they are where a rare order of events does harm.

Two more parts share no state with these. The V2 core has its own way from a
prompt to a turn: `core/src/session/input.ts` keeps the prompts of a session in
a table, and `run-coordinator.ts` starts at most one *drain* of it. And the
VS Code extension stops the engine of a chat that is idle (*parks* it) and
starts it on the next use: a gate holds the user's work meanwhile, and what
other chats send is kept in files, the mailbox, that the next engine reads.

### Inventory

The state each component keeps, what it does, and what makes it correct. The
column at the right names the module, or says where the component stands.

| Component | State | Operations and who calls them | Hard behaviour | What makes it correct | Module |
|---|---|---|---|---|---|
| Session turn runner (`engine/src/effect/runner.ts`, `session/run-state.ts`) | per session a runner: Idle, Running, Shell, ShellThenRun; the map of runners; status and queued maps | `ensureRunning` (prompts), `startShell` (`!` commands), `cancel` (stops, clean-ups of jobs), ends of fibers with their `onIdle` | a stop frees the runner before the old fiber has unwound; joins, deferral behind a shell, publishing under the lock | one live turn per runner, a stop is final, every caller gets the answer of the turn it found | `TurnRunner`, `SessionTurns` |
| Background-job registry (`core/src/background-job.ts`) | per id a record: status, pending runs, output, deadline; a `done` Deferred, a scope | `start`, `extend`, `promote`, `cancel`, `settle`, `expire`; watchdog with the session's blocked time | ids are reused; three actors end one job; the deadline moves under a sleeping watchdog | one verdict, of the right run; runs serial; time on a human is not charged | `BackgroundJobs`, `JobLedger` |
| Sub-agent job tree (`cancelTree` and its callers in `tool/task.ts`, `tool/task_stop.ts`, `session/run-state.ts`) | jobs, parents, turns; each walk's snapshot and set of done ids | turn stop, stop by name, expiry, clean-up of a first run, abort of a foreground call | walks that set off further walks, over a registry that changes while they wait | a walk reaches what it listed; no foreground orphan; no turn outlives its job; detached work is spared | `SubagentTree` |
| Background result delivery (`tool/task.ts`, `session/task-result.ts`) | queue and drainer claim per parent, the parent's messages | `inject`, `drain`, `deliver`, the confirmation; the parent's loop reads | writes that fail half way, turns that end between a check and a write, late confirmation | one drainer, no result lost, unread ones followed up once | `TaskDelivery` |
| Session run coordinator and inbox (`core/src/session/run-coordinator.ts`, `input.ts`, `execution.ts`) | per session an execution with `pendingWake`, `stopping`, a successor; rows of admitted prompts | `run`, `wake`, `interrupt`, settle; admit, promote | a wake between the last read and the settling; an admission repeated after a lost answer | no lost wake, one drain, a prompt promoted once | `SessionDrain`, `SessionInbox` |
| Prompt loop and stream processor (`engine/src/session/prompt.ts`, `processor.ts`, `compaction.ts`, `continue-nudge.ts`, `retry.ts`) | messages and parts, the current step | passes of the loop, stream events, compaction, retries of a request | a message written between a step's read and its id; a stream that breaks | every user message is answered or refused | what it reads is inside `TaskDelivery`; rest planned |
| Session store (`engine/src/session/session.ts`, `revert.ts`, `summary.ts`, `todo.ts`) | rows of sessions, messages, parts | create, fork, remove (recursing over children), revert | removal beside turns and deliveries | no row or queue of a removed session comes back | planned |
| Session status (`session/status.ts`, `turn-end.ts`) | status key and queued count | `set`, `bumpQueued`, listeners | the idle event is published before the key goes | busy iff a turn is admitted | steps of `TurnRunner` |
| Event log (`core/src/event.ts`, `session/projector.ts`, `engine/src/event-v2-bridge.ts`) | per aggregate a sequence of events, live subscribers | publish, replay, follow | a wake-up between read and wait; live events racing the replay | a follower sees each event once, in order | planned |
| Permissions (`engine/src/permission/index.ts`, `arity.ts`, `core/src/permission.ts`) | pending asks, approvals, blocked time | ask, reply, refresh, unattended time-out | refresh waits while replies remove entries | each ask answered once | the blocked clock is in `BackgroundJobs`; rest planned |
| Questions (`engine/src/question/index.ts`, `core/src/question.ts`, `session/subagent-question.ts`) | pending questions | ask, reply, reject, cancel | as permissions | as permissions | planned |
| Interjections (`engine/src/origami/interject.ts`) | waiters | signal, wait | — | a signal reaches every waiter | planned |
| Provider access (`engine/src/provider/provider.ts`, `session/llm.ts`, `provider-queue.ts`, `usage-limit.ts`) | permits, cached clients | acquire, stream, release | release on every path | permits bound the requests | not modelled |
| Tools (`tool/registry.ts`, `shell.ts`, `edit.ts`, `truncate.ts`) | none of their own | execute | processes and files | — | not modelled |
| Background shells (`engine/src/background/job.ts`, `tool/shell.ts`) | jobs without a turn; output files | start, cancel | — | as the registry's | through `BackgroundJobs` only |
| Elastic engine (`engine/src/acp/elastic.ts`, `elastic/*.ts`) | idle state, parking flag, spare engines | idle report, park, unpark, warm wake | the idle check and the flag against new prompts and mail | no turn in an engine that stops | `ElasticPark` |
| Peer agents and mailbox (`engine/src/origami/agent-broker.ts`, `agent-mailbox.ts`, `session/agent-post.ts`, `peer-message.ts`) | kept bodies, claims | post, keep, claim, drain, sweep, restore | a reader that dies between claim and admission; keep racing restore | a body is admitted at most once | `Mailbox`, `KeptMail` |
| Extension: parking chats (`vscode/src/elastic/*.ts`, `dashboard/engineGate.ts`) | per chat the gate's stage and held work; parked chats, timers | park, bring back, wake, retry, close | a late park answer, an exit or a close during any step | a ready chat is served; held work goes, in order | `ElasticPark` |
| Extension: ACP client and side bar (`vscode/src/acpClient.ts`, `extension.ts`, `engineShutdown.ts`) | connections, views | — | — | — | not modelled |
| ACP service (`engine/src/acp/service.ts`, `agent.ts`, `session.ts`, `event.ts`) | subscriptions | translate requests and events | — | — | not modelled |
| HTTP server and SDK (`engine/src/server`, `server/src`, `sdk/js`) | none | routing, encoding | — | — | not modelled |
| Nests: hand-over and run lease (`engine/src/storage/nests-handover.ts`, `nests.ts`, `acp/nests.ts`) | heartbeat rows, stop requests | beat, release, claim, hand over | an engine slow but alive beats after its row went | one engine owns a chat | planned |
| Storage, journal, retention (`engine/src/storage/*.ts`, `core/src/database`) | files, SQL rows | read, write, compact | compaction beside writers | nothing retained is lost | not modelled |
| Locks between processes (`core/src/util/flock.ts`, `spawn-lock.ts`, `engine/src/flock/owner-lease.ts`, `core/src/effect/keyed-mutex.ts`) | lock directories and files | acquire, beat, break stale, release | take-over of a holder that is only slow | one holder | planned |
| Flock (`engine/src/flock/*.ts`) | contacts, mail in and out | ask, answer, deliver | repeated and reordered deliveries | a question is answered once | planned |
| Relay (`engine/src/relay/*.ts`) | a ring of frames per room, two sockets | push, replay, pair | one role's frames evict the other's | replay is complete or refused | planned |
| Collaboration runs (`engine/src/collab/*.ts`) | rooms, rounds | run, stop, vote | stops between rounds | — | later |
| Session goals and cache warming (`session/goal.ts`, `cache-warm.ts`, `cache-state.ts`) | timers | — | timers beside turns | — | later |
| Snapshots and worktrees (`snapshot`, `worktree`) | git state | — | external processes | — | not modelled |
| Instances and projects (`project/*.ts`, `effect/instance-state.ts`) | cache of scopes | get, dispose | — | — | not modelled |
| MCP, LSP, plugins and skills | external processes | — | — | — | not modelled |
| Terminal and web interfaces (`tui`, `ui`) | views | — | — | — | not modelled |
| Schema, protocol, code mode and libraries | none | — | — | — | not modelled |

The places where this code can go wrong in a way a test would hardly reach are
listed under `hazards` in `PROJECT.json`, each with its line and the properties
that watch it; four of the planned components are listed with the reason why
none does yet.

## What is modelled

Each module is one component with its own variables; the calls between them are
represented in each by what the other side may do (a stop in `SubagentTree` ends
a turn in one step, where `TurnRunner` has all of its steps). One rule holds
of all: what the code does without waiting is one action, and what waits is
several. Effect's scheduler also switches fibers after a budget of operations,
between any two steps; where that makes a difference the constant `Preempt`
selects it (in the first three modules). `Preempt = FALSE` is cooperative
scheduling exactly as written: `Yielded` disables every step of another fiber
while one is at a point it leaves without waiting, except what that step itself
resumes: opening a `Deferred` runs the fiber that awaits it, up to its next wait,
inside the step that opens it. The theorems hold for both settings, but for two
of `BackgroundJobs` that say so.

### `TurnRunner` — one session's turns and shell commands

| Variables | Code |
|---|---|
| `runners`, `made` | `data.runners.get(sessionID)` in `run-state.ts`; the instances made so far (the map drops and remakes them) |
| `run[r]`, `shell[r]`, `lock[r]` | the state in the runner's `SynchronizedRef` (Idle is None/None, ShellThenRun is both), and who holds the ref across a wait |
| `fiber`, `exit`, `done`, `ready` | each work's fiber and its exit, the turn's Deferred, the shell's latch |
| `call`, `via`, `awaits`, `stopShell`, `stopRun` | each call's stage and the locals it carries across waits |
| `status`, `queued` | `SessionStatus` |

`Lookup`, `Join`, `Defer`, `StartRun`, `BumpQueued` are `runner` and
`ensureRunning`; `RefuseShell`, `AdmitShell`, `StartShell` are `startShell`,
which publishes a status while it holds the ref; `Begin` to `Unwound` are the
body; `FinishRun`, `FinishShell`, `FinishIdle`, `FinishPublished`, `Complete`
are the ends of a fiber with `onIdle`; `StopNothing` to `StopPublished` are
`SessionRunState.cancel`. Calls are names: a call of `ensureRunning`, the work
it brings, its fiber and its Deferred share one.

`SessionTurns` is what a session promises whoever prompts or stops it. It has
lanes, works and answers, and neither fibers nor locks nor the stages of a stop:
works take turns on a lane; a prompt becomes a turn or joins the one it finds;
its answer is a result exactly when that turn's body ended by itself, even if a
stop came beside it, and a cancellation only when a stop took the turn before
and its body is over. `ImplementsTurns` is the refinement; a lane is a runner,
and what a fiber is at is seen as its body working, ended or cut short (`Body`).

### `BackgroundJobs` — one id of the registry

The id is started again and again; `cur` is the generation that
`jobs.get(id)` holds (the record's `token`), and each older generation keeps its
run fibers and its watchdog, which act late. `status`, `pending`, `next`,
`output`, `background` and `deadline` are the record's fields; `done` and `open`
its Deferred and its scope; `run`/`result` the fiber of each run of the chain;
`dog`, `credited`, `wake` the watchdog. `now`, `asking` and `blocked` are the
clock, whether a permission ask is open, and the session's `blockedMs`.
`armed` and `ended` are history variables for one property.

`Start`, `Extend`, `Promote` and `Cancel` are the calls. `Fork`, `Proceed`,
`BodyEnds`, `Unwound` and `Settle` are a run; when a run leaves, its tail resumes
the run behind it before it settles (`HandedOver`), also when it failed: that next
body is entered, and may even end without a wait (`InHandOver`), while the job
still runs, and is interrupted when the failure is settled. `NoBodyAfterTheEnd`
says that this hand-over is the only way in behind a failure and that nothing
entered through it goes on. `Resolve` and `CloseScope` are the end
of a job; the `Watch...` actions and `Expire` the loop of the watchdog, one per
arm. Every generation has a ceiling, as every sub-agent has.

`JobLedger` is what the registry promises whoever starts, extends, stops or
waits for a job. It has no fibers, no clock and no count: a generation has the
runs it `accepted` and the set of those that `returned`, is completed at the
return of the last of them and at no other moment, may be stopped at any time
before, and after that only tells its waiters its one verdict.
`ImplementsLedger` is the refinement; `pending`, by which the code decides, is
not in it.

### `SubagentTree` — stopping a tree of sub-agents

The kids and their parents are constants, the depth and shape of the tree;
`Restarts` are the kids whose job may be started again.
`gen`, `run`, `detached` and `queued` are each kid's job; `turn[s]` says who
started the session's turn. A *walker* is one execution of `cancelTree`, named
by its caller's kind, its target and the generation it cleans up after; `phase`,
`listed`, `gone` and `waits` are its locals.

A walk takes its list of the running jobs once (`List`), then cancels in rounds
(`Walk`) whatever of the list is under what it has cancelled, and waits in
between for the clean-ups of the first runs it interrupted, which are walks
themselves. Cancels go by id, so they hit whatever job has the id by then.
`Finish` stops the target's turn, except after a stop by name.

Simplifications: the cancels of one round are issued together (the code runs
them concurrently and waits for all); a body's start and its turn's start are
one step, and so are a turn's end and the settling of the body that waits for
it; a foreground call is outstanding exactly while its job runs and is not
detached; each session is stopped at most once per kind of stop; `Prompt` is a
message of the user or a delivered result alike.

### `TaskDelivery` — results reaching their parent

`queue` and `claimed` are `pendingResults` and `draining` of one parent.
Each result has two fibers, the one that queued it and the confirmation its
batch may arm; `pc`, `batch`, `msg`, `busy` and `tries` are their locals.
`stored` is the parent's messages by id and `phase`, `window`, `open`,
`lastAsst`, `seen` the parent's turn: what a pass read, whether the newest
assistant message is a finished answer, its id, and what some step has read.
`turnless` marks the messages the writer knows to have had no turn.

`Post` is `inject` up to `claimDrainer`; `Peek`, `Write`, `Join`, `Landed`,
`Failed`, `FallbackLands`, `FallbackFails`, `Retry`, `PeekNothing` and
`StandDown` are `drain` and `deliver`; `SeesIdle`, `GivesUp` and `Check` are the
confirmation; `Read`, `Step`, `StepEnds`, `TurnEnds`, `Stop`, `TurnFails` and
`Prompt` are the loop of the parent and what happens to it. `FaultKinds` says
how a write may fail: `none` leaves nothing behind, `part` leaves the message
row without its text, `late` leaves the whole message and fails afterwards.

Simplifications: the queue is a set of identities, since no property is about
the order of results in a message; the second `releaseDrainer`, of the
`ensuring` around `drain`, runs at once after the first and is one step with it;
`injectLock` is taken by the drainer alone and is left out; reads of the store
do not fail; the parent runs no shells and is not removed.

### `SessionDrain` — the inbox of a V2 session and who drains it

| Variables | Code |
|---|---|
| `seq`, `row`, `visible` | the session's sequence and its rows of `session_input`; those with a `promoted_seq` |
| `active`, `made`, `done`, `pendingWake`, `stopping` | the coordinator's entry for the session, the entries made so far, and each entry's fields |
| `pc`, `force`, `promotion`, `cutoff`, `batch`, `fresh`, `more`, `step` | each entry's drain: the locals of `run` in `runner/llm.ts` |
| `post`, `ask`, `on`, `halt`, `target` | where each sender, resumer and stopper is, and the entry it waits for |
| `owed` | the prompts the session was woken for and that no interruption, failure or crash called off |

`Find`, `admit` and `Wake` are a sender (`input.ts` `admit`, then `wake`); `Run`
and `Answer` a resumer; `Interrupt` and `Interrupted` a stopper. `Begin` to
`Idle` are one drain, each read of the store a step of its own: it looks for
steers, then for a queued prompt; an attempt promotes one queued prompt
(`promoteNextQueued`) and the steers up to the cutoff, which it publishes row by
row (`promoteSteers`, `publish`); `Turn` calls the provider; `Continue` asks for
another step. `settle` is part of whatever ends a drain. `Crash` is the death of
the process: the table survives, the coordinator does not, and a sender without
an answer sends again.

`SessionInbox` is what the table promises whoever reads it: a prompt is admitted
once, becomes visible once, in the order of its kind, and a queued one never
before the turn of the queued one before it. `ImplementsInbox` is the
refinement; `opening`, whether such a turn is to come, is read off the drain.

Compaction, which repeats an attempt and promotes nothing, what a turn writes,
and the sequence numbers of events other than admissions are left out.

### `Mailbox` — mail for a chat whose engine is stopped

| Variables | Code |
|---|---|
| `phase`, `cut` | the chat: live, parking (flag set), withdrawn (no longer listed), parked, waking, unparking, failed, closed; the POSTs under way to an engine that is gone |
| `body`, `claimed`, `stamp`, `clock` | the files of `agent-mailbox.ts`, the claims beside them, the deposit time in each name |
| `send`, `unheard` | how far each copy of a message is on its way: the *request*, which is POSTed, and the *letter*, which the sender keeps for a chat without an engine; the POSTs whose sender no longer waits |
| `at`, `left`, `cur`, `late` | each drain: its step, the names it read, the file in hand, whether it is the late one |
| `sweep`, `swept` | the sweep another engine runs when it starts |
| `turns`, `failed`, `faults` | how often the session got each copy; bodies that stay for the next reader; what the bound counts |

Every file operation is a step. A sender looks the chat up and posts (`Locate`).
The engine serves the request (`Serve`: a turn; a file, if it is parking; a
refusal, if that file cannot be written or the engine is gone), whether or not
its sender still waits. For the sender waits two seconds (`GiveUp`,
`POST_TIMEOUT_MS`), and a POST that failed in any way counts as not arrived: it
goes on to keep the body (`FallBack`, `tool/agents.ts:262`), looks *again*, and
may take it back if the chat is gone (`Seek` to `UnclaimBack`). So an unheard
message exists twice, and no file or claim connects the two. A drain lists,
claims, reads, admits, deletes or releases (`List` to `Ends`) and runs a second
time after `LATE_DRAIN_MS` (`LateDrain`). An engine that is parking keeps what
is admitted to it as another file. Senders and engines die between any two
steps, deletions and admissions fail.

`KeptMail` is the promise for each copy: `fate` (unsent, kept, read, back, lost)
only moves forward, and what a sender was `told` of it is final and true of the
fate; the answer to a POST that nobody waits for tells nothing.
`ImplementsKeptMail` maps the files, hands and counts to it. Between the two
copies `AtMostOnce` and `AnswersAreTrue` promise what the code does: nothing, if
the sender gave up on its POST, and otherwise that one of them at most is read,
and none that was refused.

Simplifications: `LATE_DRAIN_MS` is longer than a sender needs from its lookup
to its deposit (the code's own assumption); a claim may be found stale at any
time; a deposit (write and rename) is one step; a request that an engine has
accepted counts as read, although the prompt it forked may fail
(`handlers/session.ts:369-380`); the in-memory ledger of duplicates and
half-written bodies are left out.

### `ElasticPark` — parking a chat and bringing it back

| Variables | Code |
|---|---|
| `stage`, `work`, `came`, `arrivals` | the gate of `engineGate.ts`: its stage, what became of each prompt, interjection and call, and in which order they came |
| `wake`, `closed`, `park`, `back`, `undo`, `late` | the client's `wake`, whether the chat is closed, where `parkChat` and `bringBack` are, the undoing of a park, an ask that failed or ran out of time |
| `proc`, `open`, `flag`, `req`, `op`, `aside`, `standIn` | the process; the session open in it, its PARKING flag, the requests it has yet to serve and the step it is at, a prompt that nobody gated (accepted, or a turn by now), the stand-in file |
| `missed` | history: the last idle check passed while that prompt was accepted and not yet a turn |
| `parkAns`, `unparkAns` | answers that reached the extension |

`Give`, `Call`, `TurnEnds`, `Drop`, `Retry`, `WakeUp` are the gate and what
opens it; `BeginPark`, `WriteStandIn`, `UndoPark`, `Reregister`,
`LeaveParking`, `Exit` and `Crash` the engine, which serves its requests one at
a time and may be slow; `AsideComes` a peer's prompt that the engine accepts
(`promptAsync` asks for the PARKING flag once), `AsideStarts` its turn, which
begins some waits later (`prompt.ts:1451`) and only then makes the engine busy;
`ParkChat`,
`Refused`, `Parked`, `AskFails` the park; `UnparkFirst` to `StartFails` the
restore, from undoing the park (`KeepEngine`) to a new process (`Spawn`,
`Resume`, `SettingsMade`); `Close` the end of the chat at any of these points.

Assumptions: the exit of a process is seen after the answers it gave; a close
does not fall between callbacks that run without a wait in between; a process
told to exit is gone before a limit of 30 s runs out. The first start of a chat,
chats whose start is deferred, adopted spare engines, the parking of a host
engine and the warm wake's own message are left out; of the engine's idle report
only whether a turn runs. Mail is `Mailbox`'s subject: here it starts a turn or
wakes the chat.

## Runs

Each MC module gives only constants and, where sound, a symmetry set or a
constraint. Two constraints break a symmetry (`PromptsInOrder` in
`MCElasticPark`, `DrainsInOrder` in `MCMailbox`: things that differ in nothing
but their names are taken in one order). One is a bound: `FewReaders` in
`MCMailbox` follows a message whose sender gave up on its POST only with one
drain at a time and no sweep; the theorems have no such bound. Runs that
expect a violation check one statement the repository makes about itself.

| Run | Bounds | Checks | Shows |
|---|---|---|---|
| `turn_turns` | 3 runners, 2 prompts, 1 shell, 1 stop, preemption, fair | `NoRunawayFiber` `StopIsFinal` `NoLostCaller` `ImplementsTurns` `StopReturns` `OnlyWorkKeepsCallersWaiting` | one turn at a time; a stop returns and is final; every prompt is answered with what became of its turn |
| `turn_probe` | 3 runners, 3 prompts, 1 shell, 1 stop, cooperative | `ProbeSeesEveryTurn`, violated | a late `onIdle` hides a running turn |
| `jobs` | 2 generations, 2 runs, ceiling 1, callers until 1, 4 ticks, cooperative, fair | `CompletedAnswersAll` `RunsAreSerial` `ExpiredOnItsOwnTime` `ImplementsLedger` `NoBodyAfterTheEnd` `ArmedJobEnds` `NothingOutlivesItsJob` | the chain of runs, its verdict and the watchdog, with late fibers of an older generation; the ledger is implemented |
| `jobs_credit` | 2 generations, 1 run, 7 ticks | `CreditIsOwnBlockedTime`, violated | a restarted job inherits blocked time |
| `tree_stops` | chat, kid, grandkid; the kid started up to twice, 1 extension, cooperative, fair | `WalkReachesAll` `JobTurnsEndWithJobs` `NoForegroundOrphan` `StopsReturn` | walks beside restarts and clean-ups end and leave nothing behind |
| `tree_extension` | 1 kid, 1 extension | `StoppedJobsAreQuiet`, violated | a stop during an extension does not stop the turn |
| `delivery` | 2 results, 2 attempts, 4 failed writes, 1 event, fair | `OneDrainer` `LeftQueuedOnlyAfterRetries` `ResultsSurvive` `BusyWritesAreFollowedUp` `WrittenTwiceAtMost` `EveryResultIsWritten` | the claim is never stranded; a result is written, read or followed up, and not over and over |
| `delivery_partial` | 1 result, writes that fail half way | `ResultsSurvive`, violated | a half-written message counts as delivered |
| `drain` | 2 prompts, 3 senders, 1 resumer, 2 stoppers, 4 entries, 1 failure or crash, fair | `OneDrain` `NoPromptForgotten` `SteersReachTheTurn` `NoIdleProviderCall` `AnswersAgree` `ImplementsInbox` `EveryoneIsServed` | no wake is lost, the inbox is implemented, everybody is answered |
| `mail` | 1 message as 2 copies of 2 files, 2 drains (1, and no sweep, once a POST was given up on), 1 fault, fair | `AtMostOnce` `AnswersAreTrue` `ImplementsKeptMail` `MailIsRead` | each copy is read once at most, and one copy only, and the sender is told the truth, unless it did not wait for its POST; kept mail is read |
| `mail_twice` | the same with 2 faults, one of them in the sweep | `AtMostOnce`, violated | a sweep that cannot delete a body makes it new again |
| `parking` | 2 prompts (in one order, as they differ in nothing else), an interjection and a call (3 of them given), 2 parks, 2 faults, 1 prompt of a peer, fair | `StopEndsOnlyTheMissed` `ReadyIsServed` `NobodyOvertakes` `ClosedLeavesNothing` `InterjectionsWait` `HeldWorkGoes` | a park ends no turn but what its idle check could not see; whatever fails, held work goes, in order, to an engine that serves it |

The type invariants (`TypeOK` of each module) are proved, not run.

Why the bounds are enough to be of interest:

- *Turns.* Two prompts and a shell give every pair of states of the runner and a
  prompt for each way to meet it (start, join, defer); a stop can meet each. The
  third runner is for a map entry dropped and remade twice. The probe run needs
  the third prompt: its trace has turns A, B and C.
- *Jobs.* A second generation is all a late fiber of an older one needs, and two
  runs make a chain. The ceiling can fire in each generation; an extension can
  come before and at the first deadline, an ask can be open across it, and four
  ticks leave room for the ceiling to fire after the last call. `MaxSeq` counts
  the first generation's runs; a later one has one fewer.
- *Tree.* Under a stop of the chat there is a grandkid whose parent is itself
  reached by the walk, so its round comes after a wait in which the clean-up of
  the kid above walks the same job; and the kid may be started again between.
- *Delivery.* Two results give a batch, a queue that grows while a batch is
  written, and a drainer that is not the poster. Four failures are two attempts
  at both writes, each leaving nothing or the whole message behind. The event is
  a user message, a stop or a step that goes on.
- *Drain.* Two prompts are one of each kind, or two of one; with three senders
  one is sent twice. Four entries are the first, its successor, and one more
  after each of an interruption and a crash. Two steps of the agent give a turn
  that goes on and one that reaches the limit.
- *Mail.* One message suffices, since messages share no file; a copy of it is
  kept again once by a parking engine, and two drains (of a restored engine,
  first and late) meet on it with a sender that takes it back and a sweep. The
  one fault may be the POST that is answered late: then both copies are about,
  and one drain, first and late, meets them both.
- *Parking.* Two parks let the answer of the first arrive during the second, two
  faults a failed ask and a crash or failed start behind it. Three pieces of work
  put an interjection behind a prompt and a call beside them.

The tree runs check for deadlock. The other specifications may stop for good
(every call made, every bound reached), so their configurations say
`CHECK_DEADLOCK FALSE`.

Every property of a passing run has a mutant in `PROJECT.json`: a definition
replaced by the form a plausible mistake would give it (the operators marked
"the bug of" in the modules), under which the run fails.

## Fairness

Each module has one fairness condition, weak fairness of the actions that the
runtime owes, as a whole (`System`): while one of them is possible, some such
step is taken. Between two steps of the outside world (a call, a
fault) there are finitely many of them, so none is put off for ever; nothing is
assumed of which comes first.

- `TurnRunner`: every step of a call already made, of a forked fiber, and of an
  interrupted body's clean-up. Not the arrival of a caller and not the end of a
  body: a turn may run for ever. `OnlyWorkKeepsCallersWaiting` therefore assumes
  that no body does.
- `BackgroundJobs`: forked fibers, the end of a job, the watchdog's steps and the
  clock. Not the end of a body, an answer to an ask, or any call.
  `ArmedJobEnds` assumes only that asking stops; the ceiling does the rest.
- `SubagentTree`: the steps of a walker. Nothing makes a turn end.
- `TaskDelivery`: the steps of the drainer and of a confirmation, and the
  parent's turn (its model answers). The turn's own end by a stop or a failure is
  not fair. `EveryResultIsWritten` excuses a result only when the writes have
  failed as often as the retries allow.
- `SessionDrain`: the steps of a drain (a provider's stream ends), of a sender
  that has begun, and the answers to resumers and stoppers. Nobody need send,
  resume or interrupt. `EveryoneIsServed` says the session comes to rest again
  and again with nothing owed.
- `Mailbox`: the requests under way, what a sender does behind one that failed,
  the drains, the steps of a park and of a restore, and the wake for mail. No
  sender need give up; nobody need park, close or open a chat, try a failed
  start again, or sweep. `MailIsRead` excuses a body whose reader died with it
  or could not admit it, and a chat that is closed or could not start.
- `ElasticPark`: the engine serves its requests, turns end, the extension goes
  on with a park or restore it began. Nobody need give work, park, close, or
  press Retry, and no fault need happen. `HeldWorkGoes` excuses only a start that
  failed and waits for Retry.

## Proofs

The seven `...Proofs` modules extend the module they are about and are checked by
TLAPS with Z3, Zenon and LS4. A theorem holds for every value of the constants
that satisfies the module's assumptions: any number of prompts, shells and
stops; any number of generations and runs; any tree of kids; any number of
results, retries and failures; any number of senders, messages, drains, parks,
crashes and faults.

| Module | Theorem | Says |
|---|---|---|
| each | `TypeCorrect` | the types |
| `TurnRunnerProofs` | `NoRunaway`, `StopsAreFinal`, `CallersAreNotLost`, `JoinedWorkIsDropped` | `NoRunawayFiber`, `StopIsFinal`, `NoLostCaller`, `DiscardedNeverRuns` (the work of a prompt that joined never starts) |
| | `Implements` | the refinement of `SessionTurns` |
| | `StopsAreServed` | what a stop waits for is the runtime's to do, never a body's (behind `StopReturns`) |
| `BackgroundJobsProofs` | `CompletedJobsAnswerAll`, `BodiesAreSerial` | `CompletedAnswersAll`, `RunsAreSerial` |
| | `Implements` | the refinement of `JobLedger`, under either scheduling |
| | `EndedJobsStayEnded` | the record of a job that ended does not change (`SettledIsFrozen`) |
| | `CeilingIsOwnTime` | `ExpiredOnItsOwnTime`, under cooperative scheduling |
| | `BodiesStopAtTheEnd` | `NoBodyAfterTheEnd`, under cooperative scheduling: the hand-over is the only way in behind a failure, and ends at once |
| | `RunningJobsAreWatched` | a running job has a live watchdog (behind `ArmedJobEnds`) |
| `SubagentTreeProofs` | `WalksReachAll`, `CallsEndWithTurns`, `JobsStopTheirTurns` | `WalkReachesAll`, `NoForegroundOrphan`, `JobTurnsEndWithJobs` |
| | `StopsDoNotDeadlock` | of all the walks under way one has a step to take (behind `StopsReturn`) |
| `TaskDeliveryProofs` | `OneFiberDrains`, `ResultsWaitOnlyAfterRetries` | `OneDrainer`, `LeftQueuedOnlyAfterRetries` |
| | `ResultsAreNotLost`, `BusyWritesAreConfirmed` | `ResultsSurvive`, `BusyWritesAreFollowedUp`, when no write fails half way |
| | `ResultsAreWrittenTwiceAtMost` | `WrittenTwiceAtMost`, however writes fail |
| `SessionDrainProofs` | `OneDrainAtATime`, `NothingForgotten`, `SteersAreCarried`, `ProviderHasInput`, `SendersAgree` | `OneDrain`, `NoPromptForgotten`, `SteersReachTheTurn`, `NoIdleProviderCall`, `AnswersAgree` |
| | `DrainImplementsInbox` | the refinement of `SessionInbox` |
| `MailboxProofs` | `OnceOnly`, `SenderIsToldTheTruth` | `AtMostOnce`, `AnswersAreTrue`, when the sweep can delete: each copy once, one copy of a message, and no refusal contradicted, but for POSTs whose sender did not wait |
| | `Implements` | the refinement of `KeptMail` by every copy, when the sweep can delete |
| `ElasticParkProofs` | `StopsEndOnlyTheMissed`, `ReadyServed`, `NothingLeft`, `InOrder`, `InterjectionsAfterTurns` | `StopEndsOnlyTheMissed`, `ReadyIsServed`, `ClosedLeavesNothing`, `NobodyOvertakes`, `InterjectionsWait` |
| | `HeldWorkIsNotStranded` | what the gate holds waits for Retry, a restore or a turn (behind `HeldWorkGoes`) |

Assumptions on constants: `NamesDistinct` and `PreemptIsBoolean`
(`TurnRunner`: calls of different kinds have different names),
`BoundsAssumption` (`BackgroundJobs`, `TaskDelivery`: the bounds are numbers),
`TreeAssumption` (`SubagentTree`: every kid has a parent among the sessions; the
tree may even have cycles), `DrainAssumption`, `MailboxAssumption` and
`ElasticParkAssumption` (types of the parameters). Two theorems of `TaskDelivery`
add `NoHalfWrites`, that `"part"` is not a kind of failure, and those of
`Mailbox` except the types add `SweepsFail = FALSE`; the runs `delivery_partial`
and `mail_twice` show why. `CeilingIsOwnTime` and `BodiesStopAtTheEnd` add
`Preempt = FALSE`: with preemption, a deadline may move between the watchdog's
verdict and its `expire`, and a stop may come between a run's last wait and its
body, or between a failure and its settlement.

### The arguments

**`TurnRunner`.** None of its invariants is inductive alone: that a live fiber is
its runner's rests on what the runner's state says of fibers, and that a stop
leaves nothing on the work it took being named nowhere else. `IInv` adds to
them: `Fresh` (a call that has not committed to its runner appears nowhere),
`Home` (a runner names only work that came through it; the run behind a shell
has no fiber, any other run one that has not finished), `Locked` (a runner is
Idle while `startShell` publishes under its ref), `Taken` (what a stop took is
on no runner) and `Discarded` (a prompt that joined never becomes a run).
`WaitInv` adds, for `StopsAreServed`, `Publishing` (a ref is held by the shell
that publishes through it, which goes on by itself) and `Latched` (a shell opens
its latch before it can be interrupted in its body, so a stop that waits for the
latch never waits for the command).

The refinement of `SessionTurns` needs to know besides how bodies end (`EndInv`):
a body that was left has an exit (`Exits`); nothing but a stop cuts one short
(`CutByStop`), so a work that leaves its lane ended by itself, as what a stop took
is on no lane (`Taken`); and a turn that ended by itself has been answered before
its fiber is gone (`Answered`), so the stop that waited for that fiber fails a
Deferred that is already settled.

**`BackgroundJobs`.** `IInv` is `TypeOK` with: `Unstarted` (a generation beyond
`cur` is blank), `Slots` (the chain's first `next` slots are used and the rest
are not), `Counted` (while the job runs, `pending` is the number of its unsettled
runs), `Newest` (the output is that of the newest run that returned one),
`Chained` (a body runs only when all before it have left) and
`CompletedMeansAllRan`. `Counted` is the heart: `settle` decides by `left <= 0`,
and only the count of the unsettled runs makes that mean "all have returned".

It also carries the refinement of `JobLedger`: a settle is a `Return`, and
completes the job exactly when the set of returned runs becomes the set of
accepted ones, because the count falls to zero exactly then (`LastIsLast`); the
steps of the watchdog and of the fibers move no variable of the ledger.

For the watchdog, `Accounted` relates a running job's deadline to its history:
it lies after the moment the job was armed by the ceiling and by what was
credited since, or later. A watchdog that has read the clock is `Due` (the
deadline is reached, and what is blocked has been credited when it fires), and
the two together leave a whole ceiling of time off every ask. `Due` holds since
no call moves the deadline between the read and the expiry, and that is where
cooperative scheduling enters. In the same way `Quiet` says that nothing else is
under way between the step that books a run and its fork. For the hand-over,
`Handing` says that the runs which have opened their tails and not settled follow
one another with no gap, that the watchdogs sleep meanwhile, and that what they
resume belongs to a running job: a failed run settles last, when no body behind
it is left to be entered.

**`SubagentTree`.** `Typed` and `Started` say what exists. For the walks:
`CleanedOnce` (a generation is cleaned up after once), `Fresh`, `ListedBefore`
(what is listed was started) and `GoneIsOver` (whatever a walk has marked is
over in the generation it listed, although its cancel may have hit a later one).
At the end of a walk the set `gone` is closed under "listed child of", so it
holds all of `Under(w)`. For the foreground calls: `FiredBefore` and `Held` (a
call that waits has its parent's turn, or an abort listener on its way). For the
turns, `OwnTurns` (the run of an extension has a turn of an extension) keeps
the turn of a first run apart from those that nothing stops.

That walks do not wait in a circle is not visible in any one of them: the
clean-up of a kid may wait for a clean-up below it, and a stop from above for
both. What excludes it is time. A walk begins to wait only for clean-ups that set
out in that step, and one that has just set out waits for nobody. So
of any set of walks one waits for none of the others (`NoCircularWait`, kept by
every step over all sets at once, which needs no induction over the tree and
holds even if the tree had cycles).

**`TaskDelivery`.** `Core` carries the first three theorems: `Tally` counts the
failures each attempt must have seen, so that a drainer that gave up has spent
them all; `Unposted`, `Numbered`, `Own` and `Newest` say that ids only grow and
that a fiber's id and batch are its own; `There` that what landed is stored.
`Landing` carries the other two: `AllWhole` (this is where half writes are
excluded), `Tracked` (a batch being written is still queued, so a failure loses
nothing), `ResultsSurvive` itself, and `Followed`, the per-message form of
`BusyWritesAreFollowedUp` while its confirmation is still under way.

`Stocked` carries `WrittenTwiceAtMost` without excluding any failure. `Handed`
says where an item can be: a re-delivery is never queued beside the fresh item
or its confirmation, and one confirmation at most holds an item. `Budget` then
weighs the copies of a result in the store against the writes it has still to
come: two before it is posted and while nothing of it is stored (`Twice`), one
while a confirmation or a second write is ahead (`Once`). A write that lands and
then fails is paid for by its fault.

**`SessionDrain`.** `Owner` (the drain that is alive is the map's entry) is all
`OneDrain` needs. `NoPromptForgotten` becomes inductive as `Kept`: while an
entry is active, every prompt owed and not yet promoted is covered by its
`pendingWake`, or its drain is at a point from which it will still look for such
a prompt (`Sees`) and is not being stopped; `Unused` (only the active entry is
ever stopping) carries that across a successor. `Ready` says what each step of
an attempt may rely on (`Prepared`): that the batch is exactly what the `Cut`
lets in of the waiting steers, that a queued prompt that was seen still waits.
With `Ordered` (rows are numbered by admission) it gives `SteersReachTheTurn`,
`NoIdleProviderCall` and, action by action, the refinement of `SessionInbox`.

**`Mailbox`.** `Token` carries the first half of `AtMostOnce`: a copy was read,
or one of its files can still be read, never both and never two of them. It
needs `Drained` and `Taken` (who works on a body that is there holds its claim,
alone), `InOneHand` (the same when the body is gone), `Lifted` (who drops a
claim for good deleted the body; here a sweep that fails is excluded), `Known`
and `Early` (what was never deposited is in nobody's hands). `Whole` adds what
senders are told: `Paired` (there is a letter only where the request was refused
or its sender did not wait, which is what keeps the two copies apart), `Gone` (a
refused copy is nowhere), `Safe` (a deposited one is read, there, or swept, and
what is about to be deleted was handed over) and `SweptOrder`. Each action is
first reduced to its effect on the files; the invariants are then shown for the
few effects there are, and `Whole` makes each of them a step or a stutter of
`KeptMail`.

**`ElasticPark`.** `Engine` ties the extension's idea of the engine to the
engine: `Staged` (the stage tells the park and the restore), `Running` (which
process runs at each stage), `Asked` (what an answer, or its absence, says of
the flag and the stand-in), `Unparking` (the unpark is behind every park request
in the queue), `Flagged`, `Clean`, `NotYet` and `Left` (when the flag and the
stand-in can be there at all). The engine's queue takes one of seven shapes,
which are named; that is what makes the late answer harmless: an unpark is
always behind the park it undoes. `ReadyIsServed`, `StopEndsOnlyTheMissed` and
`ClosedLeavesNothing` follow from `Engine`, the order of the work from
`Arrived` and `TurnsAreReady`.

`HeldWorkIsNotStranded` needs that the gate, when it lets go of what may go, does
not leave all of it behind. A message waits for an interjection before it, and
that for a prompt before it, so the earliest prompt that waits always goes.
That there is an earliest is `Lined`: any set of works that came has a first,
which every arrival keeps since it is the last. `Behind` is then the invariant of
the gate: what waits while it is ready is behind a turn, and nothing waits at a
gate that is parked, stopped or closed. `Asked` and `Unparking` give the rest:
while a restore awaits an answer, its request is in the queue of the engine.

### Only model-checked

Liveness under fairness is out of the prover's reach: `StopReturns`,
`OnlyWorkKeepsCallersWaiting`, `ArmedJobEnds`, `NothingOutlivesItsJob`,
`StopsReturn`, `EveryResultIsWritten`, `EveryoneIsServed`, `MailIsRead` and
`HeldWorkGoes` stay with TLC. What can go wrong for good in them is in part a
matter of safety, a wait that nothing will end, and that part is proved for
every instance where the table says "behind". Every invariant and action
property of the passing runs is stated by a theorem.

## What the models found

Five statements of the repository do not hold. Each is the single property of a
run whose counterexample TLC prints.

1. **The busy probe misses a turn** (`turn_probe`,
   `engine/src/session/run-state.ts:70`). The comment at `run-state.ts:43`: "a
   runner is busy from the moment a turn is admitted, before the first step
   writes a status". `onIdle` deletes the map entry by session id alone. A stop
   waits out turn A's slow clean-up; meanwhile turn B starts and ends on the same
   runner, and turn C starts on a new one; then the stop's own `onIdle` deletes
   the new runner's entry and clears the status. Turn C runs unseen.
2. **A restarted job inherits blocked time** (`jobs_credit`,
   `engine/src/tool/task.ts:890`). `background-job.ts:171` asks for "Total ms this
   job has so far spent blocked"; the probe handed over is the session's total
   for life, while each start's watchdog credits from zero. A sub-agent that
   waited on asks and is started again gets all that time on top of its ceiling.
3. **A stop during an extension leaves the turn running** (`tree_extension`,
   `task.ts:858`). `task_stop.ts:55` reports that the task "has been cancelled".
   Only the first run has the `onInterrupt` that stops the child's session; an
   extension's fiber is interrupted and its turn, which belongs to the session's
   runner, goes on.
4. **A half-written result counts as delivered** (`delivery_partial`,
   `task.ts:694`). `task.ts:727`: "the batch stays queued until something has been
   written". The message row and its part are two writes, and `injected` asks for
   the row only: when the part fails, the batch is dropped and its text is
   nowhere.
5. **A swept message is read twice** (`mail_twice`,
   `engine/src/origami/agent-mailbox.ts:210`). `agent-mailbox.ts:167-169` says of
   a stale claim: "The claim and its body are deleted, never admitted again: at
   most once, never twice". The sweep drops the claim also when the body could
   not be deleted; a body that was admitted and that its reader could not delete
   either is then there without a claim, and the next drain admits it again.

Met while modelling, without a run of its own:

- `background-job.ts:272` keeps the walk of an expiry from "a LATER job that
  reused the dead one's id". The clean-up that the same expiry sets off is kept
  from nothing: its walk (`run-state.ts:96`) includes its root, and if the job is
  restarted before that walk lists, it ends the restarted job. `SubagentTree` has
  these behaviours.
- A turn stop reaches detached work (`task.ts:895`). `background-job.ts:276`: "A
  parent turn-stop (spareDetached) must leave detached background work running".
  The stop's own walk does. But the clean-up of a foreground child it cancels is a
  full cancel of that child, whose walk does not spare what the child had
  detached. `SubagentTree` has these behaviours too.
- A `resume` that waits behind an interrupted drain is answered with that drain's
  interruption and does not run (`run-coordinator.ts:71`, beside
  `core/test/session-run-coordinator.test.ts:285`); `SessionDrain` has it so.
- A sender may be told that a chat is not attached while the chat is being opened
  again (`agent-post.ts:82-89` beside `agent-mailbox.ts:242-246`). The body is
  taken back first, so the answer stays true.
- A setting that fails during a restore (`setConfigOption`) fails the start; on
  Retry the session is open already, `restore()` returns false and the settings
  are not made again, although `park.ts:140` wants them "what they were".
- A direct call of the client during a restore is not held at the gate, although
  the header of `park.ts` has it run `gate.whenUp()`.
- **A park may end an accepted prompt.** `handlers/session.ts:339`: "A turn started
  now would be killed with it, after the sender was told "delivered"." The handler
  asks for the PARKING flag, then forks the prompt, which waits for the revert's
  clean-up, hooks and its store writes before its runner is busy. A park whose
  idle check falls in between finds the engine idle, is answered, and the process
  is stopped under the prompt. `StopEndsOnlyTheMissed` states, and
  `StopsEndOnlyTheMissed` proves, that this is the only way: nothing accepted at
  or after the check is lost, nor any turn of the user's.
- **A message refused after a late answer may be read all the same**, or be kept
  and read a second time. `tool/agents.ts:263`: "nothing arrived, so the claim
  goes back". But `postPrompt` gives up after two seconds (`agent-post.ts:41`)
  on an engine that may serve the request later. The receiving engine knows a
  repeated message by its id, in memory and for a time, so the second copy is
  caught only in the engine that saw the first. `AtMostOnce` and `AnswersAreTrue` except these
  messages by name (`unheard`), and `OnceOnly` and `SenderIsToldTheTruth` prove
  that there are no others.
- A result written into a parent found busy can be overtaken by an assistant
  message that began before it landed (`task.ts:780`); its confirmation then
  takes it for read. `BusyWritesAreFollowedUp` excuses what an assistant
  message follows, so it does not see this.
- Node may report a process's exit before its output is read to the end. A
  refusal to park that is read after the exit would make the gate ready with no
  engine, which the header of `park.ts` excludes; the model assumes the order it
  needs (`Read`).
- An engine so slow that its park request runs out of time may write its stand-in
  after the chat was closed; `ClosedLeavesNothing` excuses this (`late`).

## What is left out

- *Components* marked in the inventory as not modelled: interfaces, encodings,
  clients of external processes, files and git. Their promises are about data
  and I/O, which these models abstract.
- *Of the runner*: sessions beside each other (they share nothing here), the
  order of status events (`status.ts:66` publishes idle before it deletes the
  key), `assertNotBusy`, which only reads, an interruption of the caller of a
  shell (`runner.ts:162`).
- *Of the registry*: `list`, `get`, `wait`, which only read; jobs without a
  ceiling; a command job that succeeds with a nonzero exit and is therefore an
  error (`background-job.ts:351`; a sub-agent has no exit code), and a probe
  of the watchdog that dies; the order in which a closing scope interrupts its
  fibers (here all at once); milliseconds (a tick is whatever time separates
  two events).
- *Of the tree*: what falls between a job's start and the registration of its
  caller's abort listener (`task.ts:882` to `937`, one step here); that a
  foreground call which is interrupted while it waits cancels its child
  itself, unless it was promoted (`task.ts:987`: a second way to what its
  abort listener does); `Session.remove`'s recursion; background shells; a
  child that a descendant detaches while a walk waits, after that descendant's
  own clean-up has listed, which needs four levels of kids and is outside the
  walk's promise, stated over what it listed.
- *Of delivery*: removal of the parent, the note on siblings still running, a
  store whose reads fail. `BusyWritesAreFollowedUp` excuses a batch that mixes a
  re-delivered result with fresh ones, which arms no confirmation
  (`task.ts:683`); and nothing is claimed of a message written into an idle
  parent (`task.ts:677` takes its id before the write waits).
- *Of the drain*: an agent without a step limit; failures other than at the
  steps named in the module; compaction, the content of turns, other events in the
  session's sequence; sessions beside each other.
- *Of the mailbox*: what becomes of a request once an engine accepted it; the
  duplicate ledger; torn bodies; a sender slower than `LATE_DRAIN_MS`; a wake
  for a folder that holds only bodies that failed before.
- *Of parking*: first starts, deferred chats, spare engines, the host's engine,
  the contents of the idle report, an engine that does not know the park request
  (`park.ts:218`), wording.

Hazards seen in components that no module covers, for whoever takes them up:
`refresh` of the permissions walks the pending asks and waits between them while
replies take entries away (`permission/index.ts:540`);
`Session.remove` forgets the queue before the rows go, so a confirmation in
between re-queues (`session.ts:873`); the relay's ring lets one role's frames
evict the other's (`relay/ring.ts:77`); the idle event precedes the deletion of
the status key (`status.ts:66`).

## Plan

Done: `TurnRunner` with `SessionTurns`, `BackgroundJobs` with `JobLedger`,
`SubagentTree`, `TaskDelivery`; `SessionDrain` with `SessionInbox`, `Mailbox` with
`KeptMail`, `ElasticPark`; each with its run, its mutants, its liveness and its proofs.

Next, by the weight of what could go wrong:

1. **Locks between processes**: `OwnerLease` (`flock/owner-lease.ts:143`: a claim
   writes and re-reads without a lock), `DirectoryLock` (`util/flock.ts:190`),
   `SpawnLock` (`spawn-lock.ts:59`, take-over after five seconds), `RunLease`
   (`nests-handover.ts:443`): slow holders, crashes, clocks. Theorem: what each
   really guarantees, which may be less than one holder.
2. **`EventLog`** (`core/src/event.ts`: the durable wake at 431, transient
   sequence numbers at 368): a follower against an abstract sequence.
3. **`Asking`** (`permission/index.ts:540`, `question/index.ts:150`): ask, reply,
   refresh, time-out; an ask is answered once and leaves no entry.
4. **Extensions of what there is**: removal of the parent and the second release
   of the drainer (`task.ts:807`) in `TaskDelivery`; `Session.remove` with
   `SubagentTree`; the prompt loop; the relay's ring; the flock's mailbox
   (`flock/mailbox.ts:83`, `:91`).

To check a run: `tlc -config TurnRunner_turns.cfg MCTurnRunner` (the module and
configuration of each run are in `PROJECT.json`). To check the proofs:
`tlapm TurnRunnerProofs.tla`, and so on.
