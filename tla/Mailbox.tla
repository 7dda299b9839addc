------------------------------- MODULE Mailbox -------------------------------
(***************************************************************************)
(* The mailbox of one chat whose engine may be parked                      *)
(* (engine/src/origami/agent-mailbox.ts), with what reads and writes it:   *)
(* senders (session/agent-post.ts `send`), the drains a restored or        *)
(* unparked engine runs, the sweep another engine runs when it starts, and *)
(* the chat itself, which is parked, woken, unparked, closed and opened    *)
(* again (acp/elastic.ts, origami/agent-broker.ts).                        *)
(*                                                                         *)
(* A kept body is a file, a claim a file beside it; every file operation   *)
(* is a step of its own, and a process may die between two of them.  A     *)
(* drain that admits a body into an engine that is parking has it kept     *)
(* again as another file, so a message has several files.  A sender waits  *)
(* two seconds for the answer to its POST and then takes it for refused,   *)
(* but the engine may still serve it: the request and what its sender      *)
(* keeps for a parked chat are two copies of the message.                  *)
(*                                                                         *)
(* The text of a body, half-written files, what becomes of a prompt once   *)
(* an engine accepted it, and the ledger of duplicate peer messages an     *)
(* engine keeps in memory are left out.                                    *)
(***************************************************************************)
EXTENDS Integers, FiniteSets

CONSTANTS
    Mail,        \* messages, each sent once
    Readers,     \* bound: drains of one engine at a time
    MaxFiles,    \* bound: files a copy of a message is kept as
    MaxFaults,   \* bound: deaths of a process, late answers, failed file operations and admissions
    SweepsFail   \* whether a sweep may fail to delete a body

ASSUME MailboxAssumption ==
    /\ Mail # {}
    /\ MaxFiles \in Nat \ {0} /\ MaxFaults \in Nat
    /\ SweepsFail \in BOOLEAN

\* What is POSTed to an engine, and what the sender itself puts into the mailbox.
Copy == Mail \X {"request", "letter"}
Request(m) == << m, "request" >>
Letter(m)  == << m, "letter" >>

File == Copy \X (1..MaxFiles)
First(c) == << c, 1 >>
NoFile == CHOOSE f \in File : TRUE  \* in an empty hand

VARIABLES
    phase,            \* of the chat
    body, claimed,    \* the files there, and those with a claim beside them
    stamp, clock,     \* the deposit time in each file's name
    send,             \* how far each copy is on its way
    unheard, cut,     \* the POSTs whose sender gave up, and those under way to an engine that is gone
    at, left, cur, late,  \* each drain: its step, the names it read, the file in hand
    sweep, swept,     \* the sweep and the file in its hand; the copies it deleted
    turns,            \* how often the session was prompted with each copy
    failed,           \* the files that stay for the next reader
    faults            \* what the bound counts

chat    == << phase, cut >>
files   == << body, claimed, stamp, clock >>
drains  == << at, left, cur, late >>
sweeper == << sweep, swept >>
vars    == << chat, files, send, unheard, drains, sweeper, turns, failed, faults >>

Phases == {"live", "parking", "withdrawn", "unparking", "parked", "waking", "failed", "closed"}

\* The live entry lists the chat; its stand-in is there; its engine's PARKING flag is set.
Entry   == phase \in {"live", "parking", "unparking", "waking"}
StandIn == phase \in {"parking", "withdrawn", "unparking", "parked", "waking", "failed"}
Parking == phase \in {"parking", "withdrawn", "unparking"}
Up      == phase \notin {"parked", "failed", "closed"}

Answered == {"sent", "refused", "failed", "dead"}
SendStages == {"new", "posting", "seeking", "keeping", "asking", "asking again", "claiming",
               "taking", "put back", "give up"} \cup Answered
ReadStages == {"off", "list", "next", "read", "admit", "delete", "release", "timer"}

TypeOK ==
    /\ phase \in Phases
    /\ body \subseteq File
    /\ claimed \subseteq File
    /\ stamp \in [File -> Nat] /\ clock \in Nat
    /\ send \in [Copy -> SendStages]
    /\ unheard \subseteq Mail /\ cut \subseteq Mail
    /\ at \in [Readers -> ReadStages] /\ left \in [Readers -> SUBSET File]
    /\ cur \in [Readers -> File] /\ late \in [Readers -> BOOLEAN]
    /\ \A r \in Readers : late[r] => at[r] \notin {"off", "timer"}
    /\ sweep.at \in {"off", "body", "claim", "expired"} /\ sweep.file \in File
    /\ swept \subseteq Copy /\ failed \subseteq File
    /\ turns \in [Copy -> Nat] /\ faults \in Nat

Init ==
    /\ phase \in {"live", "parked"}
    /\ body = {} /\ claimed = {}
    /\ stamp = [f \in File |-> 0] /\ clock = 0
    /\ send = [c \in Copy |-> "new"]
    /\ unheard = {} /\ cut = {}
    /\ at = [r \in Readers |-> "off"] /\ left = [r \in Readers |-> {}]
    /\ cur = [r \in Readers |-> NoFile] /\ late = [r \in Readers |-> FALSE]
    /\ sweep = [at |-> "off", file |-> NoFile] /\ swept = {}
    /\ turns = [c \in Copy |-> 0] /\ failed = {} /\ faults = 0

Fault == faults < MaxFaults /\ faults' = faults + 1

(***************************************************************************)
(* The files.                                                              *)
(***************************************************************************)

deposit(f) ==
    /\ body' = body \cup {f}
    /\ clock' = clock + 1
    /\ stamp' = [stamp EXCEPT ![f] = clock + 1]
    /\ UNCHANGED claimed

\* Created exclusively: the one who made it holds the body.
Claim(f) ==
    /\ f \notin claimed
    /\ claimed' = claimed \cup {f}
    /\ UNCHANGED << body, stamp, clock >>

unclaim(f) ==
    /\ claimed' = claimed \ {f}
    /\ UNCHANGED << body, stamp, clock >>

Remove(f) ==
    /\ body' = body \ {f}
    /\ UNCHANGED << claimed, stamp, clock >>

(***************************************************************************)
(* A sender.  It reads the live entries first and the stand-ins second,    *)
(* and after it kept the body the other way round.                         *)
(***************************************************************************)

To(c, stage) == send' = [send EXCEPT ![c] = stage]

\* With no live entry there is nothing to POST to.
Locate(m) ==
    /\ send[Request(m)] = "new" /\ send[Letter(m)] = "new"
    /\ To(Request(m), IF Entry THEN "posting" ELSE "refused")
    /\ UNCHANGED << chat, files, unheard, drains, sweeper, turns, failed, faults >>

\* The engine's prompt_async route; one that is parking keeps the body.  It does not
\* know whether the sender still waits.
Serve(m) ==
    LET q == Request(m) IN
    /\ send[q] = "posting"
    /\ \/ /\ m \notin cut /\ ~Parking
          /\ turns' = [turns EXCEPT ![q] = @ + 1]
          /\ To(q, "sent")
          /\ UNCHANGED << cut, files, faults >>
       \/ /\ m \notin cut /\ Parking
          /\ deposit(First(q))
          /\ To(q, "sent")
          /\ UNCHANGED << cut, turns, faults >>
       \/ /\ m \notin cut /\ Parking /\ Fault
          /\ To(q, "refused")
          /\ UNCHANGED << cut, files, turns >>
       \/ /\ m \in cut /\ cut' = cut \ {m}
          /\ To(q, "refused")
          /\ UNCHANGED << files, turns, faults >>
    /\ UNCHANGED << phase, unheard, drains, sweeper, failed >>

\* No answer within POST_TIMEOUT_MS, or none because the connection broke.
GiveUp(m) ==
    /\ send[Request(m)] = "posting" /\ m \notin unheard
    /\ Fault
    /\ unheard' = unheard \cup {m}
    /\ UNCHANGED << chat, files, send, drains, sweeper, turns, failed >>

\* A POST that failed, for whatever reason, counts as not delivered.
FallBack(m) ==
    /\ send[Letter(m)] = "new" /\ (send[Request(m)] = "refused" \/ m \in unheard)
    /\ To(Letter(m), "seeking")
    /\ UNCHANGED << chat, files, unheard, drains, sweeper, turns, failed, faults >>

Seek(c) ==
    /\ send[c] = "seeking"
    /\ To(c, IF StandIn THEN "keeping" ELSE "refused")
    /\ UNCHANGED << chat, files, unheard, drains, sweeper, turns, failed, faults >>

Deposit(c) ==
    /\ send[c] = "keeping"
    /\ \/ /\ deposit(First(c))
          /\ To(c, "asking")
          /\ UNCHANGED faults
       \/ /\ Fault
          /\ To(c, "failed")
          /\ UNCHANGED files
    /\ UNCHANGED << chat, unheard, drains, sweeper, turns, failed >>

AskAgain(c) ==
    /\ \/ /\ send[c] = "asking"
          /\ To(c, IF StandIn THEN "sent" ELSE "asking again")
       \/ /\ send[c] = "asking again"
          /\ To(c, IF Entry THEN "sent" ELSE "claiming")
    /\ UNCHANGED << chat, files, unheard, drains, sweeper, turns, failed, faults >>

\* The bug of a sender that takes its body back without asking for the claim.
TakeUnclaimed(c) ==
    /\ send[c] = "claiming"
    /\ To(c, "taking")
    /\ claimed' = claimed \cup {First(c)}
    /\ UNCHANGED << body, stamp, clock, chat, unheard, drains, sweeper, turns, failed, faults >>

ClaimBack(c) ==
    /\ send[c] = "claiming"
    /\ \/ Claim(First(c)) /\ To(c, "taking")
       \/ First(c) \in claimed /\ To(c, "sent") /\ UNCHANGED files
    /\ UNCHANGED << chat, unheard, drains, sweeper, turns, failed, faults >>

\* The bug of a take-back that counts a body that is gone as taken.
TakeGone(c) ==
    /\ send[c] = "taking"
    /\ Remove(First(c))
    /\ To(c, "give up")
    /\ UNCHANGED << chat, unheard, drains, sweeper, turns, failed, faults >>

TakeBack(c) ==
    /\ send[c] = "taking"
    /\ \/ /\ First(c) \in body
          /\ Remove(First(c)) /\ To(c, "give up")
          /\ UNCHANGED << failed, faults >>
       \/ /\ First(c) \notin body
          /\ To(c, "put back")
          /\ UNCHANGED << files, failed, faults >>
       \/ /\ First(c) \in body /\ Fault
          /\ To(c, "put back")
          /\ failed' = failed \cup {First(c)}
          /\ UNCHANGED files
    /\ UNCHANGED << chat, unheard, drains, sweeper, turns >>

UnclaimBack(c) ==
    /\ send[c] \in {"give up", "put back"}
    /\ unclaim(First(c))
    /\ To(c, IF send[c] = "give up" THEN "refused" ELSE "sent")
    /\ UNCHANGED << chat, unheard, drains, sweeper, turns, failed, faults >>

\* A POST under way goes on without its sender.
SenderDies(m) ==
    /\ send[Letter(m)] \notin Answered
    /\ send[Request(m)] = "sent" => m \in unheard
    /\ Fault
    /\ To(Letter(m), "dead")
    /\ unheard' = IF send[Request(m)] = "posting" THEN unheard \cup {m} ELSE unheard
    /\ UNCHANGED << chat, files, drains, sweeper, turns, failed >>

(***************************************************************************)
(* A drain.                                                                *)
(***************************************************************************)

Goes(r, step) == at' = [at EXCEPT ![r] = step]

\* The names are read once.
List(r) ==
    /\ at[r] = "list"
    /\ left' = [left EXCEPT ![r] = body]
    /\ Goes(r, "next")
    /\ UNCHANGED << chat, files, send, unheard, cur, late, sweeper, turns, failed, faults >>

Oldest(f, names) == f \in names /\ \A g \in names : stamp[f] <= stamp[g]

Take(r) ==
    /\ at[r] = "next"
    /\ \E f \in left[r] :
           /\ Oldest(f, left[r])
           /\ left' = [left EXCEPT ![r] = @ \ {f}]
           /\ \/ Claim(f) /\ cur' = [cur EXCEPT ![r] = f] /\ Goes(r, "read")
              \/ f \in claimed /\ UNCHANGED << files, cur, at >>
    /\ UNCHANGED << chat, send, unheard, late, sweeper, turns, failed, faults >>

\* A body that is gone was admitted, or taken back, since the names were read.
Read(r) ==
    /\ at[r] = "read"
    /\ Goes(r, IF cur[r] \in body THEN "admit" ELSE "release")
    /\ UNCHANGED << chat, files, send, unheard, left, cur, late, sweeper, turns, failed, faults >>

\* The engine's own prompt_async route: it keeps the body again while it is parking.
Admit(r) ==
    LET c == cur[r][1] IN
    /\ at[r] = "admit"
    /\ \/ /\ ~Parking
          /\ turns' = [turns EXCEPT ![c] = @ + 1]
          /\ Goes(r, "delete")
          /\ UNCHANGED << files, failed, faults >>
       \/ /\ Parking /\ cur[r][2] < MaxFiles
          /\ deposit(<< c, cur[r][2] + 1 >>)
          /\ Goes(r, "delete")
          /\ UNCHANGED << turns, failed, faults >>
       \/ /\ Fault
          /\ failed' = failed \cup {cur[r]}
          /\ Goes(r, "release")
          /\ UNCHANGED << files, turns >>
    /\ UNCHANGED << chat, send, unheard, left, cur, late, sweeper >>

\* The bug of a reader that gives up its claim on a body it could not delete.
DeleteOrRelease(r) ==
    /\ at[r] = "delete"
    /\ \/ Remove(cur[r]) /\ UNCHANGED faults
       \/ cur[r] \in body /\ Fault /\ UNCHANGED files
    /\ Goes(r, "release")
    /\ UNCHANGED << chat, send, unheard, left, cur, late, sweeper, turns, failed >>

\* A body that cannot be deleted keeps its claim.
Delete(r) ==
    /\ at[r] = "delete"
    /\ \/ Remove(cur[r]) /\ Goes(r, "release") /\ UNCHANGED faults
       \/ cur[r] \in body /\ Fault /\ Goes(r, "next") /\ UNCHANGED files
    /\ cur' = IF at'[r] = "next" THEN [cur EXCEPT ![r] = NoFile] ELSE cur
    /\ UNCHANGED << chat, send, unheard, left, late, sweeper, turns, failed >>

Release(r) ==
    /\ at[r] = "release"
    /\ unclaim(cur[r])
    /\ cur' = [cur EXCEPT ![r] = NoFile]
    /\ Goes(r, "next")
    /\ UNCHANGED << chat, send, unheard, left, late, sweeper, turns, failed, faults >>

\* The bug of a restore without the second pass.
EndsForGood(r) ==
    /\ at[r] = "next" /\ left[r] = {}
    /\ Goes(r, "off")
    /\ UNCHANGED << chat, files, send, unheard, left, cur, late, sweeper, turns, failed, faults >>

\* The first pass of a restore arms the timer of the late one.
Ends(r) ==
    /\ at[r] = "next" /\ left[r] = {}
    /\ Goes(r, IF late[r] THEN "off" ELSE "timer")
    /\ late' = [late EXCEPT ![r] = FALSE]
    /\ UNCHANGED << chat, files, send, unheard, left, cur, sweeper, turns, failed, faults >>

\* LATE_DRAIN_MS is longer than a sender needs from its lookup to its deposit.
LateDrain(r) ==
    /\ at[r] = "timer"
    /\ \A c \in Copy : send[c] # "keeping"
    /\ late' = [late EXCEPT ![r] = TRUE]
    /\ Goes(r, "list")
    /\ UNCHANGED << chat, files, send, unheard, left, cur, sweeper, turns, failed, faults >>

(***************************************************************************)
(* The sweep.  It deletes the body of a claim that is ten minutes old,     *)
(* then the claim: a drain may well be that slow, so any claim may be that *)
(* old.  It deletes a body nobody claims, of a chat nobody answers for,    *)
(* after a week; no sender takes that long.                                *)
(***************************************************************************)

Sweeps(f, step) == sweep' = [at |-> step, file |-> f]

FindStale(f) ==
    /\ sweep.at = "off" /\ f \in claimed
    /\ Sweeps(f, "body")
    /\ UNCHANGED << chat, files, send, unheard, drains, swept, turns, failed, faults >>

FindExpired(f) ==
    /\ sweep.at = "off" /\ f \in body /\ f \notin claimed
    /\ ~StandIn /\ ~Entry
    /\ send[f[1]] \in Answered
    /\ Sweeps(f, "expired")
    /\ UNCHANGED << chat, files, send, unheard, drains, swept, turns, failed, faults >>

\* The claim goes next, whether or not the body could be deleted.
SweepBody ==
    LET f == sweep.file
        next == IF sweep.at = "body" THEN "claim" ELSE "off" IN
    /\ sweep.at \in {"body", "expired"}
    /\ \/ /\ Remove(f)
          /\ swept' = IF f \in body THEN swept \cup {f[1]} ELSE swept
          /\ UNCHANGED faults
       \/ /\ SweepsFail /\ f \in body /\ Fault
          /\ UNCHANGED << files, swept >>
    /\ Sweeps(IF next = "off" THEN NoFile ELSE f, next)
    /\ UNCHANGED << chat, send, unheard, drains, turns, failed >>

SweepClaim ==
    /\ sweep.at = "claim"
    /\ unclaim(sweep.file)
    /\ Sweeps(NoFile, "off")
    /\ UNCHANGED << chat, send, unheard, drains, swept, turns, failed, faults >>

(***************************************************************************)
(* The chat.                                                               *)
(***************************************************************************)

Idle(r) == at[r] = "off"

\* The engine's drains and the requests it has not served die with it; claims stay.
Quiet ==
    /\ at' = [r \in Readers |-> "off"]
    /\ left' = [r \in Readers |-> {}]
    /\ cur' = [r \in Readers |-> NoFile]
    /\ late' = [r \in Readers |-> FALSE]
    /\ cut' = cut \cup {m \in Mail : send[Request(m)] = "posting"}

Starts(r) ==
    /\ Idle(r)
    /\ Goes(r, "list")
    /\ UNCHANGED << left, cur, late >>

\* The mailbox is read before a load or an unpark answers, and a park comes after;
\* the bound also leaves room for the drain of an unpark.
Park ==
    /\ phase = "live"
    /\ \A r \in Readers : ~Idle(r) => late[r] \/ at[r] = "timer"
    /\ \E r \in Readers : Idle(r)
    /\ phase' = "parking"
    /\ UNCHANGED << cut, files, send, unheard, drains, sweeper, turns, failed, faults >>

Withdraw ==
    /\ phase = "parking"
    /\ phase' = "withdrawn"
    /\ UNCHANGED << cut, files, send, unheard, drains, sweeper, turns, failed, faults >>

\* The extension closes the engine's stdin.
Stop ==
    /\ phase = "withdrawn"
    /\ phase' = "parked"
    /\ Quiet
    /\ UNCHANGED << files, send, unheard, sweeper, turns, failed, faults >>

\* Or keeps the engine, or the park failed: the entry is written, then the stand-in
\* goes and the mail is read.
Unpark ==
    /\ phase \in {"parking", "withdrawn"}
    /\ phase' = "unparking"
    /\ UNCHANGED << cut, files, send, unheard, drains, sweeper, turns, failed, faults >>

\* A new engine loads the session: the entry is flushed before the stand-in goes.
Wake ==
    /\ phase = "parked"
    /\ phase' = "waking"
    /\ UNCHANGED << cut, files, send, unheard, drains, sweeper, turns, failed, faults >>

Restore ==
    /\ phase \in {"unparking", "waking"}
    /\ phase' = "live"
    /\ \E r \in Readers : Starts(r)
    /\ UNCHANGED << cut, files, send, unheard, sweeper, turns, failed, faults >>

Close ==
    /\ phase # "closed"
    /\ phase' = "closed"
    /\ Quiet
    /\ UNCHANGED << files, send, unheard, sweeper, turns, failed, faults >>

\* A start that fails is offered again; an engine that exits while it parks is parked.
EngineDies ==
    /\ Up /\ Fault
    /\ phase' = CASE phase = "waking" -> "failed" [] phase = "live" -> "closed" [] OTHER -> "parked"
    /\ Quiet
    /\ UNCHANGED << files, send, unheard, sweeper, turns, failed >>

Open ==
    /\ phase = "closed"
    /\ phase' = "live"
    /\ \E r \in Readers : Starts(r)
    /\ UNCHANGED << cut, files, send, unheard, sweeper, turns, failed, faults >>

Retry ==
    /\ phase = "failed"
    /\ phase' = "waking"
    /\ UNCHANGED << cut, files, send, unheard, drains, sweeper, turns, failed, faults >>

\* The extension watches the folder: mail wakes a parked chat.
WakeForMail == body # {} /\ Wake

(***************************************************************************)
(* The specification.                                                      *)
(***************************************************************************)

Sender(m) == Locate(m) \/ Serve(m) \/ GiveUp(m) \/ FallBack(m) \/ SenderDies(m)

Keep(c) ==
    Seek(c) \/ Deposit(c) \/ AskAgain(c) \/ ClaimBack(c) \/ TakeBack(c) \/ UnclaimBack(c)

Drain(r) ==
    List(r) \/ Take(r) \/ Read(r) \/ Admit(r) \/ Delete(r) \/ Release(r) \/ Ends(r) \/ LateDrain(r)

Sweep == SweepBody \/ SweepClaim \/ \E f \in File : FindStale(f) \/ FindExpired(f)

Next ==
    \/ \E m \in Mail : Sender(m)
    \/ \E c \in Copy : Keep(c)
    \/ \E r \in Readers : Drain(r)
    \/ Sweep
    \/ Park \/ Withdraw \/ Stop \/ Unpark \/ Wake \/ Restore \/ Close \/ EngineDies \/ Open \/ Retry

Spec == Init /\ [][Next]_vars

\* A sender that set out, a drain and a change of the chat go on; nobody need park,
\* close or open a chat, try a failed start again or sweep.
System ==
    \/ \E m \in Mail : Serve(m) \/ FallBack(m)
    \/ \E c \in Copy : Keep(c)
    \/ \E r \in Readers : Drain(r)
    \/ Withdraw \/ Stop \/ Unpark \/ Restore \/ WakeForMail

FairSpec == Spec /\ WF_vars(System)

(***************************************************************************)
(* Properties.                                                             *)
(***************************************************************************)

Files(c) == {f \in File : f[1] = c}

\* A drain has read the body and not yet handed it over.
InHand(c) == \E r \in Readers : at[r] = "admit" /\ cur[r][1] = c

Nowhere(c) == turns[c] = 0 /\ Files(c) \cap body = {} /\ ~InHand(c)

\* Two drains, a restore in a new process, a reader that died or could not delete what
\* it admitted, a body kept again by a parking engine: the session gets a copy once, and
\* a message as two copies only when its sender did not hear the answer to its POST.
AtMostOnce ==
    /\ \A c \in Copy : turns[c] <= 1
    /\ \A m \in Mail : m \in unheard \/ turns[Request(m)] = 0 \/ turns[Letter(m)] = 0

\* A sender that is told the message did not arrive is never contradicted by what it
\* kept, and by its POST only when it did not wait for the answer.
RefusedIsNeverRead ==
    \A m \in Mail : send[Letter(m)] \in {"refused", "failed"} =>
        Nowhere(Letter(m)) /\ (m \in unheard \/ Nowhere(Request(m)))

\* A copy that an engine or the mailbox took was read, waits, or was swept.
DeliveredIsNotDropped ==
    \A c \in Copy : send[c] = "sent" =>
        turns[c] > 0 \/ Files(c) \cap body # {} \/ InHand(c) \/ c \in swept

\* What a sender is told is true, whatever the chat did while it looked, but for a POST
\* it gave up on: a message is delivered or refused, never both and never neither.
AnswersAreTrue == RefusedIsNeverRead /\ DeliveredIsNotDropped

\* Mail kept for a chat whose engine is not closed or lost is read, unless its reader died
\* with it or could not admit it: also what is kept behind the back of the first drain.
MailIsRead ==
    []<>(\A f \in body : f \in claimed \/ f \in failed \/ phase \in {"failed", "closed"})

fate == [c \in Copy |->
    IF turns[c] > 0 THEN "read"
    ELSE IF Files(c) \cap body # {} \/ InHand(c) THEN "kept"
    ELSE IF stamp[First(c)] = 0 THEN "unsent"
    ELSE IF c \in swept THEN "lost" ELSE "back"]

\* The answer to a POST that nobody waits for tells nothing.
told == [c \in Copy |->
    IF c[2] = "request" /\ c[1] \in unheard THEN "nothing"
    ELSE IF send[c] = "sent" THEN "delivered"
    ELSE IF send[c] \in {"refused", "failed"} THEN "refused" ELSE "nothing"]

Kept == INSTANCE KeptMail WITH Mail <- Copy

\* Whoever reads, takes back, keeps again or sweeps: the promise of KeptMail holds of
\* every copy of a message.
ImplementsKeptMail == Kept!Spec
=============================================================================
