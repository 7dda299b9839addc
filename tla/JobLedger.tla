----------------------------- MODULE JobLedger -----------------------------
(***************************************************************************)
(* What the job registry promises whoever starts, extends, stops or waits  *)
(* for a job, however its runs, its watchdog and its callers interleave: a *)
(* job is completed at the return of the last run it accepted and at no    *)
(* other moment, its output is its newest run's, and once it has ended     *)
(* nothing moves but its waiters, who are told its one verdict.            *)
(* BackgroundJobs implements this.                                         *)
(***************************************************************************)
EXTENDS Integers

CONSTANTS Gens,  \* the generations of the id, 1, 2, ...
          Seqs   \* the numbers of a generation's runs, 0, 1, ...

VARIABLES latest,    \* the newest generation; 0 before any
          verdict,   \* of each generation: none, running, or how it ended
          accepted,  \* the number of runs its callers were promised
          returned,  \* the runs whose result is in
          output,    \* the run whose result the job has; -1 before any
          background,\* the caller went on without waiting
          told       \* what its waiters were told

vars == << latest, verdict, accepted, returned, output, background, told >>

Stopped == {"error", "cancelled", "expired"}
Running(g) == verdict[g] = "running"

TypeOK ==
    /\ latest \in Gens \cup {0}
    /\ verdict \in [Gens -> {"none", "running", "completed"} \cup Stopped]
    /\ accepted \in [Gens -> Nat]
    /\ returned \in [Gens -> SUBSET Seqs]
    /\ output \in [Gens -> Seqs \cup {-1}]
    /\ background \in [Gens -> BOOLEAN]
    /\ told \in [Gens -> {"unset", "completed"} \cup Stopped]

Init ==
    /\ latest = 0
    /\ verdict = [g \in Gens |-> "none"]
    /\ accepted = [g \in Gens |-> 0]
    /\ returned = [g \in Gens |-> {}]
    /\ output = [g \in Gens |-> -1]
    /\ background = [g \in Gens |-> FALSE]
    /\ told = [g \in Gens |-> "unset"]

\* A job is started when none of its id runs.
Start(g) ==
    /\ g = latest + 1 /\ \A h \in Gens : ~Running(h)
    /\ latest' = g
    /\ verdict' = [verdict EXCEPT ![g] = "running"]
    /\ accepted' = [accepted EXCEPT ![g] = 1]
    /\ UNCHANGED << returned, output, background, told >>

Accept(g) ==
    /\ Running(g)
    /\ accepted' = [accepted EXCEPT ![g] = @ + 1]
    /\ UNCHANGED << latest, verdict, returned, output, background, told >>

Newest(old, s) == IF s > old THEN s ELSE old

\* The return of an accepted run; of a job that has ended it changes nothing.
Return(g, s) ==
    /\ s < accepted[g] /\ s \notin returned[g]
    /\ returned' = [returned EXCEPT ![g] = @ \cup {s}]
    /\ IF Running(g)
       THEN /\ output' = [output EXCEPT ![g] = Newest(@, s)]
            /\ verdict' = [verdict EXCEPT ![g] =
                 IF 0..(accepted[g] - 1) = returned[g] \cup {s} THEN "completed" ELSE @]
       ELSE UNCHANGED << output, verdict >>
    /\ UNCHANGED << latest, accepted, background, told >>

\* A run failed, a caller stopped the job, or its time is up.
Stop(g, v) ==
    /\ Running(g)
    /\ verdict' = [verdict EXCEPT ![g] = v]
    /\ UNCHANGED << latest, accepted, returned, output, background, told >>

Promote(g) ==
    /\ Running(g)
    /\ background' = [background EXCEPT ![g] = TRUE]
    /\ UNCHANGED << latest, verdict, accepted, returned, output, told >>

Tell(g) ==
    /\ verdict[g] \in {"completed"} \cup Stopped /\ told[g] = "unset"
    /\ told' = [told EXCEPT ![g] = verdict[g]]
    /\ UNCHANGED << latest, verdict, accepted, returned, output, background >>

Next ==
    \E g \in Gens :
        \/ Start(g) \/ Accept(g) \/ Promote(g) \/ Tell(g)
        \/ \E s \in Seqs : Return(g, s)
        \/ \E v \in Stopped : Stop(g, v)

Spec == Init /\ [][Next]_vars
=============================================================================
