------------------------------- MODULE JobQueue -------------------------------
(***************************************************************************)
(* The ingestion job queue: the ingestion_jobs table and the worker        *)
(* processes of app/worker.py that claim its rows, run their handlers and  *)
(* record the outcome, with crashes, restarts and stale-job recovery.      *)
(*                                                                         *)
(* An attempt is a pair <<j, n>>: the asyncio task of the n-th claim of    *)
(* job j, which holds the expunged row (its own copy of attempts = n).     *)
(***************************************************************************)
EXTENDS Naturals, FiniteSets

CONSTANTS
    Jobs,         \* rows of ingestion_jobs, numbered in created_at order
    Handled,      \* the jobs whose job_type is in _HANDLERS
    Workers,      \* worker processes
    NoWorker,     \* the owner of an attempt nobody made
    MaxAttempts,  \* max_attempts
    Concurrency,  \* settings.worker_concurrency
    Overrun,      \* may an attempt outlive the stale-job timeout?
    MaxStops      \* bound: crashes and shutdowns in a behaviour

ASSUME JobsAssumption == Jobs \subseteq Nat /\ Handled \subseteq Jobs
ASSUME WorkersAssumption == NoWorker \notin Workers
ASSUME BoundsAssumption == /\ MaxAttempts \in Nat \ {0}
                           /\ Concurrency \in Nat \ {0}
                           /\ MaxStops \in Nat
ASSUME OverrunAssumption == Overrun \in BOOLEAN

VARIABLES
    status,    \* status[j]: the column, or "absent" before the INSERT
    attempts,  \* attempts[j]: the column
    claimed,   \* claimed_at[j]: NULL, younger or older than the cutoff
    pc,        \* pc[j][n]: where attempt n of job j stands
    owner,     \* owner[j][n]: the worker that made attempt n
    mode,      \* mode[w]: the worker's main loop
    locked,    \* locked[w]: rows held by w's open SELECT ... FOR UPDATE
    stops      \* crashes and shutdowns so far

rows  == <<status, attempts, claimed>>
tasks == <<pc, owner>>
procs == <<mode, stops>>
vars  == <<rows, tasks, procs, locked>>

Tries == 1 .. MaxAttempts
Outcomes == {"complete", "failed"}

\* States in which process_job is still going to touch the database.
LivePc == {"handling", "returned", "raised", "exhausted"}
\* States in which it may still write the job's own row.
OpenPc == {"handling", "returned", "raised"}

TypeOK ==
    /\ status \in [Jobs -> {"absent", "pending", "running"} \cup Outcomes]
    /\ attempts \in [Jobs -> 0 .. MaxAttempts]
    /\ claimed \in [Jobs -> {"null", "fresh", "stale"}]
    /\ pc \in [Jobs -> [Tries -> LivePc \cup {"none", "completed", "ended", "lost"}]]
    /\ owner \in [Jobs -> [Tries -> Workers \cup {NoWorker}]]
    /\ mode \in [Workers -> {"up", "draining", "down"}]
    /\ locked \in [Workers -> SUBSET Jobs]
    /\ stops \in 0 .. MaxStops

Init ==
    /\ status = [j \in Jobs |-> "absent"]
    /\ attempts = [j \in Jobs |-> 0]
    /\ claimed = [j \in Jobs |-> "null"]
    /\ pc = [j \in Jobs |-> [n \in Tries |-> "none"]]
    /\ owner = [j \in Jobs |-> [n \in Tries |-> NoWorker]]
    /\ mode = [w \in Workers |-> "up"]
    /\ locked = [w \in Workers |-> {}]
    /\ stops = 0

-------------------------------------------------------------------------------
(* Claiming *)

Claimable(j) == status[j] = "pending" /\ attempts[j] < MaxAttempts

\* Mutant: a plain SELECT, without FOR UPDATE SKIP LOCKED.
AllLocked_None == {}

AllLocked == UNION {locked[w] : w \in Workers}

ActiveTasks(w) == {r \in Jobs \X Tries : owner[r[1]][r[2]] = w /\ pc[r[1]][r[2]] \in LivePc}

Available(w) == Concurrency - Cardinality(ActiveTasks(w))

\* The first `limit' rows of `free' in created_at order.
Oldest(S, free, limit) ==
    /\ S \subseteq free
    /\ \A j \in S, k \in free \ S : j < k
    /\ Cardinality(S) <= limit
    /\ Cardinality(S) = limit \/ S = free

Enqueue(j) ==
    /\ status[j] = "absent"
    /\ status' = [status EXCEPT ![j] = "pending"]
    /\ UNCHANGED <<attempts, claimed, tasks, procs, locked>>

\* SELECT ... FOR UPDATE SKIP LOCKED: rows another worker is claiming are passed over.
SelectForUpdate(w) ==
    LET free == {j \in Jobs : Claimable(j)} \ AllLocked
    IN /\ mode[w] = "up"
       /\ locked[w] = {}
       /\ Available(w) > 0
       /\ \E S \in SUBSET free : /\ S # {}
                                 /\ Oldest(S, free, Available(w))
                                 /\ locked' = [locked EXCEPT ![w] = S]
       /\ UNCHANGED <<rows, tasks, procs>>

\* The commit of claim_jobs, and the create_task of every claimed job.
CommitClaim(w) ==
    LET mine(j) == j \in locked[w]
        made(j, n) == mine(j) /\ n = attempts[j] + 1
    IN /\ locked[w] # {}
       /\ status' = [j \in Jobs |-> IF mine(j) THEN "running" ELSE status[j]]
       /\ attempts' = [j \in Jobs |-> IF mine(j) THEN attempts[j] + 1 ELSE attempts[j]]
       /\ claimed' = [j \in Jobs |-> IF mine(j) THEN "fresh" ELSE claimed[j]]
       /\ pc' = [j \in Jobs |-> [n \in Tries |->
                   IF made(j, n) THEN "handling" ELSE pc[j][n]]]
       /\ owner' = [j \in Jobs |-> [n \in Tries |->
                      IF made(j, n) THEN w ELSE owner[j][n]]]
       /\ locked' = [locked EXCEPT ![w] = {}]
       /\ UNCHANGED procs
-------------------------------------------------------------------------------
(* process_job: one attempt *)

Goto(j, n, to) == pc' = [pc EXCEPT ![j][n] = to]

\* UPDATE ingestion_jobs ... WHERE id = j: waits for a row lock, checks nothing else.
SetStatus(j, to) == /\ j \notin AllLocked
                    /\ status' = [status EXCEPT ![j] = to]
                    /\ UNCHANGED <<attempts, claimed>>

HandlerReturns(j, n) == /\ pc[j][n] = "handling" /\ j \in Handled
                        /\ Goto(j, n, "returned")
                        /\ UNCHANGED <<rows, owner, procs, locked>>

HandlerRaises(j, n) == /\ pc[j][n] = "handling" /\ j \in Handled
                       /\ Goto(j, n, "raised")
                       /\ UNCHANGED <<rows, owner, procs, locked>>

UnknownType(j, n) == /\ pc[j][n] = "handling" /\ j \notin Handled
                     /\ SetStatus(j, "failed")
                     /\ Goto(j, n, "ended")
                     /\ UNCHANGED <<owner, procs, locked>>

MarkComplete(j, n) == /\ pc[j][n] = "returned"
                      /\ SetStatus(j, "complete")
                      /\ Goto(j, n, "completed")
                      /\ UNCHANGED <<owner, procs, locked>>

\* mark_complete is inside the try: a database error there counts as a failed attempt.
MarkCompleteErrs(j, n) == /\ pc[j][n] = "returned"
                          /\ Goto(j, n, "raised")
                          /\ UNCHANGED <<rows, owner, procs, locked>>

\* Mutants: no retries at all; the last retry is not made.
Exhausted_AtOnce(n) == TRUE
Exhausted_Early(n) == n + 1 >= MaxAttempts

Exhausted(n) == n >= MaxAttempts

\* mark_failed decides from the attempt's own copy of attempts, not from the row.
MarkFailed(j, n) ==
    /\ pc[j][n] = "raised"
    /\ SetStatus(j, IF Exhausted(n) THEN "failed" ELSE "pending")
    /\ Goto(j, n, IF Exhausted(n) THEN "exhausted" ELSE "ended")
    /\ UNCHANGED <<owner, procs, locked>>

\* An error in mark_failed escapes process_job: the task dies, the row stays as it is.
MarkFailedErrs(j, n) == /\ \/ pc[j][n] = "raised"
                           \/ pc[j][n] = "handling" /\ j \notin Handled
                        /\ Goto(j, n, "lost")
                        /\ UNCHANGED <<rows, owner, procs, locked>>

\* _mark_source_failed: no row of this table; errors are swallowed.
MarkSourceFailed(j, n) == /\ pc[j][n] = "exhausted"
                          /\ Goto(j, n, "ended")
                          /\ UNCHANGED <<rows, owner, procs, locked>>

TaskStep(j, n) == \/ HandlerReturns(j, n) \/ HandlerRaises(j, n) \/ UnknownType(j, n)
                  \/ MarkComplete(j, n) \/ MarkCompleteErrs(j, n)
                  \/ MarkFailed(j, n) \/ MarkFailedErrs(j, n) \/ MarkSourceFailed(j, n)
-------------------------------------------------------------------------------
(* Stale jobs *)

Running(j) == \E n \in Tries : pc[j][n] \in OpenPc

\* Time passes the cutoff of j's job type.  Without Overrun an attempt ends before it.
GoStale(j) == /\ status[j] = "running" /\ claimed[j] = "fresh"
              /\ Overrun \/ ~Running(j)
              /\ claimed' = [claimed EXCEPT ![j] = "stale"]
              /\ UNCHANGED <<status, attempts, tasks, procs, locked>>

\* Mutant: recover only the jobs that may still be retried.
Stale_Retryable(j) == status[j] = "running" /\ claimed[j] = "stale" /\ attempts[j] < MaxAttempts

Stale(j) == status[j] = "running" /\ claimed[j] = "stale"

RecoverStaleJobs(w) ==
    /\ mode[w] = "up" /\ locked[w] = {}
    /\ \E j \in Jobs : Stale(j)
    /\ status' = [j \in Jobs |-> IF Stale(j) THEN "pending" ELSE status[j]]
    /\ claimed' = [j \in Jobs |-> IF Stale(j) THEN "null" ELSE claimed[j]]
    /\ UNCHANGED <<attempts, tasks, procs, locked>>
-------------------------------------------------------------------------------
(* The worker process *)

\* The process is gone: its tasks are lost and its open transaction rolls back.
Halt(w) == /\ mode' = [mode EXCEPT ![w] = "down"]
           /\ locked' = [locked EXCEPT ![w] = {}]
           /\ pc' = [j \in Jobs |-> [n \in Tries |->
                       IF owner[j][n] = w /\ pc[j][n] \in LivePc THEN "lost" ELSE pc[j][n]]]
           /\ UNCHANGED <<rows, owner>>

Crash(w) == /\ mode[w] # "down" /\ stops < MaxStops
            /\ stops' = stops + 1
            /\ Halt(w)

Sigterm(w) == /\ mode[w] = "up" /\ stops < MaxStops
              /\ stops' = stops + 1
              /\ mode' = [mode EXCEPT ![w] = "draining"]
              /\ UNCHANGED <<rows, tasks, locked>>

\* Every task is done, or the 300 s drain limit cancels those that are not.
Exit(w) == /\ mode[w] = "draining" /\ locked[w] = {}
           /\ Halt(w)
           /\ UNCHANGED stops

Start(w) == /\ mode[w] = "down"
            /\ mode' = [mode EXCEPT ![w] = "up"]
            /\ UNCHANGED <<rows, tasks, locked, stops>>

WorkerStep(w) == \/ SelectForUpdate(w) \/ CommitClaim(w) \/ RecoverStaleJobs(w)
                 \/ Crash(w) \/ Sigterm(w) \/ Exit(w) \/ Start(w)

Next == \/ \E j \in Jobs : Enqueue(j) \/ GoStale(j)
        \/ \E j \in Jobs, n \in Tries : TaskStep(j, n)
        \/ \E w \in Workers : WorkerStep(w)

Spec == Init /\ [][Next]_vars

\* The poll loop keeps running, a stopped worker is restarted, time passes, and
\* every handler ends (each of its calls has a timeout).
Fairness ==
    /\ \A w \in Workers : /\ WF_vars(SelectForUpdate(w))
                          /\ WF_vars(CommitClaim(w))
                          /\ WF_vars(RecoverStaleJobs(w))
                          /\ WF_vars(Exit(w))
                          /\ WF_vars(Start(w))
    /\ \A j \in Jobs : WF_vars(GoStale(j))
    /\ \A j \in Jobs, n \in Tries : WF_vars(TaskStep(j, n))

FairSpec == Spec /\ Fairness
-------------------------------------------------------------------------------
(* Properties *)

\* Every claim uses up one of the job's attempts for good: crashes, restarts and
\* stale recovery never hand an attempt back, so a job that kills its worker every
\* time is tried MaxAttempts times and no more (claim_jobs, recover_stale_jobs).
AttemptsCounted ==
    \A j \in Jobs : attempts[j] = Cardinality({n \in Tries : pc[j][n] # "none"})

\* A recorded outcome is backed by an attempt that reached it: "complete" by one whose
\* handler returned, "failed" by the last allowed attempt or an unknown job_type, even
\* when several attempts of the job write its row in any order.
OutcomeEarned ==
    \A j \in Jobs :
        /\ status[j] = "complete" => \E n \in Tries : pc[j][n] = "completed"
        /\ status[j] = "failed" => attempts[j] = MaxAttempts \/ j \notin Handled

\* At most one attempt of a job may still write the job's row, across workers, crashes,
\* recovery and re-claiming.  It holds only while no attempt outlives the timeout.
OneOpenAttempt ==
    \A j \in Jobs : \A m, n \in Tries :
        pc[j][m] \in OpenPc /\ pc[j][n] \in OpenPc => m = n

\* The queue keeps the promise of JobLifecycle: bounded tries, final outcomes, and
\* giving up only when attempts are exhausted.  Again only without overruns.
Promise == INSTANCE JobLifecycle WITH life <- status, tries <- attempts
KeepsPromise == Promise!Spec

\* An outcome, once recorded, is final whatever attempt reports later
\* (mark_complete, mark_failed and recover_stale_jobs against one row).
OutcomeIsFinal ==
    [][\A j \in Jobs : status[j] \in Outcomes => status'[j] = status[j]]_vars

\* A row claim_jobs will never look at again although it has no outcome.
Stranded(j) == status[j] = "pending" /\ attempts[j] = MaxAttempts

\* Every job that is queued comes to rest: it has an outcome for good, or it is left
\* "pending" with no attempts after its last attempt was lost and recovered.
ComesToRest ==
    \A j \in Jobs : status[j] = "pending" ~> [](status[j] \in Outcomes \/ Stranded(j))

\* Every job that is queued is completed or failed in the end.
EveryJobEnds == \A j \in Jobs : status[j] = "pending" ~> status[j] \in Outcomes
===============================================================================
