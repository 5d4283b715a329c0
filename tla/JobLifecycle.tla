----------------------------- MODULE JobLifecycle -----------------------------
(***************************************************************************)
(* What the ingestion_jobs table promises of a job, whoever works on it:   *)
(* it is tried at most MaxAttempts times, its outcome ("complete" or       *)
(* "failed") is final, and it is given up only once its attempts are used  *)
(* up, or when no handler knows its type.  JobQueue is the queue that is   *)
(* meant to keep this promise.                                             *)
(***************************************************************************)
EXTENDS Naturals

CONSTANTS Jobs,         \* rows of ingestion_jobs
          Handled,      \* those whose job_type has a handler
          MaxAttempts   \* max_attempts

VARIABLES life, tries

vars == <<life, tries>>

Init == /\ life = [j \in Jobs |-> "absent"]
        /\ tries = [j \in Jobs |-> 0]

Move(S, from, to) ==
    /\ \A j \in S : life[j] = from
    /\ life' = [j \in Jobs |-> IF j \in S THEN to ELSE life[j]]

Submit(j) == Move({j}, "absent", "pending") /\ UNCHANGED tries

Begin(S) == /\ Move(S, "pending", "running")
            /\ \A j \in S : tries[j] < MaxAttempts
            /\ tries' = [j \in Jobs |-> IF j \in S THEN tries[j] + 1 ELSE tries[j]]

Finish(j) == Move({j}, "running", "complete") /\ UNCHANGED tries

Retry(S) == Move(S, "running", "pending") /\ UNCHANGED tries

GiveUp(j) == /\ tries[j] = MaxAttempts \/ j \notin Handled
             /\ Move({j}, "running", "failed")
             /\ UNCHANGED tries

Next == \/ \E j \in Jobs : Submit(j) \/ Finish(j) \/ GiveUp(j)
        \/ \E S \in SUBSET Jobs : Begin(S) \/ Retry(S)

Spec == Init /\ [][Next]_vars
===============================================================================
