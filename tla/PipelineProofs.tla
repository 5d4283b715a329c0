---------------------------- MODULE PipelineProofs ----------------------------
(***************************************************************************)
(* Theorems about JobQueue, for any jobs, workers, attempts and slots, and *)
(* about Pipeline, which adds to it any sources, uploads and crawls.       *)
(***************************************************************************)
EXTENDS Pipeline, FiniteSetTheorems, TLAPS

(***************************************************************************)
(* The inductive invariant.  ClaimsNumbered says the attempts made are     *)
(* exactly 1 .. attempts[j]; LocksSound that a row being claimed is        *)
(* claimable and locked by one worker; Timely, which needs ~Overrun, that  *)
(* only the latest attempt can still write the row, that the row is then   *)
(* "running", and that a stale row has no such attempt.                    *)
(***************************************************************************)
ClaimsNumbered == \A j \in Jobs, n \in Tries : pc[j][n] # "none" <=> n <= attempts[j]

LocksSound ==
    /\ \A w \in Workers : \A j \in locked[w] : Claimable(j)
    /\ \A v, w \in Workers : v # w => locked[v] \cap locked[w] = {}

Timely ==
    /\ \A j \in Jobs, n \in Tries :
          pc[j][n] \in OpenPc => n = attempts[j] /\ status[j] = "running"
    /\ \A j \in Jobs : Stale(j) => ~Running(j)

Ledger == TypeOK /\ LocksSound /\ ClaimsNumbered
IInv == Ledger /\ Timely

-------------------------------------------------------------------------------
(* The steps of one attempt change its pc and at most its job's status. *)

\* It either leaves the row alone or sets its status, which no claim in progress holds.
TaskShape(j, n) ==
    /\ pc[j][n] \in LivePc
    /\ \E to \in LivePc \cup {"completed", "ended", "lost"} :
          pc' = [pc EXCEPT ![j][n] = to]
    /\ pc'[j][n] \in OpenPc => pc[j][n] \in OpenPc
    /\ UNCHANGED <<attempts, claimed, owner, mode, stops, locked>>
    /\ \/ UNCHANGED status
       \/ /\ pc[j][n] \in OpenPc
          /\ pc'[j][n] \notin OpenPc
          /\ j \notin AllLocked
          /\ \E st \in {"pending"} \cup Outcomes : status' = [status EXCEPT ![j] = st]

\* Every step of process_job has that shape.
LEMMA TaskStepShape ==
  ASSUME TypeOK, NEW j \in Jobs, NEW n \in Tries, TaskStep(j, n)
  PROVE  TaskShape(j, n)
<1> USE DEF LivePc, OpenPc, Goto, SetStatus, Outcomes, TypeOK, TaskShape, rows, procs
<1>1. CASE HandlerReturns(j, n)
  BY <1>1 DEF HandlerReturns
<1>2. CASE HandlerRaises(j, n)
  BY <1>2 DEF HandlerRaises
<1>3. CASE UnknownType(j, n)
  BY <1>3 DEF UnknownType
<1>4. CASE MarkComplete(j, n)
  BY <1>4 DEF MarkComplete
<1>5. CASE MarkCompleteErrs(j, n)
  BY <1>5 DEF MarkCompleteErrs
<1>6. CASE MarkFailed(j, n)
  BY <1>6 DEF MarkFailed
<1>7. CASE MarkFailedErrs(j, n)
  BY <1>7 DEF MarkFailedErrs
<1>8. CASE MarkSourceFailed(j, n)
  BY <1>8 DEF MarkSourceFailed
<1> QED
  BY <1>1, <1>2, <1>3, <1>4, <1>5, <1>6, <1>7, <1>8 DEF TaskStep

-------------------------------------------------------------------------------
\* The table as created satisfies the whole invariant.
LEMMA InitInv == Init => IInv
<1> SUFFICES ASSUME Init PROVE IInv
  OBVIOUS
<1> USE WorkersAssumption, BoundsAssumption DEF Init
<1>1. TypeOK
  BY DEF TypeOK, Tries, Outcomes, LivePc
<1>2. LocksSound
  BY DEF LocksSound
<1>3. ClaimsNumbered
  BY DEF ClaimsNumbered, Tries
<1>4. Timely
  BY DEF Timely, Stale, OpenPc
<1> QED
  BY <1>1, <1>2, <1>3, <1>4 DEF IInv, Ledger

\* Every step keeps the types; a claim's attempts + 1 stays within max_attempts because
\* the rows it holds are still claimable when it commits.
LEMMA TypeStep ==
  ASSUME TypeOK, LocksSound, [Next]_vars
  PROVE  TypeOK'
<1> USE DEF TypeOK
<1>1. CASE UNCHANGED vars
  BY <1>1 DEF vars, rows, tasks, procs
<1>2. ASSUME NEW j \in Jobs, Enqueue(j) PROVE TypeOK'
  BY <1>2 DEF Enqueue, tasks, procs
<1>3. ASSUME NEW j \in Jobs, GoStale(j) PROVE TypeOK'
  BY <1>3 DEF GoStale, tasks, procs
<1>4. ASSUME NEW j \in Jobs, NEW n \in Tries, TaskStep(j, n) PROVE TypeOK'
  <2>1. TaskShape(j, n)
    BY <1>4, TaskStepShape
  <2>2. pc' \in [Jobs -> [Tries -> LivePc \cup {"none", "completed", "ended", "lost"}]]
    BY <2>1 DEF TaskShape
  <2>3. status' \in [Jobs -> {"absent", "pending", "running"} \cup Outcomes]
    BY <2>1 DEF TaskShape
  <2> QED
    BY <2>1, <2>2, <2>3 DEF TaskShape
<1>5. ASSUME NEW w \in Workers, WorkerStep(w) PROVE TypeOK'
  <2>1. CASE SelectForUpdate(w)
    BY <2>1 DEF SelectForUpdate, rows, tasks, procs
  <2>2. CASE CommitClaim(w)
    <3>1. \A j \in locked[w] : attempts[j] + 1 \in 0 .. MaxAttempts
      BY <1>5, BoundsAssumption DEF LocksSound, Claimable
    <3> QED
      BY <2>2, <3>1 DEF CommitClaim, procs, LivePc
  <2>3. CASE RecoverStaleJobs(w)
    BY <2>3 DEF RecoverStaleJobs, tasks, procs
  <2>4. CASE Crash(w)
    BY <2>4, BoundsAssumption DEF Crash, Halt, rows
  <2>5. CASE Sigterm(w)
    BY <2>5, BoundsAssumption DEF Sigterm, rows, tasks
  <2>6. CASE Exit(w)
    BY <2>6 DEF Exit, Halt, rows
  <2>7. CASE Start(w)
    BY <2>7 DEF Start, rows, tasks
  <2> QED
    BY <1>5, <2>1, <2>2, <2>3, <2>4, <2>5, <2>6, <2>7 DEF WorkerStep
<1> QED
  BY <1>1, <1>2, <1>3, <1>4, <1>5 DEF Next

\* A claim in progress keeps its rows claimable and to itself.
LEMMA LocksStep ==
  ASSUME TypeOK, LocksSound, [Next]_vars
  PROVE  LocksSound'
<1> USE DEF TypeOK, LocksSound, Claimable
<1>1. CASE UNCHANGED vars
  BY <1>1 DEF vars, rows, tasks, procs
<1>2. ASSUME NEW j \in Jobs, Enqueue(j) PROVE LocksSound'
  BY <1>2 DEF Enqueue
<1>3. ASSUME NEW j \in Jobs, GoStale(j) PROVE LocksSound'
  BY <1>3 DEF GoStale
<1>4. ASSUME NEW j \in Jobs, NEW n \in Tries, TaskStep(j, n) PROVE LocksSound'
  <2>1. TaskShape(j, n)
    BY <1>4, TaskStepShape
  <2>2. \A w \in Workers : \A k \in locked[w] : status'[k] = status[k]
    BY <2>1 DEF TaskShape, AllLocked
  <2> QED
    BY <2>1, <2>2 DEF TaskShape
<1>5. ASSUME NEW w \in Workers, WorkerStep(w) PROVE LocksSound'
  <2>1. CASE SelectForUpdate(w)
    <3>1. PICK S \in SUBSET ({j \in Jobs : Claimable(j)} \ AllLocked) :
             locked' = [locked EXCEPT ![w] = S]
      BY <2>1 DEF SelectForUpdate
    <3>2. \A v \in Workers \ {w} : S \cap locked[v] = {}
      BY <3>1 DEF AllLocked
    <3> QED
      BY <2>1, <3>1, <3>2 DEF SelectForUpdate, rows
  <2>2. CASE CommitClaim(w)
    <3>1. \A v \in Workers \ {w} : \A j \in locked[v] : j \notin locked[w]
      OBVIOUS
    <3> QED
      BY <2>2, <3>1 DEF CommitClaim
  <2>3. CASE RecoverStaleJobs(w)
    BY <2>3 DEF RecoverStaleJobs, Stale
  <2>4. CASE Crash(w) \/ Exit(w)
    BY ZenonT(60), <2>4 DEF Crash, Exit, Halt, rows
  <2>5. CASE Sigterm(w) \/ Start(w)
    BY <2>5 DEF Sigterm, Start, rows
  <2> QED
    BY <1>5, <2>1, <2>2, <2>3, <2>4, <2>5 DEF WorkerStep
<1> QED
  BY <1>1, <1>2, <1>3, <1>4, <1>5 DEF Next

\* The attempts ever made of a job are exactly those numbered 1 to its attempts column.
LEMMA NumberedStep ==
  ASSUME Ledger, [Next]_vars
  PROVE  ClaimsNumbered'
<1> USE DEF Ledger, TypeOK, ClaimsNumbered
<1>1. CASE UNCHANGED <<pc, attempts>>
  BY <1>1
<1>2. ASSUME NEW j \in Jobs, NEW n \in Tries, TaskStep(j, n) PROVE ClaimsNumbered'
  <2>1. TaskShape(j, n)
    BY <1>2, TaskStepShape
  <2> QED
    BY <2>1 DEF TaskShape, LivePc
<1>3. ASSUME NEW w \in Workers, CommitClaim(w) PROVE ClaimsNumbered'
  <2>1. \A j \in locked[w] : j \in Jobs /\ attempts[j] < MaxAttempts
    BY DEF LocksSound, Claimable
  <2>2. ASSUME NEW j \in Jobs, NEW n \in Tries
        PROVE  (pc'[j][n] # "none") <=> (n <= attempts'[j])
    BY <1>3, <2>1, BoundsAssumption DEF CommitClaim, Tries
  <2> QED
    BY <2>2
<1>4. ASSUME NEW w \in Workers, Halt(w) PROVE ClaimsNumbered'
  BY <1>4 DEF Halt, rows, LivePc
<1> QED
  BY <1>1, <1>2, <1>3, <1>4 DEF Next, WorkerStep, Enqueue, GoStale, SelectForUpdate,
     RecoverStaleJobs, Crash, Sigterm, Exit, Start, vars, rows, tasks

\* Without overruns, only a job's latest attempt can write its row, which is "running"
\* until it does: recovery takes a job away only from an attempt that is over.
LEMMA TimelyStep ==
  ASSUME ~Overrun, IInv, [Next]_vars
  PROVE  Timely'
<1> USE DEF IInv, Ledger, TypeOK, Timely, Stale, Running
<1>1. CASE UNCHANGED <<pc, attempts, status, claimed>>
  BY <1>1
<1>2. ASSUME NEW j \in Jobs, Enqueue(j) PROVE Timely'
  BY <1>2 DEF Enqueue, tasks
<1>3. ASSUME NEW j \in Jobs, GoStale(j) PROVE Timely'
  BY <1>3 DEF GoStale, tasks
<1>4. ASSUME NEW j \in Jobs, NEW n \in Tries, TaskStep(j, n) PROVE Timely'
  <2>1. TaskShape(j, n)
    BY <1>4, TaskStepShape
  <2>2. \A k \in Jobs, m \in Tries : pc'[k][m] \in OpenPc => pc[k][m] \in OpenPc
    BY <2>1 DEF TaskShape
  <2>3. CASE UNCHANGED status
    BY <2>1, <2>2, <2>3 DEF TaskShape
  <2>4. CASE status' # status
    <3>1. \A m \in Tries : pc'[j][m] \notin OpenPc
      BY <2>1, <2>2, <2>4 DEF TaskShape
    <3> QED
      BY <2>1, <2>2, <2>4, <3>1 DEF TaskShape, Outcomes
  <2> QED
    BY <2>3, <2>4
<1>5. ASSUME NEW w \in Workers, CommitClaim(w) PROVE Timely'
  <2>1. \A j \in locked[w] : j \in Jobs /\ Claimable(j)
    BY DEF LocksSound
  <2>2. \A j \in locked[w], n \in Tries : pc[j][n] \notin OpenPc
    BY <2>1 DEF Claimable
  <2>3. ASSUME NEW j \in Jobs, NEW n \in Tries, pc'[j][n] \in OpenPc
        PROVE  n = attempts'[j] /\ status'[j] = "running"
    BY <1>5, <2>2, <2>3 DEF CommitClaim
  <2>4. ASSUME NEW j \in Jobs, Stale(j)' PROVE ~Running(j)'
    BY <1>5, <2>4 DEF CommitClaim
  <2> QED
    BY <2>3, <2>4
<1>6. ASSUME NEW w \in Workers, RecoverStaleJobs(w) PROVE Timely'
  BY <1>6 DEF RecoverStaleJobs, tasks
<1>7. ASSUME NEW w \in Workers, Halt(w) PROVE Timely'
  BY <1>7 DEF Halt, rows, OpenPc
<1> QED
  BY <1>1, <1>2, <1>3, <1>4, <1>5, <1>6, <1>7 DEF Next, WorkerStep, SelectForUpdate,
     Crash, Sigterm, Exit, Start, vars, rows, tasks

-------------------------------------------------------------------------------
\* Types, attempt numbers and claim locks are sound in every behaviour, overruns or not.
THEOREM LedgerSound == Spec => []Ledger
<1>1. Init => Ledger
  BY InitInv DEF IInv
<1>2. Ledger /\ [Next]_vars => Ledger'
  BY TypeStep, LocksStep, NumberedStep DEF Ledger
<1> QED
  BY <1>1, <1>2, PTL DEF Spec

\* The whole invariant, for a queue whose attempts end before the stale-job timeout.
LEMMA TimelySound == ~Overrun /\ Spec => []IInv
<1> SUFFICES ASSUME ~Overrun PROVE Spec => []IInv
  OBVIOUS
<1>1. Init => IInv
  BY InitInv
<1>2. IInv /\ [Next]_vars => IInv'
  BY TypeStep, LocksStep, NumberedStep, TimelyStep DEF IInv, Ledger
<1> QED
  BY <1>1, <1>2, PTL DEF Spec

\* Every variable keeps its type, for any number of jobs, workers, attempts and stops.
THEOREM TypeCorrect == Spec => []TypeOK
<1>1. Ledger => TypeOK
  BY DEF Ledger
<1> QED
  BY <1>1, LedgerSound, PTL

\* Attempts are never handed back: the attempts column counts the claims ever made.
THEOREM AttemptsAreCounted == Spec => []AttemptsCounted
<1>1. Ledger => AttemptsCounted
  <2> SUFFICES ASSUME Ledger, NEW j \in Jobs
               PROVE  attempts[j] = Cardinality({n \in Tries : pc[j][n] # "none"})
    BY DEF AttemptsCounted
  <2>1. attempts[j] \in 0 .. MaxAttempts
    BY DEF Ledger, TypeOK
  <2>2. {n \in Tries : pc[j][n] # "none"} = 1 .. attempts[j]
    BY <2>1, BoundsAssumption DEF Ledger, ClaimsNumbered, Tries
  <2>3. Cardinality(1 .. attempts[j]) = attempts[j]
    BY <2>1, FS_Interval
  <2> QED
    BY <2>2, <2>3
<1> QED
  BY <1>1, LedgerSound, PTL

\* "complete" needs a handler that returned, "failed" the last attempt or an unknown
\* type, even when overrun attempts overwrite one another (mark_complete, mark_failed).
THEOREM OutcomesEarned == Spec => []OutcomeEarned
<1>1. Init => OutcomeEarned
  BY DEF Init, OutcomeEarned
<1>2. ASSUME Ledger, OutcomeEarned, [Next]_vars PROVE OutcomeEarned'
  <2> USE DEF Ledger, TypeOK, OutcomeEarned
  <2>1. CASE UNCHANGED <<status, attempts, pc>>
    BY <1>2, <2>1
  <2>2. ASSUME NEW j \in Jobs, Enqueue(j) PROVE OutcomeEarned'
    BY <1>2, <2>2 DEF Enqueue, tasks
  <2>3. ASSUME NEW j \in Jobs, NEW n \in Tries, TaskStep(j, n) PROVE OutcomeEarned'
    <3>1. TaskShape(j, n)
      BY <1>2, <2>3, TaskStepShape
    <3>2. \A k \in Jobs, m \in Tries : pc[k][m] = "completed" => pc'[k][m] = "completed"
      BY <1>2, <3>1 DEF TaskShape, LivePc
    <3>3. \/ status' = [status EXCEPT ![j] = "failed"] /\ (n >= MaxAttempts \/ j \notin Handled)
          \/ status' = [status EXCEPT ![j] = "complete"] /\ pc'[j][n] = "completed"
          \/ status' = [status EXCEPT ![j] = "pending"]
          \/ status' = status
      BY <1>2, <2>3 DEF TaskStep, HandlerReturns, HandlerRaises, UnknownType, MarkComplete,
         MarkCompleteErrs, MarkFailed, MarkFailedErrs, MarkSourceFailed, SetStatus, Goto, Exhausted, rows
    <3>4. n >= MaxAttempts => attempts[j] = MaxAttempts
      <4>1. n <= attempts[j]
        BY <1>2, <3>1 DEF TaskShape, LivePc, ClaimsNumbered
      <4> QED
        BY <1>2, <4>1, BoundsAssumption DEF Tries
    <3>5. attempts' = attempts
      BY <3>1 DEF TaskShape
    <3> QED
      BY <1>2, <3>2, <3>3, <3>4, <3>5
  <2>4. ASSUME NEW w \in Workers, CommitClaim(w) PROVE OutcomeEarned'
    <3>1. \A j \in Jobs, n \in Tries : pc[j][n] = "completed" => pc'[j][n] = "completed"
      <4>1. ASSUME NEW j \in Jobs, NEW n \in Tries, pc[j][n] = "completed"
            PROVE  n <= attempts[j]
        BY <1>2, <4>1 DEF ClaimsNumbered
      <4> QED
        BY <1>2, <2>4, <4>1, BoundsAssumption DEF CommitClaim, Tries
    <3>2. \A j \in Jobs : status'[j] \in Outcomes =>
             status[j] = status'[j] /\ attempts[j] = attempts'[j]
      BY <1>2, <2>4 DEF CommitClaim, Outcomes
    <3> QED
      BY <1>2, <3>1, <3>2 DEF Outcomes
  <2>5. ASSUME NEW w \in Workers, RecoverStaleJobs(w) PROVE OutcomeEarned'
    BY <1>2, <2>5 DEF RecoverStaleJobs, tasks
  <2>6. ASSUME NEW w \in Workers, Halt(w) PROVE OutcomeEarned'
    BY <1>2, <2>6 DEF Halt, LivePc, rows
  <2> QED
    BY <1>2, <2>1, <2>2, <2>3, <2>4, <2>5, <2>6 DEF Next, WorkerStep, SelectForUpdate,
       GoStale, Crash, Sigterm, Exit, Start, vars, rows, tasks
<1> QED
  BY <1>1, <1>2, LedgerSound, PTL DEF Spec

\* Two attempts of one job never both stand before a write of its row (claim_jobs,
\* recover_stale_jobs, process_job), as long as no attempt outlives the timeout.
THEOREM AttemptsExclusive == ~Overrun /\ Spec => []OneOpenAttempt
<1>1. IInv => OneOpenAttempt
  BY DEF IInv, Timely, OneOpenAttempt
<1> QED
  BY <1>1, TimelySound, PTL

\* An outcome is final under the same assumption (mark_complete, mark_failed,
\* recover_stale_jobs and claim_jobs leave a finished row alone).
THEOREM OutcomesFinal == ~Overrun /\ Spec => OutcomeIsFinal
<1>1. ASSUME IInv, [Next]_vars, NEW j \in Jobs, status[j] \in Outcomes
      PROVE  status'[j] = status[j]
  <2> USE DEF IInv, Ledger, TypeOK, Outcomes
  <2>1. CASE UNCHANGED status
    BY <2>1
  <2>2. ASSUME NEW k \in Jobs, Enqueue(k) PROVE status'[j] = status[j]
    BY <1>1, <2>2 DEF Enqueue
  <2>3. ASSUME NEW k \in Jobs, NEW n \in Tries, TaskStep(k, n) PROVE status'[j] = status[j]
    <3>1. TaskShape(k, n)
      BY <1>1, <2>3, TaskStepShape
    <3>2. pc[j][n] \notin OpenPc
      BY <1>1 DEF Timely
    <3>3. CASE j = k
      BY <1>1, <3>1, <3>2, <3>3 DEF TaskShape
    <3>4. CASE j # k
      BY <1>1, <3>1, <3>4 DEF TaskShape
    <3> QED
      BY <3>3, <3>4
  <2>4. ASSUME NEW w \in Workers, CommitClaim(w) PROVE status'[j] = status[j]
    BY <1>1, <2>4 DEF CommitClaim, LocksSound, Claimable
  <2>5. ASSUME NEW w \in Workers, RecoverStaleJobs(w) PROVE status'[j] = status[j]
    BY <1>1, <2>5 DEF RecoverStaleJobs, Stale
  <2> QED
    BY <1>1, <2>1, <2>2, <2>3, <2>4, <2>5 DEF Next, WorkerStep, SelectForUpdate, GoStale,
       Crash, Sigterm, Exit, Start, Halt, vars, rows
<1>2. IInv /\ [Next]_vars => [\A j \in Jobs : status[j] \in Outcomes => status'[j] = status[j]]_vars
  BY <1>1
<1> QED
  BY <1>2, TimelySound, PTL DEF Spec, OutcomeIsFinal

-------------------------------------------------------------------------------
(* JobQueue implements JobLifecycle *)

\* A step of one attempt finishes, retries or gives up its job, or leaves it alone.
LEMMA TaskStepRefines ==
  ASSUME IInv, NEW j \in Jobs, NEW n \in Tries, TaskStep(j, n)
  PROVE  [Promise!Next]_<<status, attempts>>
<1> USE DEF IInv, Ledger, TypeOK, OpenPc, Outcomes, Promise!Move
<1>1. pc[j][n] \in OpenPc => n = attempts[j] /\ status[j] = "running"
  BY DEF Timely
<1>2. CASE UnknownType(j, n)
  <2>1. Promise!GiveUp(j)
    BY <1>1, <1>2 DEF UnknownType, SetStatus, Promise!GiveUp
  <2> QED
    BY <2>1 DEF Promise!Next
<1>3. CASE MarkComplete(j, n)
  <2>1. Promise!Finish(j)
    BY <1>1, <1>3 DEF MarkComplete, SetStatus, Promise!Finish
  <2> QED
    BY <2>1 DEF Promise!Next
<1>4. CASE MarkFailed(j, n) /\ Exhausted(n)
  <2>1. n = MaxAttempts
    BY <1>4, BoundsAssumption DEF Tries, Exhausted
  <2>2. Promise!GiveUp(j)
    BY <1>1, <1>4, <2>1 DEF MarkFailed, SetStatus, Promise!GiveUp
  <2> QED
    BY <2>2 DEF Promise!Next
<1>5. CASE MarkFailed(j, n) /\ ~Exhausted(n)
  <2>1. Promise!Retry({j})
    BY <1>1, <1>5 DEF MarkFailed, SetStatus, Promise!Retry
  <2> QED
    BY <2>1 DEF Promise!Next
<1>6. CASE HandlerReturns(j, n) \/ HandlerRaises(j, n) \/ MarkCompleteErrs(j, n)
           \/ MarkFailedErrs(j, n) \/ MarkSourceFailed(j, n)
  BY <1>6 DEF HandlerReturns, HandlerRaises, MarkCompleteErrs, MarkFailedErrs,
     MarkSourceFailed, rows
<1> QED
  BY <1>2, <1>3, <1>4, <1>5, <1>6 DEF TaskStep

\* A claim begins exactly the jobs it locked; recovery retries exactly the stale ones.
LEMMA WorkerStepRefines ==
  ASSUME IInv, NEW w \in Workers, WorkerStep(w)
  PROVE  [Promise!Next]_<<status, attempts>>
<1> USE DEF IInv, Ledger, TypeOK, Promise!Move
<1>1. CASE CommitClaim(w)
  <2>1. locked[w] \in SUBSET Jobs /\ \A j \in locked[w] : Claimable(j)
    BY DEF LocksSound
  <2>2. Promise!Begin(locked[w])
    BY <1>1, <2>1 DEF CommitClaim, Claimable, Promise!Begin
  <2> QED
    BY <2>1, <2>2 DEF Promise!Next
<1>2. CASE RecoverStaleJobs(w)
  <2> DEFINE S == {j \in Jobs : Stale(j)}
  <2>1. Promise!Retry(S)
    BY <1>2 DEF RecoverStaleJobs, Stale, Promise!Retry
  <2>2. S \in SUBSET Jobs
    OBVIOUS
  <2> QED
    BY <2>1, <2>2 DEF Promise!Next
<1>3. CASE SelectForUpdate(w) \/ Crash(w) \/ Sigterm(w) \/ Exit(w) \/ Start(w)
  BY <1>3 DEF SelectForUpdate, Crash, Sigterm, Exit, Start, Halt, rows
<1> QED
  BY <1>1, <1>2, <1>3 DEF WorkerStep

\* The queue of app/worker.py keeps the promise of JobLifecycle as long as no attempt
\* outlives the stale-job timeout.
THEOREM QueueKeepsPromise == ~Overrun /\ Spec => KeepsPromise
<1> SUFFICES ASSUME ~Overrun PROVE Spec => KeepsPromise
  OBVIOUS
<1>1. Init => Promise!Init
  BY DEF Init, Promise!Init
<1>2. ASSUME IInv, [Next]_vars PROVE [Promise!Next]_<<status, attempts>>
  <2>1. CASE UNCHANGED vars
    BY <2>1 DEF vars, rows
  <2>2. ASSUME NEW j \in Jobs, Enqueue(j) PROVE [Promise!Next]_<<status, attempts>>
    <3>1. Promise!Submit(j)
      BY <1>2, <2>2 DEF Enqueue, IInv, Ledger, TypeOK, Promise!Submit, Promise!Move
    <3> QED
      BY <3>1 DEF Promise!Next
  <2>3. ASSUME NEW j \in Jobs, GoStale(j) PROVE [Promise!Next]_<<status, attempts>>
    BY <2>3 DEF GoStale
  <2> QED
    BY <1>2, <2>1, <2>2, <2>3, TaskStepRefines, WorkerStepRefines DEF Next
<1>3. IInv /\ [Next]_vars => [Promise!Next]_Promise!vars
  BY <1>2 DEF Promise!vars
<1> QED
  BY <1>1, <1>3, TimelySound, PTL DEF Spec, KeepsPromise, Promise!Spec
-------------------------------------------------------------------------------
(* The pipeline *)

(***************************************************************************)
(* Every step of the pipeline is a step of the queue or leaves it alone,   *)
(* so what is proved of JobQueue holds of the pipeline.                    *)
(***************************************************************************)
LEMMA PipelineStep == [PipeNext]_pvars => [Next]_vars
<1> SUFFICES ASSUME PipeNext PROVE [Next]_vars
  BY DEF pvars
<1>1. CASE Request
  <2>1. ASSUME NEW j \in Jobs, Enqueue(j) PROVE Next
    BY <2>1 DEF Next
  <2> QED
    BY <1>1, <2>1 DEF Request, QueueUrl, QueueFile, QueueR2File, QueueCrawl, Reingest,
                      DeleteSource, Put
<1>2. ASSUME NEW j \in Jobs, NEW n \in Tries, Handler(j, n) PROVE [Next]_vars
  <2>1. CASE \E k \in Jobs : CrawledPage(j, n, k)
    BY <2>1 DEF CrawledPage, Next
  <2>2. CASE \/ Fetch(j, n) \/ Ingest(j, n) \/ DeleteObject(j, n)
             \/ \E s \in Sources : FailedPage(j, n, s)
             \/ NoRootPage(j, n) \/ FinishCrawl(j, n)
    BY <2>2 DEF Fetch, Ingest, DeleteObject, FailedPage, NoRootPage, FinishCrawl
  <2>3. CASE Return(j, n) \/ Raise(j, n) \/ FailSource(j, n) \/ Report(j, n)
    BY <2>3 DEF Return, Raise, FailSource, Report, TaskStep, Next
  <2> QED
    BY <1>2, <2>1, <2>2, <2>3 DEF Handler
<1>3. CASE Scheduling
  BY <1>3 DEF Scheduling, Next
<1> QED
  BY <1>1, <1>2, <1>3 DEF PipeNext

\* The pipeline touches the job table only through the queue's own operations.
LEMMA PipelineIsQueue == PipeSpec => Spec
<1>1. PipeInit => Init
  BY DEF PipeInit
<1> QED
  BY <1>1, PipelineStep, PTL DEF PipeSpec, Spec

\* So a job's outcome is earned in the pipeline too, whatever its handler is.
COROLLARY PipelineOutcomesEarned == PipeSpec => []OutcomeEarned
BY PipelineIsQueue, OutcomesEarned, PTL
-------------------------------------------------------------------------------
(***************************************************************************)
(* Uploads.  An attempt that has come to "done" has ingested: its target   *)
(* has content, which only deleting the source takes away again.           *)
(***************************************************************************)
HasContent(s) == content[s] # "never" \/ s \in Deletable

UploadInv ==
    /\ PipeTypeOK
    /\ \A j \in Jobs, n \in Tries :
          Kind[j] = "r2_file" /\ step[j][n] \in {"done", "deleted"} => HasContent(Target[j])
    /\ ObjectKeptUntilIngested

\* Content, once there, stays until a deletion.
LEMMA ContentStays ==
  ASSUME PipeTypeOK, PipelineAssumption, [PipeNext]_pvars, NEW s \in Sources, HasContent(s)
  PROVE  HasContent(s)'
<1>1. CASE UNCHANGED content
  BY <1>1 DEF HasContent
<1>2. ASSUME NEW t \in Sources, IngestContent(t) PROVE HasContent(s)'
  BY <1>2 DEF IngestContent, SameText, NoText, NewText, HasContent, PipeTypeOK
<1>3. ASSUME NEW t \in Sources, DeleteSource(t) PROVE HasContent(s)'
  BY <1>3 DEF DeleteSource, HasContent, PipeTypeOK
<1>4. CASE Request
  BY <1>1, <1>2, <1>3, <1>4 DEF Request, QueueUrl, QueueFile, QueueR2File, QueueCrawl,
                                Reingest, Put
<1>5. ASSUME NEW j \in Jobs, NEW n \in Tries, Handler(j, n) PROVE HasContent(s)'
  <2>1. CASE Ingest(j, n)
    BY <2>1, <1>2 DEF Ingest, PipelineAssumption
  <2>2. CASE ~Ingest(j, n)
    BY <2>2, <1>1, <1>5 DEF Handler, Fetch, DeleteObject, CrawledPage, FailedPage, NoRootPage,
                            FinishCrawl, Return, Raise, FailSource, Report, world, sources
  <2> QED
    BY <2>1, <2>2
<1>6. CASE Scheduling
  BY <1>1, <1>6 DEF Scheduling, world, sources
<1>7. CASE UNCHANGED pvars
  BY <1>1, <1>7 DEF pvars, world, sources
<1> QED
  BY <1>4, <1>5, <1>6, <1>7 DEF PipeNext

\* The three ways a synchronous ingest ends keep the types of the source.
LEMMA IngestTyped ==
  ASSUME PipeTypeOK, NEW s \in Sources, IngestContent(s),
         UNCHANGED <<objects, step, seen>>
  PROVE  PipeTypeOK'
<1> USE DEF PipeTypeOK, Busy, SetState, SetRaw
<1>1. CASE SameText(s)
  BY <1>1 DEF SameText
<1>2. CASE NoText(s)
  BY <1>2 DEF NoText
<1>3. CASE NewText(s)
  BY <1>3 DEF NewText
<1> QED
  BY <1>1, <1>2, <1>3 DEF IngestContent

\* A request keeps the types.
LEMMA RequestTyped == ASSUME PipeTypeOK, PipelineAssumption, Request PROVE PipeTypeOK'
<1> USE DEF PipeTypeOK, Busy, SetState, SetRaw, inner
<1>1. ASSUME NEW j \in Jobs, QueueUrl(j) \/ QueueR2File(j) \/ QueueCrawl(j) PROVE PipeTypeOK'
  BY <1>1 DEF QueueUrl, QueueR2File, QueueCrawl, PipelineAssumption
<1>2. ASSUME NEW j \in Jobs, QueueFile(j) PROVE PipeTypeOK'
  BY <1>2 DEF QueueFile, PipelineAssumption
<1>3. ASSUME NEW j \in Jobs, Reingest(j) PROVE PipeTypeOK'
  BY <1>3 DEF Reingest, PipelineAssumption
<1>4. ASSUME NEW s \in Sources, DeleteSource(s) PROVE PipeTypeOK'
  BY <1>4 DEF DeleteSource
<1>5. ASSUME NEW s \in Sources, Put(s) PROVE PipeTypeOK'
  BY <1>5, IngestTyped DEF Put
<1> QED
  BY <1>1, <1>2, <1>3, <1>4, <1>5 DEF Request

\* A handler keeps the types.
LEMMA HandlerTyped ==
  ASSUME PipeTypeOK, PipelineAssumption, NEW j \in Jobs, NEW n \in Tries, Handler(j, n)
  PROVE  PipeTypeOK'
<1> USE DEF PipeTypeOK, Busy, SetState, SetRaw, GoOn, Saw, world, sources, inner
<1>1. CASE Fetch(j, n) \/ NoRootPage(j, n) \/ DeleteObject(j, n)
  <2>1. CASE Fetch(j, n)
    BY <2>1 DEF Fetch
  <2>2. CASE NoRootPage(j, n)
    BY <2>2 DEF NoRootPage
  <2>3. CASE DeleteObject(j, n)
    BY <2>3 DEF DeleteObject
  <2> QED
    BY <1>1, <2>1, <2>2, <2>3
<1>2. CASE Ingest(j, n)
  <2>1. Target[j] \in Sources
    BY DEF PipelineAssumption
  <2>2. step' \in [Jobs -> [Tries -> {"start", "fetched", "barren", "done", "deleted", "unheard"}]]
    BY <1>2 DEF Ingest
  <2>3. CASE SameText(Target[j])
    BY <1>2, <2>1, <2>2, <2>3 DEF Ingest, SameText
  <2>4. CASE NoText(Target[j])
    BY <1>2, <2>1, <2>2, <2>4 DEF Ingest, NoText
  <2>5. CASE NewText(Target[j])
    BY <1>2, <2>1, <2>2, <2>5 DEF Ingest, NewText
  <2> QED
    BY <1>2, <2>3, <2>4, <2>5 DEF Ingest, IngestContent
<1>3. ASSUME NEW k \in Jobs, CrawledPage(j, n, k) PROVE PipeTypeOK'
  BY <1>3 DEF CrawledPage, PipelineAssumption
<1>4. ASSUME NEW s \in Sources, FailedPage(j, n, s) PROVE PipeTypeOK'
  BY <1>4 DEF FailedPage
<1>5. CASE FinishCrawl(j, n)
  BY <1>5 DEF FinishCrawl, PipelineAssumption, Flips
<1>6. CASE FailSource(j, n)
  <2>1. Target[j] \in Sources
    BY DEF PipelineAssumption
  <2>2. step' \in [Jobs -> [Tries -> {"start", "fetched", "barren", "done", "deleted", "unheard"}]]
    <3>1. CASE UNCHANGED step
      BY <3>1
    <3>2. CASE GoOn(j, n, "unheard")
      BY <3>2
    <3> QED
      BY <1>6, <3>1, <3>2 DEF FailSource
  <2>3. state' \in [Sources -> {"none", "complete", "failed"} \cup Busy]
    BY <1>6, <2>1 DEF FailSource
  <2>4. ASSUME NEW s \in Sources, state'[s] = "none" PROVE state[s] = "none"
    BY <1>6, <2>1, <2>4 DEF FailSource
  <2> QED
    BY <1>6, <2>2, <2>3, <2>4 DEF FailSource
<1>7. CASE Return(j, n) \/ Raise(j, n) \/ Report(j, n)
  BY <1>7 DEF Return, Raise, Report
<1> QED
  BY <1>1, <1>2, <1>3, <1>4, <1>5, <1>6, <1>7 DEF Handler

\* Every step keeps the types.
LEMMA PipeTyped == ASSUME PipeTypeOK, PipelineAssumption, [PipeNext]_pvars PROVE PipeTypeOK'
<1>1. CASE Scheduling \/ UNCHANGED pvars
  BY <1>1 DEF Scheduling, pvars, PipeTypeOK, world, sources, inner
<1> QED
  BY <1>1, RequestTyped, HandlerTyped DEF PipeNext

\* An attempt comes to "done" by ingesting, and deletes its object only from there.
LEMMA UploadStep == ASSUME UploadInv, PipelineAssumption, [PipeNext]_pvars PROVE UploadInv'
<1>1. PipeTypeOK'
  BY PipeTyped DEF UploadInv
<1>2. \A s \in Sources : HasContent(s) => HasContent(s)'
  BY ContentStays DEF UploadInv
<1>3. Target \in [Jobs -> Sources]
  BY DEF PipelineAssumption
<1>4. ASSUME NEW j \in Jobs, NEW n \in Tries, Kind[j] = "r2_file",
             step'[j][n] \in {"done", "deleted"}
      PROVE  HasContent(Target[j])'
  <2>1. CASE step[j][n] \in {"done", "deleted"}
    BY <1>2, <1>3, <1>4, <2>1 DEF UploadInv
  <2>2. CASE step[j][n] \notin {"done", "deleted"}
    <3>1. PICK i \in Jobs, m \in Tries : Handler(i, m)
      BY <1>4, <2>2 DEF PipeNext, Request, Scheduling, QueueUrl, QueueFile, QueueR2File,
                        QueueCrawl, Reingest, DeleteSource, Put, inner, pvars
    <3>2. step \in [Jobs -> [Tries -> {"start", "fetched", "barren", "done", "deleted", "unheard"}]]
      BY DEF UploadInv, PipeTypeOK
    <3>3. ~Fetch(i, m) /\ ~NoRootPage(i, m)
      BY <1>4, <2>2, <3>2 DEF Fetch, NoRootPage, GoOn
    <3>4. \A k \in Jobs : ~CrawledPage(i, m, k)
      <4>1. \A k \in Jobs : CrawledPage(i, m, k) => step' = [step EXCEPT ![i][m] = "fetched"]
        BY DEF CrawledPage, GoOn
      <4> QED
        BY <1>4, <2>2, <3>2, <4>1
    <3>5. \A s \in Sources : ~FailedPage(i, m, s)
      BY <1>4, <2>2, <3>2 DEF FailedPage, GoOn
    <3>6. ~DeleteObject(i, m) /\ ~FinishCrawl(i, m)
      BY <1>4, <2>2, <3>2 DEF DeleteObject, FinishCrawl, GoOn, At
    <3>7. ~Return(i, m) /\ ~Raise(i, m) /\ ~FailSource(i, m) /\ ~Report(i, m)
      BY <1>4, <2>2, <3>2 DEF Return, Raise, FailSource, Report, GoOn, inner
    <3>8. Ingest(j, n)
      <4>1. Ingest(i, m)
        BY <3>1, <3>3, <3>4, <3>5, <3>6, <3>7 DEF Handler
      <4> QED
        BY <1>4, <2>2, <3>2, <4>1 DEF Ingest, GoOn
    <3> QED
      BY <3>8, <1>3 DEF Ingest, IngestContent, SameText, NoText, NewText, HasContent,
                        UploadInv, PipeTypeOK
  <2> QED
    BY <2>1, <2>2
<1>5. ObjectKeptUntilIngested'
  <2> SUFFICES ASSUME NEW k \in Keys, k \notin objects'
               PROVE  \E j \in Jobs : /\ Kind[j] = "r2_file" /\ Key[j] = k
                                     /\ HasContent(Target[j])'
    BY DEF ObjectKeptUntilIngested, HasContent
  <2>1. CASE k \notin objects
    BY <1>2, <1>3, <2>1 DEF UploadInv, ObjectKeptUntilIngested, HasContent
  <2>2. CASE k \in objects
    <3>1. PICK j \in Jobs, n \in Tries : DeleteObject(j, n)
      BY ZenonT(60), <2>2 DEF PipeNext, Request, Scheduling, QueueUrl, QueueFile, QueueR2File,
                  QueueCrawl, Reingest, DeleteSource, Put, Handler, Fetch, Ingest,
                  CrawledPage, FailedPage, NoRootPage, FinishCrawl, Return, Raise,
                  FailSource, Report, world, pvars
    <3>2. Kind[j] = "r2_file" /\ Key[j] = k /\ HasContent(Target[j])
      BY <2>2, <3>1 DEF DeleteObject, At, UploadInv
    <3> QED
      BY <1>2, <1>3, <3>2
  <2> QED
    BY <2>1, <2>2
<1> QED
  BY <1>1, <1>4, <1>5 DEF UploadInv

\* The invariant about uploads holds initially.
LEMMA UploadInit == PipeInit => UploadInv
BY DEF PipeInit, UploadInv, PipeTypeOK, ObjectKeptUntilIngested, Busy

\* Every variable the pipeline adds keeps its type.
THEOREM PipelineTyped == PipeSpec => []PipeTypeOK
<1>1. UploadInv => PipeTypeOK
  BY DEF UploadInv
<1>2. UploadInv /\ [PipeNext]_pvars => UploadInv'
  BY UploadStep, PipelineAssumption
<1> QED
  BY <1>1, <1>2, UploadInit, PTL DEF PipeSpec

\* No uploaded object is deleted before the text in it reached its source.
THEOREM UploadsKept == PipeSpec => []ObjectKeptUntilIngested
<1>1. UploadInv => ObjectKeptUntilIngested
  BY DEF UploadInv
<1>2. UploadInv /\ [PipeNext]_pvars => UploadInv'
  BY UploadStep, PipelineAssumption
<1> QED
  BY <1>1, <1>2, UploadInit, PTL DEF PipeSpec
-------------------------------------------------------------------------------
(***************************************************************************)
(* What one step does to an attempt: to its place in process_job, and to   *)
(* how far its handler has come.                                           *)
(***************************************************************************)
Ended(j, n) == step[j][n] \in {"done", "deleted"}

PcMoved(j, n) ==
    \/ pc'[j][n] = pc[j][n]
    \/ pc[j][n] = "none" /\ pc'[j][n] = "handling"
    \/ pc[j][n] = "handling" /\ pc'[j][n] = "returned" /\ Ended(j, n) /\ step' = step
    \/ pc[j][n] = "returned" /\ pc'[j][n] = "completed"
    \/ pc[j][n] \in LivePc /\ pc'[j][n] \in {"raised", "lost"}
    \/ pc[j][n] = "raised" /\ pc'[j][n] = "ended" /\ n # MaxAttempts
    \/ pc[j][n] = "raised" /\ pc'[j][n] = "exhausted" /\ n = MaxAttempts
    \/ FailSource(j, n) /\ pc[j][n] = "exhausted" /\ pc'[j][n] = "ended"

StepMoved(j, n) ==
    \/ step'[j][n] = step[j][n]
    \/ /\ pc[j][n] = "handling" /\ pc' = pc
       /\ \/ step'[j][n] \in {"fetched", "barren"}
          \/ step'[j][n] = "done" /\ (Ingest(j, n) \/ FinishCrawl(j, n))
          \/ Ended(j, n) /\ step'[j][n] = "deleted"
    \/ FailSource(j, n) /\ pc'[j][n] = "ended" /\ step'[j][n] = "unheard"

\* The steps of one attempt leave those of the others alone.
LEMMA HandlerMoves ==
  ASSUME TypeOK, PipeTypeOK, NEW i \in Jobs, NEW m \in Tries, Handler(i, m),
         NEW j \in Jobs, NEW n \in Tries
  PROVE  PcMoved(j, n) /\ StepMoved(j, n)
<1> USE DEF PcMoved, StepMoved, Ended, GoOn, At, inner, tasks
<1>a. /\ pc \in [Jobs -> [Tries -> LivePc \cup {"none", "completed", "ended", "lost"}]]
      /\ step \in [Jobs -> [Tries -> {"start", "fetched", "barren", "done", "deleted", "unheard"}]]
  BY DEF TypeOK, PipeTypeOK
<1>b. MaxAttempts \in Nat \ {0} /\ Tries = 1 .. MaxAttempts
  BY BoundsAssumption DEF Tries
<1>1. CASE Fetch(i, m)
  BY <1>1, <1>a DEF Fetch, vars
<1>2. CASE Ingest(i, m)
  BY <1>2, <1>a DEF Ingest, vars
<1>3. CASE DeleteObject(i, m)
  BY <1>3, <1>a DEF DeleteObject, vars
<1>4. ASSUME NEW k \in Jobs, CrawledPage(i, m, k) PROVE PcMoved(j, n) /\ StepMoved(j, n)
  <2>1. pc' = pc /\ pc[i][m] = "handling" /\ step' = [step EXCEPT ![i][m] = "fetched"]
    BY <1>4 DEF CrawledPage, Enqueue, Comes
  <2> QED
    BY <2>1, <1>a
<1>5. ASSUME NEW s \in Sources, FailedPage(i, m, s) PROVE PcMoved(j, n) /\ StepMoved(j, n)
  BY <1>5, <1>a DEF FailedPage, Comes, vars
<1>6. CASE NoRootPage(i, m)
  BY <1>6, <1>a DEF NoRootPage, vars
<1>7. CASE FinishCrawl(i, m)
  BY <1>7, <1>a DEF FinishCrawl, vars
<1>8. CASE Return(i, m)
  BY <1>8, <1>a DEF Return, HandlerReturns, Goto
<1>9. CASE Raise(i, m)
  BY <1>9, <1>a DEF Raise, HandlerRaises, Goto, LivePc
<1>10. CASE FailSource(i, m)
  <2>1. pc[i][m] = "exhausted" /\ pc' = [pc EXCEPT ![i][m] = "ended"]
    BY <1>10 DEF FailSource, MarkSourceFailed, Goto
  <2>2. step' = step \/ step' = [step EXCEPT ![i][m] = "unheard"]
    BY <1>10 DEF FailSource
  <2> QED
    BY <1>10, <2>1, <2>2, <1>a
<1>11. CASE Report(i, m)
  <2>1. step' = step
    BY <1>11 DEF Report
  <2>2. CASE MarkComplete(i, m) \/ MarkCompleteErrs(i, m)
    BY <2>1, <2>2, <1>a DEF MarkComplete, MarkCompleteErrs, Goto, LivePc
  <2>3. CASE MarkFailed(i, m)
    BY <2>1, <2>3, <1>a, <1>b DEF MarkFailed, Goto, Exhausted
  <2>4. CASE MarkFailedErrs(i, m)
    BY <2>1, <2>4, <1>a DEF MarkFailedErrs, Goto, LivePc
  <2> QED
    BY <1>11, <2>2, <2>3, <2>4 DEF Report
<1> QED
  BY <1>1, <1>2, <1>3, <1>4, <1>5, <1>6, <1>7, <1>8, <1>9, <1>10, <1>11 DEF Handler

\* No other step moves an attempt but to claim it or to lose it.
LEMMA AttemptsMove ==
  ASSUME Ledger, PipeTypeOK, [PipeNext]_pvars, NEW j \in Jobs, NEW n \in Tries
  PROVE  PcMoved(j, n) /\ StepMoved(j, n)
<1>1. CASE UNCHANGED <<pc, step>>
  BY <1>1 DEF PcMoved, StepMoved
<1>2. CASE Request \/ UNCHANGED pvars
  BY <1>1, <1>2 DEF Request, QueueUrl, QueueFile, QueueR2File, QueueCrawl, Reingest,
     DeleteSource, Put, Enqueue, pvars, vars, tasks, inner
<1>3. CASE \E i \in Jobs, m \in Tries : Handler(i, m)
  BY <1>3, HandlerMoves DEF Ledger
<1>4. CASE Scheduling
  <2>1. step' = step
    BY <1>4 DEF Scheduling, inner
  <2>2. ASSUME NEW w \in Workers, CommitClaim(w) PROVE PcMoved(j, n)
    <3>1. pc'[j][n] # pc[j][n] => n = attempts[j] + 1 /\ pc'[j][n] = "handling"
      BY <2>2 DEF CommitClaim
    <3>2. n = attempts[j] + 1 => pc[j][n] = "none"
      BY BoundsAssumption DEF Ledger, TypeOK, ClaimsNumbered, Tries
    <3> QED
      BY <3>1, <3>2 DEF PcMoved
  <2>3. ASSUME NEW w \in Workers, Halt(w) PROVE PcMoved(j, n)
    BY <2>3 DEF Halt, PcMoved
  <2>4. pc' = pc \/ \E w \in Workers : CommitClaim(w) \/ Halt(w)
    BY <1>4 DEF Scheduling, WorkerStep, GoStale, SelectForUpdate, RecoverStaleJobs, Crash,
       Sigterm, Exit, Start, tasks
  <2> QED
    BY <2>1, <2>2, <2>3, <2>4 DEF PcMoved, StepMoved
<1> QED
  BY <1>2, <1>3, <1>4 DEF PipeNext

\* A job's row, once inserted, stays, and nobody claims a job without one.
LEMMA RowsStay ==
  ASSUME Ledger, [Next]_vars, NEW j \in Jobs, status'[j] = "absent"
  PROVE  status[j] = "absent" /\ attempts'[j] = attempts[j]
<1> USE DEF Ledger, TypeOK
<1>1. CASE UNCHANGED vars
  BY <1>1 DEF vars, rows
<1>2. ASSUME NEW i \in Jobs, Enqueue(i) \/ GoStale(i)
      PROVE  status[j] = "absent" /\ attempts'[j] = attempts[j]
  BY <1>2 DEF Enqueue, GoStale
<1>3. ASSUME NEW i \in Jobs, NEW m \in Tries, TaskStep(i, m)
      PROVE  status[j] = "absent" /\ attempts'[j] = attempts[j]
  <2>1. TaskShape(i, m)
    BY <1>3, TaskStepShape
  <2> QED
    BY <2>1 DEF TaskShape, Outcomes
<1>4. ASSUME NEW w \in Workers, WorkerStep(w)
      PROVE  status[j] = "absent" /\ attempts'[j] = attempts[j]
  BY <1>4 DEF WorkerStep, SelectForUpdate, CommitClaim, RecoverStaleJobs, Crash, Halt, Sigterm,
     Exit, Start, rows
<1> QED
  BY <1>1, <1>2, <1>3, <1>4 DEF Next
-------------------------------------------------------------------------------
(***************************************************************************)
(* How far an attempt's handler has come agrees with its place in          *)
(* process_job: it has not begun before the claim, it has ended where its  *)
(* job is reported complete, and only the last attempt exhausts a job.     *)
(***************************************************************************)
InStep ==
    /\ \A j \in Jobs, n \in Tries :
          /\ pc[j][n] = "none" => step[j][n] = "start"
          /\ pc[j][n] \in {"returned", "completed"} => Ended(j, n)
          /\ pc[j][n] = "exhausted" => n = MaxAttempts
    /\ \A j \in Jobs : status[j] = "absent" => attempts[j] = 0

Base == Ledger /\ OutcomeEarned /\ PipeTypeOK /\ InStep

\* An attempt and its handler stay in step.
LEMMA InStepStep ==
  ASSUME Ledger, PipeTypeOK, InStep, [PipeNext]_pvars
  PROVE  InStep'
<1>1. ASSUME NEW j \in Jobs, NEW n \in Tries
      PROVE  /\ pc'[j][n] = "none" => step'[j][n] = "start"
             /\ pc'[j][n] \in {"returned", "completed"} => Ended(j, n)'
             /\ pc'[j][n] = "exhausted" => n = MaxAttempts
  <2>1. PcMoved(j, n) /\ StepMoved(j, n)
    BY AttemptsMove
  <2>2. pc[j][n] \in LivePc \cup {"none", "completed", "ended", "lost"}
    BY DEF Ledger, TypeOK
  <2>3. FailSource(j, n) => pc[j][n] = "exhausted" /\ pc'[j][n] = "ended"
    BY DEF FailSource, MarkSourceFailed, Goto, Ledger, TypeOK
  <2>4. pc'[j][n] = "none" => step'[j][n] = "start"
    BY <2>1, <2>2, <2>3 DEF PcMoved, StepMoved, InStep, LivePc
  <2>5. pc'[j][n] \in {"returned", "completed"} => Ended(j, n)'
    BY <2>1, <2>2, <2>3 DEF PcMoved, StepMoved, InStep, LivePc, Ended
  <2>6. pc'[j][n] = "exhausted" => n = MaxAttempts
    BY <2>1, <2>2, <2>3 DEF PcMoved, StepMoved, InStep, LivePc
  <2> QED
    BY <2>4, <2>5, <2>6
<1>2. \A j \in Jobs : status'[j] = "absent" => attempts'[j] = 0
  BY RowsStay, PipelineStep DEF InStep
<1> QED
  BY <1>1, <1>2 DEF InStep

\* What the theorems below rest on holds in every behaviour.
LEMMA BaseSound == PipeSpec => []Base
<1>1. PipeInit => InStep
  BY DEF PipeInit, Init, InStep
<1>2. Ledger /\ Ledger' /\ PipeTypeOK /\ InStep /\ [PipeNext]_pvars => InStep'
  BY InStepStep
<1>3. PipeSpec => []Ledger
  BY PipelineIsQueue, LedgerSound, PTL
<1>4. Ledger /\ OutcomeEarned /\ PipeTypeOK /\ InStep => Base
  BY DEF Base
<1> QED
  BY <1>1, <1>2, <1>3, <1>4, PipelineOutcomesEarned, PipelineTyped, PTL DEF PipeSpec
-------------------------------------------------------------------------------
(***************************************************************************)
(* Spinners.  A debtor is a job that has not yet settled its source: no    *)
(* attempt has ended its handler, and if the last one reported, nobody     *)
(* heard it.  A pending source has a debtor that ingests, and only a       *)
(* crawling one may have a crawl for its debtor, which settles no other.   *)
(***************************************************************************)
Debtor(j) ==
    /\ status[j] # "absent"
    /\ \A n \in Tries : ~Ended(j, n)
    /\ pc[j][MaxAttempts] = "ended" => step[j][MaxAttempts] = "unheard"

Owes(j, s) == Target[j] = s /\ Debtor(j) /\ (state[s] = "pending" => Kind[j] # "crawl")

BusyIsOwed == \A s \in Sources : state[s] \in Busy => \E j \in Jobs : Owes(j, s)

\* A debtor stops being one only as it settles its source.
LEMMA DebtorStays ==
  ASSUME Base, [PipeNext]_pvars, NEW j \in Jobs, Debtor(j), ~Debtor(j)'
  PROVE  \E n \in Tries : \/ Ingest(j, n) \/ FinishCrawl(j, n)
                          \/ FailSource(j, n) /\ step'[j][n] # "unheard"
<1>1. \A n \in Tries : PcMoved(j, n) /\ StepMoved(j, n)
  BY AttemptsMove DEF Base
<1>2. MaxAttempts \in Tries
  BY BoundsAssumption DEF Tries
<1>3. status'[j] # "absent"
  BY RowsStay, PipelineStep DEF Base, Debtor
<1>4. CASE \E n \in Tries : Ended(j, n)'
  <2>1. PICK n \in Tries : Ended(j, n)'
    BY <1>4
  <2>2. ~Ended(j, n)
    BY DEF Debtor
  <2> QED
    BY <1>1, <2>1, <2>2 DEF StepMoved, Ended
<1>5. CASE pc'[j][MaxAttempts] = "ended" /\ step'[j][MaxAttempts] # "unheard"
  <2> DEFINE n == MaxAttempts
  <2>1. PcMoved(j, n) /\ StepMoved(j, n)
    BY <1>1, <1>2
  <2>2. FailSource(j, n)
    BY <1>5, <2>1 DEF PcMoved, StepMoved, Debtor, LivePc
  <2> QED
    BY <1>2, <1>5, <2>2
<1> QED
  BY <1>3, <1>4, <1>5 DEF Debtor

\* A job that has just been queued has done nothing yet.
LEMMA NewDebtor ==
  ASSUME Base, Base', [PipeNext]_pvars, NEW j \in Jobs, Enqueue(j)
  PROVE  Debtor(j)'
<1>1. status'[j] = "pending" /\ UNCHANGED <<pc, attempts>>
  BY DEF Enqueue, tasks, Base, Ledger, TypeOK
<1>2. \A n \in Tries : pc'[j][n] = "none"
  BY <1>1, BoundsAssumption DEF Enqueue, Base, InStep, Ledger, ClaimsNumbered, Tries
<1>3. \A n \in Tries : step'[j][n] = "start"
  BY <1>2 DEF Base, InStep
<1> QED
  BY <1>1, <1>2, <1>3, BoundsAssumption DEF Debtor, Ended, Tries

\* A source becomes pending or crawling only with a job queued in the same transaction.
LEMMA BusyByQueueing ==
  ASSUME PipeTypeOK, PipelineAssumption, [PipeNext]_pvars,
         NEW s \in Sources, state'[s] \in Busy, state'[s] # state[s]
  PROVE  \E j \in Jobs : /\ Target[j] = s /\ Enqueue(j)
                         /\ state'[s] = "pending" => Kind[j] # "crawl"
<1> USE DEF SetState, Busy, PipeTypeOK
<1>1. CASE Request
  <2>1. ASSUME NEW j \in Jobs, QueueUrl(j) \/ QueueFile(j) \/ QueueR2File(j) \/ QueueCrawl(j)
                               \/ Reingest(j)
        PROVE  Target[j] = s /\ Enqueue(j) /\ (state'[s] = "pending" => Kind[j] # "crawl")
    BY <2>1 DEF QueueUrl, QueueFile, QueueR2File, QueueCrawl, Reingest
  <2>2. ASSUME NEW t \in Sources, DeleteSource(t) \/ Put(t) PROVE FALSE
    BY <2>2 DEF DeleteSource, Put, IngestContent, SameText, NoText, NewText
  <2> QED
    BY <1>1, <2>1, <2>2 DEF Request
<1>2. ASSUME NEW i \in Jobs, NEW n \in Tries, Handler(i, n)
      PROVE  \E k \in Jobs : Target[k] = s /\ Enqueue(k) /\ Kind[k] # "crawl"
  <2>1. ~Ingest(i, n)
    BY DEF Ingest, IngestContent, SameText, NoText, NewText
  <2>2. \A t \in Sources : ~FailedPage(i, n, t)
    BY DEF FailedPage
  <2>3. ~FinishCrawl(i, n)
    BY DEF FinishCrawl
  <2>4. ~FailSource(i, n)
    BY DEF FailSource
  <2>5. PICK k \in Jobs : CrawledPage(i, n, k)
    BY <1>2, <2>1, <2>2, <2>3, <2>4 DEF Handler, Fetch, DeleteObject, NoRootPage, Return, Raise,
       Report, world, sources
  <2> QED
    BY <2>5 DEF CrawledPage, PipelineAssumption
<1>3. CASE Scheduling \/ UNCHANGED pvars
  BY <1>3 DEF Scheduling, pvars, world, sources
<1> QED
  BY <1>1, <1>2, <1>3 DEF PipeNext

\* A busy source stays owed to a job: a debtor goes only by reporting it.
LEMMA OwedStep ==
  ASSUME Base, Base', BusyIsOwed, PipelineAssumption, [PipeNext]_pvars
  PROVE  BusyIsOwed'
<1> SUFFICES ASSUME NEW s \in Sources, state'[s] \in Busy
             PROVE  \E j \in Jobs : Owes(j, s)'
  BY DEF BusyIsOwed
<1>1. CASE state'[s] # state[s]
  BY <1>1, BusyByQueueing, NewDebtor DEF Base, Owes
<1>2. CASE state'[s] = state[s]
  <2>1. PICK j \in Jobs : Owes(j, s)
    BY <1>2 DEF BusyIsOwed
  <2>2. Debtor(j)'
    <3> SUFFICES ASSUME ~Debtor(j)' PROVE FALSE
      OBVIOUS
    <3>1. PICK n \in Tries : \/ Ingest(j, n) \/ FinishCrawl(j, n)
                             \/ FailSource(j, n) /\ step'[j][n] # "unheard"
      BY <2>1, DebtorStays DEF Owes
    <3>2. Target[j] = s /\ state \in [Sources -> {"none", "complete", "failed"} \cup Busy]
      BY <2>1 DEF Owes, Base, PipeTypeOK
    <3>3. ~Ingest(j, n)
      BY <3>2 DEF Ingest, IngestContent, SameText, NoText, NewText, SetState, Busy
    <3>4. ~FinishCrawl(j, n)
      <4>1. FinishCrawl(j, n) => Kind[j] = "crawl"
        BY DEF FinishCrawl, At
      <4>2. Kind[j] = "crawl" => state[s] = "crawling"
        BY <1>2, <2>1 DEF Owes, Busy
      <4> QED
        BY <1>2, <3>2, <4>1, <4>2 DEF FinishCrawl, Flips, SetState, Busy
    <3>5. ~(FailSource(j, n) /\ step'[j][n] # "unheard")
      <4>1. ASSUME FailSource(j, n), ~GoOn(j, n, "unheard") PROVE FALSE
        BY <1>2, <3>2, <4>1 DEF FailSource, SetState, Busy
      <4>2. GoOn(j, n, "unheard") => step'[j][n] = "unheard"
        BY <3>2 DEF GoOn, Base, PipeTypeOK
      <4> QED
        BY <4>1, <4>2
    <3> QED
      BY <3>1, <3>3, <3>4, <3>5
  <2> QED
    BY <1>2, <2>1, <2>2 DEF Owes
<1> QED
  BY <1>1, <1>2

\* A debtor that no worker, claim or recovery will touch again lost its last attempt, or
\* nobody heard it.
LEMMA DebtorReports ==
  ASSUME Base, PipelineAssumption, NEW j \in Jobs, Debtor(j)
  PROVE  Open(j) \/ Abandoned(j)
<1> SUFFICES ASSUME ~Open(j) PROVE Abandoned(j)
  OBVIOUS
<1> DEFINE n == MaxAttempts
<1>1. n \in Tries /\ attempts[j] \in 0 .. n
  BY BoundsAssumption DEF Tries, Base, Ledger, TypeOK
<1>2. /\ status[j] \in {"pending", "failed", "complete"}
      /\ \A m \in Tries : pc[j][m] \notin LivePc
  BY DEF Open, Debtor, Base, Ledger, TypeOK, Outcomes
<1>a. status[j] = "pending" => attempts[j] = n
  BY <1>1, BoundsAssumption DEF Open, Claimable
<1>3. \A m \in Tries : pc[j][m] # "completed"
  BY DEF Debtor, Base, InStep
<1>4. attempts[j] = n
  BY <1>2, <1>3, <1>a DEF Base, OutcomeEarned, PipelineAssumption
<1>5. pc[j][n] # "none"
  BY <1>1, <1>4 DEF Base, Ledger, ClaimsNumbered
<1>6. pc[j][n] \in {"ended", "lost"}
  BY <1>1, <1>2, <1>3, <1>5 DEF Base, Ledger, TypeOK
<1>7. status[j] = "failed" \/ Stranded(j)
  BY <1>2, <1>3, <1>4 DEF Stranded, Base, OutcomeEarned
<1> QED
  BY <1>1, <1>6, <1>7 DEF Abandoned, Debtor

\* A source shown as pending or crawling has a job that will settle it, unless its last
\* attempt was lost or could not tell: for any requests, retries, overruns and deletions.
THEOREM SpinnersAttended == PipeSpec => []BusyIsAttended
<1>1. PipeInit => BusyIsOwed
  BY DEF PipeInit, BusyIsOwed, Busy
<1>2. Base /\ Base' /\ BusyIsOwed /\ [PipeNext]_pvars => BusyIsOwed'
  BY OwedStep, PipelineAssumption
<1>3. Base /\ BusyIsOwed => BusyIsAttended
  BY DebtorReports, PipelineAssumption DEF BusyIsOwed, BusyIsAttended, Owes
<1> QED
  BY <1>1, <1>2, <1>3, BaseSound, PTL DEF PipeSpec
-------------------------------------------------------------------------------
(***************************************************************************)
(* Failures.  What caused one stays: an attempt that was made, the pages   *)
(* it has come to, and that it has ended.                                  *)
(***************************************************************************)
LEMMA SeenStays ==
  ASSUME PipeTypeOK, [PipeNext]_pvars, NEW j \in Jobs, NEW n \in Tries
  PROVE  seen[j][n] \subseteq seen'[j][n]
<1> USE DEF PipeTypeOK
<1>1. CASE UNCHANGED seen
  BY <1>1
<1>2. ASSUME NEW i \in Jobs, NEW m \in Tries, NEW s \in Sources, Saw(i, m, s)
      PROVE  seen[j][n] \subseteq seen'[j][n]
  BY <1>2 DEF Saw
<1>3. ASSUME NEW i \in Jobs, NEW m \in Tries, Handler(i, m)
      PROVE  UNCHANGED seen \/ \E s \in Sources : Saw(i, m, s)
  <2>1. CASE \E k \in Jobs : CrawledPage(i, m, k)
    BY <2>1, PipelineAssumption DEF CrawledPage, PipelineAssumption
  <2>2. CASE \E s \in Sources : FailedPage(i, m, s)
    BY <2>2 DEF FailedPage
  <2> QED
    BY <1>3, <2>1, <2>2 DEF Handler, Fetch, Ingest, DeleteObject, NoRootPage, FinishCrawl,
       Return, Raise, FailSource, Report, inner
<1> QED
  BY <1>1, <1>2, <1>3 DEF PipeNext, Request, QueueUrl, QueueFile, QueueR2File, QueueCrawl,
     Reingest, DeleteSource, Put, Scheduling, inner, pvars

\* A source is marked failed for one of the causes, and only an ingest takes the first
\* of them away, which settles the source anew.
LEMMA FailedByCause ==
  ASSUME Base, Base', PipelineAssumption, [PipeNext]_pvars,
         NEW s \in Sources, state'[s] = "failed", state[s] # "failed" \/ content'[s] # content[s]
  PROVE  \/ content'[s] = "empty"
         \/ \E j \in Jobs : \/ CrawlCame(j, s)'
                            \/ Target[j] = s /\ pc'[j][MaxAttempts] = "ended"
<1> USE DEF SetState, Base, PipeTypeOK
<1>1. ASSUME NEW t \in Sources, IngestContent(t) PROVE content'[s] = "empty"
  BY ZenonT(60), <1>1 DEF IngestContent, SameText, NoText, NewText
<1>2. CASE Request
  <2>1. \A j \in Jobs : ~QueueUrl(j) /\ ~QueueFile(j) /\ ~QueueR2File(j) /\ ~QueueCrawl(j)
                        /\ ~Reingest(j)
    BY PipelineAssumption DEF QueueUrl, QueueFile, QueueR2File, QueueCrawl, Reingest,
       PipelineAssumption
  <2>2. \A t \in Sources : ~DeleteSource(t)
    BY DEF DeleteSource
  <2> QED
    BY <1>1, <1>2, <2>1, <2>2 DEF Request, Put
<1>3. ASSUME NEW i \in Jobs, NEW n \in Tries, Handler(i, n)
      PROVE  \/ content'[s] = "empty"
             \/ CrawlCame(i, s)'
             \/ Target[i] = s /\ pc'[i][MaxAttempts] = "ended"
  <2>1. CASE Ingest(i, n)
    BY <1>1, <2>1, PipelineAssumption DEF Ingest, PipelineAssumption
  <2>2. \A k \in Jobs : ~CrawledPage(i, n, k)
    BY PipelineAssumption DEF CrawledPage, PipelineAssumption
  <2>3. ASSUME NEW t \in Sources, FailedPage(i, n, t) PROVE CrawlCame(i, s)'
    <3>1. Kind[i] = "crawl" /\ t = s /\ s \in seen'[i][n]
      BY <2>3 DEF FailedPage, Comes, At, Saw
    <3> QED
      BY <3>1 DEF CrawlCame
  <2>4. CASE FinishCrawl(i, n)
    <3>1. Kind[i] = "crawl" /\ Target[i] = s /\ pc'[i][n] = "handling"
      BY <2>4, PipelineAssumption DEF FinishCrawl, At, vars, tasks, PipelineAssumption
    <3> QED
      BY <3>1 DEF CrawlCame
  <2>5. CASE FailSource(i, n)
    <3>1. pc[i][n] = "exhausted" /\ pc' = [pc EXCEPT ![i][n] = "ended"]
      BY <2>5 DEF FailSource, MarkSourceFailed, Goto
    <3>2. Target[i] = s
      BY <2>5, PipelineAssumption DEF FailSource, PipelineAssumption
    <3> QED
      BY <3>1, <3>2 DEF InStep, Ledger, TypeOK
  <2>6. CASE \/ Fetch(i, n) \/ DeleteObject(i, n) \/ NoRootPage(i, n) \/ Return(i, n)
             \/ Raise(i, n) \/ Report(i, n)
    BY <2>6 DEF Fetch, DeleteObject, NoRootPage, Return, Raise, Report, world, sources
  <2> QED
    BY <1>3, <2>1, <2>2, <2>3, <2>4, <2>5, <2>6 DEF Handler
<1>4. CASE Scheduling \/ UNCHANGED pvars
  BY <1>4 DEF Scheduling, pvars, world, sources
<1> QED
  BY <1>2, <1>3, <1>4 DEF PipeNext

\* A source is shown as failed only if its last ingest found no text, a crawl came to it,
\* or a job of it has used up its attempts, whichever attempts overran or were recovered.
THEOREM FailuresCaused == PipeSpec => []FailedHasCause
<1>1. PipeInit => FailedHasCause
  BY DEF PipeInit, FailedHasCause
<1>2. ASSUME Base, Base', FailedHasCause, [PipeNext]_pvars PROVE FailedHasCause'
  <2> SUFFICES ASSUME NEW s \in Sources, state'[s] = "failed"
               PROVE  \/ content'[s] = "empty"
                      \/ \E j \in Jobs : \/ CrawlCame(j, s)'
                                         \/ Target[j] = s /\ pc'[j][MaxAttempts] = "ended"
    BY DEF FailedHasCause
  <2>1. CASE state[s] = "failed" /\ content'[s] = content[s]
    <3>1. ASSUME NEW j \in Jobs, CrawlCame(j, s) PROVE CrawlCame(j, s)'
      <4>1. PICK n \in Tries : s \in seen[j][n] \/ (s = Target[j] /\ pc[j][n] # "none")
        BY <3>1 DEF CrawlCame
      <4>2. seen[j][n] \subseteq seen'[j][n]
        BY <1>2, SeenStays DEF Base
      <4>3. pc[j][n] # "none" => pc'[j][n] # "none"
        BY <1>2, AttemptsMove DEF Base, PcMoved
      <4> QED
        BY <3>1, <4>1, <4>2, <4>3 DEF CrawlCame
    <3>2. ASSUME NEW j \in Jobs, pc[j][MaxAttempts] = "ended"
          PROVE  pc'[j][MaxAttempts] = "ended"
      BY <1>2, <3>2, AttemptsMove, BoundsAssumption DEF Base, PcMoved, LivePc, Tries
    <3> QED
      BY <1>2, <2>1, <3>1, <3>2 DEF FailedHasCause
  <2>2. CASE state[s] # "failed" \/ content'[s] # content[s]
    BY <1>2, <2>2, FailedByCause, PipelineAssumption
  <2> QED
    BY <2>1, <2>2
<1> QED
  BY <1>1, <1>2, BaseSound, PTL DEF PipeSpec
-------------------------------------------------------------------------------
(***************************************************************************)
(* Completions.  A crawl that has queued its root's page does not find the *)
(* root crawling any more: the page's job took it over, and only queueing  *)
(* another crawl of it sets it back.                                       *)
(***************************************************************************)
RootHandedOver ==
    \A j \in Jobs, n \in Tries :
        Kind[j] = "crawl" /\ step[j][n] = "fetched"
            => state[Target[j]] # "crawling" \/ CrawledTwice(Target[j])

\* Jobs stay in the table, finished or not.
LEMMA CrawledTwiceStays ==
  ASSUME Base, [PipeNext]_pvars, NEW s, CrawledTwice(s)
  PROVE  CrawledTwice(s)'
BY RowsStay, PipelineStep DEF CrawledTwice, Base

\* A source becomes crawling only by queueing a crawl of it.
LEMMA CrawlingByQueueing ==
  ASSUME PipeTypeOK, PipelineAssumption, [PipeNext]_pvars,
         NEW s \in Sources, state'[s] = "crawling", state[s] # "crawling"
  PROVE  \E j \in Jobs : Target[j] = s /\ QueueCrawl(j)
<1> USE DEF SetState, Busy, PipeTypeOK
<1>1. CASE Request
  <2>1. ASSUME NEW j \in Jobs, QueueUrl(j) \/ QueueFile(j) \/ QueueR2File(j) \/ Reingest(j)
        PROVE  FALSE
    BY <2>1 DEF QueueUrl, QueueFile, QueueR2File, Reingest
  <2>2. ASSUME NEW t \in Sources, DeleteSource(t) \/ Put(t) PROVE FALSE
    BY <2>2 DEF DeleteSource, Put, IngestContent, SameText, NoText, NewText
  <2>3. ASSUME NEW j \in Jobs, QueueCrawl(j) PROVE Target[j] = s
    BY <2>3 DEF QueueCrawl
  <2> QED
    BY <1>1, <2>1, <2>2, <2>3 DEF Request
<1>2. ASSUME NEW i \in Jobs, NEW n \in Tries, Handler(i, n) PROVE FALSE
  <2>1. ~Ingest(i, n)
    BY DEF Ingest, IngestContent, SameText, NoText, NewText
  <2>2. \A t \in Sources : ~FailedPage(i, n, t)
    BY DEF FailedPage
  <2>3. ~FinishCrawl(i, n) /\ ~FailSource(i, n)
    BY DEF FinishCrawl, FailSource
  <2>4. \A k \in Jobs : ~CrawledPage(i, n, k)
    BY DEF CrawledPage
  <2> QED
    BY <1>2, <2>1, <2>2, <2>3, <2>4 DEF Handler, Fetch, DeleteObject, NoRootPage, Return, Raise,
       Report, world, sources
<1>3. CASE Scheduling \/ UNCHANGED pvars
  BY <1>3 DEF Scheduling, pvars, world, sources
<1> QED
  BY <1>1, <1>2, <1>3 DEF PipeNext

\* A crawl gets to "fetched" with a page of its root, which becomes pending.
LEMMA FetchedByRoot ==
  ASSUME Base, PipelineAssumption, [PipeNext]_pvars,
         NEW j \in Jobs, NEW n \in Tries, Kind[j] = "crawl",
         step'[j][n] = "fetched", step[j][n] # "fetched"
  PROVE  state'[Target[j]] = "pending"
<1>1. PICK i \in Jobs, m \in Tries : Handler(i, m)
  BY DEF PipeNext, Request, Scheduling, QueueUrl, QueueFile, QueueR2File, QueueCrawl, Reingest,
     DeleteSource, Put, inner, pvars
<1>a. step \in [Jobs -> [Tries -> {"start", "fetched", "barren", "done", "deleted", "unheard"}]]
  BY DEF Base, PipeTypeOK
<1>b. ASSUME NEW to, GoOn(i, m, to) PROVE i = j /\ m = n /\ to = "fetched"
  BY <1>a, <1>b DEF GoOn
<1>2. ~Fetch(i, m)
  <2>1. Fetch(i, m) => GoOn(i, m, "fetched") /\ Kind[i] # "crawl"
    BY DEF Fetch, At
  <2> QED
    BY <1>b, <2>1
<1>3. ~Ingest(i, m) /\ ~DeleteObject(i, m) /\ ~NoRootPage(i, m) /\ ~FinishCrawl(i, m)
  BY <1>b DEF Ingest, DeleteObject, NoRootPage, FinishCrawl
<1>4. ~Return(i, m) /\ ~Raise(i, m) /\ ~FailSource(i, m) /\ ~Report(i, m)
  BY <1>b DEF Return, Raise, FailSource, Report, inner
<1>5. \A s \in Sources : ~FailedPage(i, m, s)
  <2>1. ASSUME NEW s \in Sources, FailedPage(i, m, s)
        PROVE  GoOn(i, m, "barren") \/ (step[i][m] = "fetched" /\ GoOn(i, m, "fetched"))
    BY <2>1 DEF FailedPage, Comes, At
  <2> QED
    BY <1>b, <2>1
<1>6. PICK k \in Jobs : CrawledPage(i, m, k)
  BY <1>1, <1>2, <1>3, <1>4, <1>5 DEF Handler
<1>7. i = j /\ m = n /\ Comes(i, m, Target[k])
  BY <1>6, <1>b DEF CrawledPage
<1>8. Target[k] = Target[j]
  BY <1>7 DEF Comes, At
<1> QED
  BY <1>6, <1>8 DEF CrawledPage, SetState, PipelineAssumption, Base, PipeTypeOK

\* Once a crawl has gone past its first item, its root is not shown as crawling any more.
LEMMA HandOverStep ==
  ASSUME Base, Base', RootHandedOver, PipelineAssumption, [PipeNext]_pvars
  PROVE  RootHandedOver'
<1> SUFFICES ASSUME NEW j \in Jobs, NEW n \in Tries, Kind[j] = "crawl", step'[j][n] = "fetched",
                    state'[Target[j]] = "crawling", ~CrawledTwice(Target[j])'
             PROVE  FALSE
  BY DEF RootHandedOver
<1>1. step[j][n] = "fetched"
  BY FetchedByRoot
<1>2. state[Target[j]] # "crawling" /\ Target[j] \in Sources
  BY <1>1, CrawledTwiceStays DEF RootHandedOver, PipelineAssumption
<1>3. PICK k \in Jobs : Target[k] = Target[j] /\ QueueCrawl(k)
  BY <1>2, CrawlingByQueueing DEF Base
<1>4. status[j] # "absent"
  <2>1. status[j] = "absent" => pc[j][n] = "none"
    BY BoundsAssumption DEF Base, InStep, Ledger, ClaimsNumbered, Tries
  <2> QED
    BY <1>1, <2>1 DEF Base, InStep
<1>5. k # j /\ Kind[k] = "crawl" /\ status[k] = "absent" /\ status'[k] = "pending"
  BY <1>3, <1>4 DEF QueueCrawl, Enqueue, Base, Ledger, TypeOK
<1>6. status'[j] # "absent"
  BY <1>4, RowsStay, PipelineStep DEF Base
<1> QED
  BY <1>3, <1>5, <1>6 DEF CrawledTwice

\* A source becomes complete with an ingest of it, or by the flip of a crawled root.
LEMMA CompletedByIngest ==
  ASSUME Base, RootHandedOver, CompleteWasIngested, PipelineAssumption, [PipeNext]_pvars
  PROVE  CompleteWasIngested'
<1> SUFFICES ASSUME NEW s \in Sources, state'[s] = "complete", content'[s] = "never",
                    ~CrawledTwice(s)'
             PROVE  FALSE
  BY DEF CompleteWasIngested
<1>0. ~CrawledTwice(s)
  BY CrawledTwiceStays
<1> USE <1>0 DEF SetState, Busy, Base, PipeTypeOK
<1>1. ASSUME NEW t \in Sources, IngestContent(t) PROVE FALSE
  <2>1. ~(state[s] = "complete" /\ content[s] = "never")
    BY DEF CompleteWasIngested
  <2>2. CASE SameText(t)
    BY <2>1, <2>2 DEF SameText
  <2>3. CASE NoText(t)
    BY <2>1, <2>3 DEF NoText
  <2>4. CASE NewText(t)
    BY <2>1, <2>4 DEF NewText
  <2> QED
    BY <1>1, <2>2, <2>3, <2>4 DEF IngestContent
<1>2. CASE Request
  <2>1. ASSUME NEW j \in Jobs, QueueUrl(j) \/ QueueFile(j) \/ QueueR2File(j) \/ QueueCrawl(j)
                               \/ Reingest(j)
        PROVE  FALSE
    BY <2>1 DEF QueueUrl, QueueFile, QueueR2File, QueueCrawl, Reingest, CompleteWasIngested
  <2>2. ASSUME NEW t \in Sources, DeleteSource(t) PROVE FALSE
    BY <2>2 DEF DeleteSource, CompleteWasIngested
  <2> QED
    BY <1>1, <1>2, <2>1, <2>2 DEF Request, Put
<1>3. ASSUME NEW i \in Jobs, NEW n \in Tries, Handler(i, n) PROVE FALSE
  <2>1. ~Ingest(i, n)
    BY <1>1 DEF Ingest, PipelineAssumption
  <2>2. \A t \in Sources : ~FailedPage(i, n, t)
    BY DEF FailedPage, CompleteWasIngested
  <2>3. ~FinishCrawl(i, n)
    BY DEF FinishCrawl, Flips, At, CompleteWasIngested, RootHandedOver, PipelineAssumption
  <2>4. ~FailSource(i, n)
    BY DEF FailSource, CompleteWasIngested, PipelineAssumption
  <2>5. \A k \in Jobs : ~CrawledPage(i, n, k)
    BY DEF CrawledPage, CompleteWasIngested, PipelineAssumption
  <2> QED
    BY <1>3, <2>1, <2>2, <2>3, <2>4, <2>5 DEF Handler, Fetch, DeleteObject, NoRootPage, Return,
       Raise, Report, world, sources, CompleteWasIngested
<1>4. CASE Scheduling \/ UNCHANGED pvars
  BY <1>4 DEF Scheduling, pvars, world, sources, CompleteWasIngested
<1> QED
  BY <1>2, <1>3, <1>4 DEF PipeNext

\* A source shown as complete has been ingested, or its root was queued for two crawls: no
\* other flip, of whatever attempt and however late, overtakes the ingest of the root's page.
THEOREM CompletionsIngested == PipeSpec => []CompleteWasIngested
<1>1. PipeInit => RootHandedOver /\ CompleteWasIngested
  BY DEF PipeInit, RootHandedOver, CompleteWasIngested
<1>2. Base /\ Base' /\ RootHandedOver /\ CompleteWasIngested /\ [PipeNext]_pvars
        => RootHandedOver' /\ CompleteWasIngested'
  BY HandOverStep, CompletedByIngest, PipelineAssumption
<1> QED
  BY <1>1, <1>2, BaseSound, PTL DEF PipeSpec
===============================================================================
