----------------------- MODULE IngestionWorkerSafety ------------------------
(***************************************************************************)
(* Proofs that completion is fenced by the claim, that a completed job was *)
(* ingested by the attempt it shows, that retries are disciplined, and     *)
(* that the workers implement JobLifecycle: for any number of workers,     *)
(* jobs and resources, both backends, crashes, failed statements, and any  *)
(* clock.                                                                  *)
(***************************************************************************)
EXTENDS IngestionWorkerProofs

(* A worker that is about to complete its job has ingested it, and the job   *)
(* of a worker under way has been enqueued.                                  *)
Reported ==
  \A w \in Workers :
    /\ pc[w] = "stopping" => <<claim[w].q, claim[w].attempt>> \in ingested
    /\ pc[w] \notin {"idle", "down"} => jobs[claim[w].q].status # "absent"

Inv == Typed /\ ClaimFence /\ Reported /\ CompletedWasIngested /\ RetryDiscipline

-----------------------------------------------------------------------------
(* How a step may change the table of jobs. *)

SameJob(q) ==
  /\ jobs'[q].status = jobs[q].status /\ jobs'[q].leasedBy = jobs[q].leasedBy
  /\ jobs'[q].attempt = jobs[q].attempt /\ jobs'[q].maxAttempts = jobs[q].maxAttempts

(* No other worker's job becomes that worker's, or changes its attempt while *)
(* it is; no job vanishes, and none is completed but by a worker that has    *)
(* ingested it.                                                              *)
JobStep(q) ==
  \/ SameJob(q)
  \/ /\ jobs[q].status \in {"absent", "dead_letter"} /\ jobs'[q].status = "queued"
     /\ jobs'[q].attempt < jobs'[q].maxAttempts
  \/ jobs[q].status \in {"queued", "leased"} /\ jobs'[q].status = "cancelled"
  \/ /\ jobs[q].status \in {"queued", "leased"} /\ jobs'[q].status = "leased"
     /\ \E w \in Workers :
          /\ jobs'[q].leasedBy = w /\ pc'[w] = "acquiring"
          /\ claim'[w] = [q |-> q, attempt |-> jobs'[q].attempt]
  \/ /\ jobs[q].status = "leased" /\ jobs'[q].status = "completed"
     /\ <<q, jobs'[q].attempt>> \in ingested
  \/ /\ jobs[q].status = "leased" /\ jobs'[q].status \in {"queued", "dead_letter"}
     /\ jobs'[q].status = "queued" => jobs'[q].attempt < jobs'[q].maxAttempts
     /\ jobs'[q].status = "dead_letter" /\ RetryFailedJobs =>
          jobs'[q].attempt >= jobs'[q].maxAttempts

(* How a step may change a worker. *)
WorkerStep(w) ==
  \/ pc'[w] = pc[w] /\ claim'[w] = claim[w]
  \/ pc'[w] \in {"idle", "down"}
  \/ /\ pc[w] = "idle" /\ pc'[w] = "acquiring" /\ claim'[w].q \in QueueIds
     /\ jobs[claim'[w].q].status # "absent"
     /\ jobs'[claim'[w].q].attempt = claim'[w].attempt
  \/ /\ pc[w] \notin {"idle", "down"} /\ pc'[w] \notin {"idle", "down", "stopping"}
     /\ claim'[w] = claim[w]
     /\ Running(w)' => Running(w)
  \/ /\ pc[w] = "ingesting" /\ pc'[w] = "stopping" /\ claim'[w] = claim[w]
     /\ <<claim[w].q, claim[w].attempt>> \in ingested'

(* One job at a time. *)
JobsStep ==
  /\ \A q \in QueueIds : JobStep(q)
  /\ \A q, r \in QueueIds : q = r \/ SameJob(q) \/ SameJob(r)

IngestedStep ==
  \/ UNCHANGED ingested
  \/ /\ \A q \in QueueIds : SameJob(q)
     /\ \E w \in Workers :
          pc[w] = "ingesting" /\ ingested' = ingested \cup {<<claim[w].q, claim[w].attempt>>}

Step ==
  /\ JobsStep
  /\ \A w \in Workers : WorkerStep(w)
  /\ IngestedStep

LEMMA InvInductive ==
  ASSUME Inv, Typed', Step
  PROVE  Inv'
<1>1. \A q \in QueueIds : JobStep(q)
  BY DEF Step, JobsStep
<1>2. \A w \in Workers : WorkerStep(w)
  BY DEF Step
<1>3. ingested \subseteq ingested'
  BY DEF Step, IngestedStep
<1>4. ClaimFence'
  <2> SUFFICES ASSUME NEW w \in Workers, Running(w)', LeasedTo(claim[w].q, w)'
               PROVE  jobs'[claim'[w].q].attempt = claim'[w].attempt
    BY DEF ClaimFence
  <2>1. claim'[w].q \in QueueIds
    BY DEF Typed, PhaseOK, Running
  <2>2. jobs'[claim'[w].q].status = "leased" /\ jobs'[claim'[w].q].leasedBy = w
    BY DEF LeasedTo
  <2>3. CASE SameJob(claim'[w].q)
    <3>1. \/ claim'[w] = claim[w] /\ Running(w)
          \/ jobs'[claim'[w].q].attempt = claim'[w].attempt
      BY <1>2 DEF WorkerStep, Running
    <3>2. jobs[claim'[w].q].status = "leased" /\ jobs[claim'[w].q].leasedBy = w
          /\ jobs[claim'[w].q].attempt = jobs'[claim'[w].q].attempt
      BY <2>2, <2>3 DEF SameJob
    <3>3. QED BY <3>1, <3>2 DEF Inv, ClaimFence, LeasedTo
  <2>4. CASE ~ SameJob(claim'[w].q)
    <3>1. JobStep(claim'[w].q)
      BY <1>1, <2>1
    <3>2. \E v \in Workers :
            /\ jobs'[claim'[w].q].leasedBy = v
            /\ claim'[v] = [q |-> claim'[w].q, attempt |-> jobs'[claim'[w].q].attempt]
      BY <2>2, <2>4, <3>1 DEF JobStep
    <3>3. claim'[w] = [q |-> claim'[w].q, attempt |-> jobs'[claim'[w].q].attempt]
      BY <2>2, <3>2
    <3>4. QED BY <3>3
  <2>5. QED BY <2>3, <2>4
<1>5. Reported'
  <2> SUFFICES ASSUME NEW w \in Workers
               PROVE  /\ pc'[w] = "stopping" => <<claim'[w].q, claim'[w].attempt>> \in ingested'
                      /\ pc'[w] \notin {"idle", "down"} => jobs'[claim'[w].q].status # "absent"
    BY DEF Reported
  <2>1. pc'[w] = "stopping" => <<claim'[w].q, claim'[w].attempt>> \in ingested'
    BY <1>2, <1>3 DEF WorkerStep, Inv, Reported
  <2>2. ASSUME pc'[w] \notin {"idle", "down"}
        PROVE  claim'[w].q \in QueueIds /\ jobs[claim'[w].q].status # "absent"
    BY <1>2, <2>2 DEF WorkerStep, Inv, Reported, Typed, PhaseOK
  <2>3. ASSUME NEW q \in QueueIds, jobs[q].status # "absent"
        PROVE  jobs'[q].status # "absent"
    BY <1>1, <2>3 DEF JobStep, SameJob
  <2>4. QED BY <2>1, <2>2, <2>3
<1>6. CompletedWasIngested'
  BY <1>1, <1>3 DEF JobStep, SameJob, Inv, CompletedWasIngested
<1>7. RetryDiscipline'
  BY <1>1 DEF JobStep, SameJob, Inv, RetryDiscipline
<1>8. QED
  BY <1>4, <1>5, <1>6, <1>7 DEF Inv

-----------------------------------------------------------------------------
(* Every action of the protocol is such a step. *)

LEMMA LeaveStep ==
  ASSUME Typed, NEW w \in Workers, NEW phase \in {"idle", "down"}, Leave(w, phase)
  PROVE  \A v \in Workers : WorkerStep(v)
  BY DEF Leave, Goto, Typed, TypeOK, WorkerStep

LEMMA ToReleaseStep ==
  ASSUME Typed, NEW w \in Workers, ToRelease(w), pc[w] \notin {"idle", "down"}
  PROVE  \A v \in Workers : WorkerStep(v)
<1>1. CASE held[w] = {}
  BY <1>1, LeaveStep DEF ToRelease
<1>2. CASE held[w] # {}
  BY <1>2 DEF ToRelease, Goto, Typed, TypeOK, WorkerStep, Running
<1>3. QED BY <1>1, <1>2

LEMMA ClaimJobStep == ASSUME Inv, NEW w \in Workers, ClaimJob(w) PROVE Step
<1>1. PICK q \in QueueIds :
        /\ ClaimNext(q, w, now)
        /\ claim' = [claim EXCEPT ![w] = [q |-> q, attempt |-> jobs[q].attempt + 1]]
  BY DEF ClaimJob
<1>2. jobs \in [QueueIds -> Job] /\ now \in Nat
  BY DEF Inv, Typed, TypeOK
<1>3. /\ \A r \in QueueIds \ {q} : jobs'[r] = jobs[r]
      /\ jobs[q].status \in {"queued", "leased"} /\ jobs'[q].status = "leased"
      /\ jobs'[q].attempt = jobs[q].attempt + 1 /\ jobs'[q].leasedBy = w
  BY <1>1, <1>2, ClaimEffect DEF Keeps
<1>4. pc'[w] = "acquiring" /\ claim'[w] = [q |-> q, attempt |-> jobs'[q].attempt]
  BY <1>1, <1>3 DEF ClaimJob, Goto, Inv, Typed, TypeOK
<1>5. JobsStep
  BY <1>3, <1>4 DEF JobsStep, JobStep, SameJob
<1>6. WorkerStep(w)
  BY <1>3, <1>4 DEF ClaimJob, WorkerStep
<1>7. ASSUME NEW v \in Workers, v # w PROVE WorkerStep(v)
  BY <1>1, <1>7 DEF ClaimJob, Goto, Inv, Typed, TypeOK, WorkerStep
<1>8. QED
  BY <1>5, <1>6, <1>7 DEF ClaimJob, Step, IngestedStep

LEMMA FailStep ==
  ASSUME Inv, NEW w \in Workers, NEW at \in Nat, NEW retryable \in BOOLEAN,
         FailJob(claim[w].q, w, retryable, at), claim[w].q \in QueueIds,
         retryable \/ ~ RetryFailedJobs
  PROVE  JobsStep
<1> DEFINE q == claim[w].q
<1>1. jobs \in [QueueIds -> Job] /\ jobs[q] \in Job
  BY DEF Inv, Typed, TypeOK
<1>2. /\ \A r \in QueueIds \ {q} : jobs'[r] = jobs[r]
      /\ jobs[q].status = "leased"
      /\ jobs'[q].attempt = jobs[q].attempt /\ jobs'[q].maxAttempts = jobs[q].maxAttempts
      /\ jobs'[q].status = IF retryable /\ jobs[q].attempt < jobs[q].maxAttempts
                           THEN "queued" ELSE "dead_letter"
  BY <1>1, FailEffect DEF Keeps, LeasedTo
<1>3. jobs[q].attempt \in Nat /\ jobs[q].maxAttempts \in Nat
  BY <1>1 DEF Job
<1>4. QED
  BY <1>2, <1>3 DEF JobsStep, JobStep, SameJob

LEMMA CompleteStep ==
  ASSUME Inv, NEW w \in Workers, pc[w] = "stopping", CompleteJob(claim[w].q, w)
  PROVE  JobsStep
<1> DEFINE q == claim[w].q
<1>1. q \in QueueIds /\ jobs \in [QueueIds -> Job] /\ Running(w)
  BY DEF Inv, Typed, TypeOK, PhaseOK, Running
<1>2. /\ \A r \in QueueIds \ {q} : jobs'[r] = jobs[r]
      /\ LeasedTo(q, w)
      /\ jobs'[q].status = "completed" /\ jobs'[q].attempt = jobs[q].attempt
  BY <1>1, CompleteEffect DEF Keeps
<1>3. jobs[q].attempt = claim[w].attempt /\ <<q, claim[w].attempt>> \in ingested
  BY <1>1, <1>2 DEF Inv, ClaimFence, Reported
<1>4. QED
  BY <1>2, <1>3 DEF JobsStep, JobStep, SameJob, LeasedTo

LEMMA BeatStep ==
  ASSUME Inv, NEW w \in Workers, NEW due, NEW at, StartBeat(w, due, at), claim[w].q \in QueueIds
  PROVE  \A q \in QueueIds : SameJob(q)
<1>1. jobs \in [QueueIds -> Job] /\ now \in Nat
  BY DEF Inv, Typed, TypeOK
<1>2. QED
  BY <1>1, HeartbeatEffect DEF StartBeat, SameJob

LEMMA RunOnceStep == ASSUME Inv, NEW w \in Workers, RunOnce(w) PROVE Step
<1> USE DEF Inv
<1>1. CASE ClaimJob(w)
  BY <1>1, ClaimJobStep
<1>2. CASE AcquireLease(w)
  BY <1>2 DEF AcquireLease, Goto, Typed, TypeOK, Step, JobsStep, JobStep, SameJob, WorkerStep, Running,
              IngestedStep
<1>3. CASE LoseLeaseRace(w)
  BY <1>3 DEF LoseLeaseRace, Goto, Typed, TypeOK, Step, JobsStep, JobStep, SameJob, WorkerStep, Running,
              IngestedStep
<1>4. CASE FailOnConflict(w)
  <2>1. claim[w].q \in QueueIds /\ pc[w] \notin {"idle", "down"}
    BY <1>4 DEF FailOnConflict, Typed, PhaseOK
  <2>2. PICK at \in Nat : at = checkedAt[w] + ConflictRetry
    BY TicksTyped DEF Typed, TypeOK
  <2>3. JobsStep
    BY <1>4, <2>1, <2>2, FailStep DEF FailOnConflict, JobsStep, JobStep, SameJob
  <2>4. QED
    BY <1>4, <2>1, <2>3, ToReleaseStep, LeaveStep DEF FailOnConflict, Step, IngestedStep
<1>5. CASE BeatTimer(w)
  <2>1. \A q \in QueueIds : SameJob(q)
    BY <1>5, BeatStep DEF BeatTimer, Typed, PhaseOK
  <2>2. QED BY <1>5, <2>1 DEF BeatTimer, Step, JobsStep, JobStep, WorkerStep, IngestedStep
<1>6. CASE BeatLease(w)
  BY <1>6 DEF BeatLease, Step, JobsStep, JobStep, SameJob, WorkerStep, IngestedStep
<1>7. CASE FinishIngest(w)
  <2>1. \A q \in QueueIds : SameJob(q)
    BY <1>7, BeatStep DEF FinishIngest, Typed, PhaseOK
  <2>2. \A v \in Workers : WorkerStep(v)
    BY <1>7 DEF FinishIngest, Goto, Typed, TypeOK, WorkerStep, Running
  <2>3. QED BY <1>7, <2>1, <2>2 DEF FinishIngest, Step, JobsStep, JobStep, IngestedStep
<1>8. CASE Complete(w)
  <2>1. CASE CompleteJob(claim[w].q, w) /\ ToRelease(w)
    BY <1>8, <2>1, CompleteStep, ToReleaseStep DEF Complete, Step, IngestedStep
  <2>2. CASE Goto(w, "failing") /\ UNCHANGED <<jobs, claim, next, checkedAt, held, beat>>
    BY <1>8, <2>2 DEF Complete, Goto, Typed, TypeOK, Step, JobsStep, JobStep, SameJob, WorkerStep, Running,
                      IngestedStep
  <2>3. QED BY <1>8, <2>1, <2>2 DEF Complete
<1>9. CASE Fail(w)
  <2>1. claim[w].q \in QueueIds /\ pc[w] \notin {"idle", "down"} /\ RetryFailedJobs \in BOOLEAN
    BY <1>9, WorkerAssumption DEF Fail, Typed, PhaseOK, WorkerAssumption
  <2>2. PICK at \in Nat : at = now + ConflictRetry
    BY TicksTyped DEF Typed, TypeOK
  <2>3. JobsStep
    BY <1>9, <2>1, <2>2, FailStep DEF Fail, JobsStep, JobStep, SameJob
  <2>4. QED
    BY <1>9, <2>1, <2>3, ToReleaseStep, LeaveStep DEF Fail, Step, IngestedStep
<1>10. CASE Release(w)
  BY <1>10, LeaveStep DEF Release, Step, JobsStep, JobStep, SameJob, WorkerStep, IngestedStep
<1>11. QED
  BY <1>1, <1>2, <1>3, <1>4, <1>5, <1>6, <1>7, <1>8, <1>9, <1>10 DEF RunOnce

LEMMA FaultStep ==
  ASSUME Inv, NEW w \in Workers,
         Crash(w) \/ Restart(w) \/ StatementFails(w) \/ LoseCompletionReply(w)
  PROVE  Step
<1> USE DEF Inv
<1>1. CASE Crash(w)
  BY <1>1, LeaveStep DEF Crash, Step, JobsStep, JobStep, SameJob, IngestedStep
<1>2. CASE Restart(w)
  BY <1>2 DEF Restart, Goto, Typed, TypeOK, Step, JobsStep, JobStep, SameJob, WorkerStep, IngestedStep
<1>3. CASE StatementFails(w)
  <2>1. \A v \in Workers : WorkerStep(v)
    BY <1>3, LeaveStep DEF StatementFails, Goto, Typed, TypeOK, WorkerStep, Running
  <2>2. QED BY <1>3, <2>1 DEF StatementFails, Step, JobsStep, JobStep, SameJob, IngestedStep
<1>4. CASE LoseCompletionReply(w)
  <2>1. \A v \in Workers : WorkerStep(v)
    BY <1>4 DEF LoseCompletionReply, Goto, Typed, TypeOK, WorkerStep, Running
  <2>2. QED
    BY <1>4, <2>1, CompleteStep DEF LoseCompletionReply, Step, IngestedStep
<1>5. QED BY <1>1, <1>2, <1>3, <1>4

LEMMA OperatorStep == ASSUME Inv, Operator PROVE Step
<1>1. PICK q \in QueueIds : Enqueue(q) \/ Cancel(q) \/ Requeue(q)
  BY DEF Operator
<1>2. jobs \in [QueueIds -> Job]
  BY DEF Inv, Typed, TypeOK
<1>3. JobsStep
  BY <1>1, <1>2, EnqueueEffect, CancelEffect, RequeueEffect DEF JobsStep, JobStep, SameJob, Keeps
<1>4. QED
  BY <1>3 DEF Operator, local, Step, WorkerStep, IngestedStep

LEMMA NextStep == Inv /\ [Next]_vars => Step
<1> SUFFICES ASSUME Inv, [Next]_vars PROVE Step
  OBVIOUS
<1>1. CASE UNCHANGED vars
  BY <1>1 DEF vars, local, Step, JobsStep, JobStep, SameJob, WorkerStep, IngestedStep
<1>2. CASE Tick
  BY <1>2 DEF Tick, local, Step, JobsStep, JobStep, SameJob, WorkerStep, IngestedStep
<1>3. QED
  BY <1>1, <1>2, RunOnceStep, FaultStep, OperatorStep DEF Next

LEMMA InitInv == Init => Inv
<1> SUFFICES ASSUME Init PROVE Inv
  OBVIOUS
<1>1. Typed
  BY InitTyped
<1>2. QED
  BY <1>1 DEF Init, QueueInit, NoJob, NoClaim, Inv, ClaimFence, Reported, Running,
              CompletedWasIngested, RetryDiscipline

LEMMA Invariance == Spec => []Inv
<1>1. Inv /\ [Next]_vars => Inv'
  BY NextStep, InvInductive, StepTyped DEF Inv
<1>2. QED
  BY InitInv, <1>1, PTL DEF Spec

-----------------------------------------------------------------------------
(* A worker whose job was reclaimed, requeued or cancelled behind its back   *)
(* can neither complete nor fail it: complete and fail look at leasedBy, and *)
(* that always names the latest claim.                                       *)
THEOREM Fenced == Spec => []ClaimFence
  BY Invariance, PTL DEF Inv

(* A completed job was ingested, by the attempt its row shows. *)
THEOREM CompletionMeansIngested == Spec => []CompletedWasIngested
  BY Invariance, PTL DEF Inv

(* A queued job has an attempt left, and with retries on no job is dead-     *)
(* lettered before its attempts are used up.                                 *)
THEOREM RetriesDisciplined == Spec => []RetryDiscipline
  BY Invariance, PTL DEF Inv

-----------------------------------------------------------------------------
(* The status of a job moves along the edges of JobLifecycle only. *)
LEMMA RefinesInit == Init => Lifecycle!Init
<1> SUFFICES ASSUME Init PROVE Lifecycle!Init
  OBVIOUS
<1>1. \A q \in QueueIds : jobs[q].status = "absent"
  BY DEF Init, QueueInit, NoJob
<1>2. QED
  BY <1>1 DEF Init, Lifecycle!Init

LEMMA RefinesNext ==
  Inv /\ [Next]_vars =>
    [Lifecycle!Next]_<<[q \in QueueIds |-> jobs[q].status],
                       {q \in QueueIds : \E k \in ingested : k[1] = q}>>
<1> DEFINE state == [q \in QueueIds |-> jobs[q].status]
           done == {q \in QueueIds : \E k \in ingested : k[1] = q}
<1> SUFFICES ASSUME Inv, [Next]_vars
             PROVE  Lifecycle!Next \/ UNCHANGED <<state, done>>
  OBVIOUS
<1>1. JobsStep /\ IngestedStep
  BY NextStep DEF Step
<1>2. CASE \A q \in QueueIds : SameJob(q)
  <2>1. UNCHANGED state
    BY <1>2 DEF SameJob
  <2>2. CASE UNCHANGED ingested
    BY <2>1, <2>2
  <2>3. ASSUME NEW w \in Workers, pc[w] = "ingesting",
               ingested' = ingested \cup {<<claim[w].q, claim[w].attempt>>}
        PROVE  Lifecycle!Next
    <3>1. claim[w].q \in QueueIds /\ state[claim[w].q] # "absent"
      BY <2>3 DEF Inv, Typed, PhaseOK, Reported
    <3>2. done' = done \cup {claim[w].q}
      <4>1. \A k : k \in ingested' <=>
                     k \in ingested \/ k = <<claim[w].q, claim[w].attempt>>
        BY <2>3
      <4>2. \A q \in QueueIds : q \in done' <=> q \in done \/ q = claim[w].q
        <5>1. <<claim[w].q, claim[w].attempt>>[1] = claim[w].q
          OBVIOUS
        <5>2. QED BY <3>1, <4>1, <5>1
      <4>3. QED BY <3>1, <4>2
    <3> HIDE DEF state, done
    <3>3. QED
      BY <2>1, <3>1, <3>2 DEF Lifecycle!Next, Lifecycle!Ingest, state, done
  <2>4. QED BY <1>1, <2>2, <2>3 DEF IngestedStep
<1>3. ASSUME NEW q \in QueueIds, ~ SameJob(q)
      PROVE  Lifecycle!Next \/ UNCHANGED <<state, done>>
  <2>1. UNCHANGED done
    BY <1>1, <1>3 DEF IngestedStep
  <2>2. \A r \in QueueIds \ {q} : jobs'[r].status = jobs[r].status
    BY <1>1, <1>3 DEF JobsStep, SameJob
  <2>3. state' = [state EXCEPT ![q] = jobs'[q].status] /\ state[q] = jobs[q].status
    BY <2>2
  <2>4. CASE jobs'[q].status = jobs[q].status
    BY <2>1, <2>3, <2>4
  <2>5. ASSUME jobs[q].status = "leased", jobs'[q].status = "completed",
               <<q, jobs'[q].attempt>> \in ingested
        PROVE  Lifecycle!Complete(q)
    <3>1. q \in done
      BY <2>5
    <3>2. QED BY <2>1, <2>3, <2>5, <3>1 DEF Lifecycle!Complete, Lifecycle!Move
  <2>6. JobStep(q)
    BY <1>1 DEF JobsStep
  <2> HIDE DEF state, done
  <2>7. CASE jobs[q].status = "absent" /\ jobs'[q].status = "queued"
    BY <2>1, <2>3, <2>7 DEF Lifecycle!Next, Lifecycle!Submit, Lifecycle!Move, state, done
  <2>8. CASE jobs[q].status = "dead_letter" /\ jobs'[q].status = "queued"
    BY <2>1, <2>3, <2>8 DEF Lifecycle!Next, Lifecycle!Requeue, Lifecycle!Move, state, done
  <2>9. CASE jobs[q].status \in {"queued", "leased"} /\ jobs'[q].status = "cancelled"
    BY <2>1, <2>3, <2>9 DEF Lifecycle!Next, Lifecycle!Cancel, Lifecycle!Move, state, done
  <2>10. CASE jobs[q].status = "queued" /\ jobs'[q].status = "leased"
    BY <2>1, <2>3, <2>10 DEF Lifecycle!Next, Lifecycle!Start, Lifecycle!Move, state, done
  <2>11. CASE jobs[q].status = "leased" /\ jobs'[q].status = "queued"
    BY <2>1, <2>3, <2>11 DEF Lifecycle!Next, Lifecycle!Retry, Lifecycle!Move, state, done
  <2>12. CASE jobs[q].status = "leased" /\ jobs'[q].status = "dead_letter"
    BY <2>1, <2>3, <2>12 DEF Lifecycle!Next, Lifecycle!GiveUp, Lifecycle!Move, state, done
  <2>13. QED
    BY <1>3, <2>4, <2>5, <2>6, <2>7, <2>8, <2>9, <2>10, <2>11, <2>12
       DEF JobStep, Lifecycle!Next
<1>4. QED BY <1>2, <1>3

(* The queue, its leases and the workers implement the job lifecycle: a late *)
(* worker cannot complete a job that was not ingested, bring back a dead-    *)
(* lettered or cancelled one, or touch a completed one.                      *)
THEOREM ImplementsTheLifecycle == Spec => ImplementsLifecycle
<1>1. QED
  BY Invariance, RefinesInit, RefinesNext, PTL DEF Spec, ImplementsLifecycle, Lifecycle!Spec
=============================================================================
