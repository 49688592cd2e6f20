------------------------ MODULE IngestionQueueProofs ------------------------
(***************************************************************************)
(* What each queue operator does to the table of jobs: it keeps it well-   *)
(* typed, and it changes one job, in the named fields.                     *)
(***************************************************************************)
EXTENDS IngestionQueue, TLAPS

(* Each queue operator keeps the table of jobs well-typed. *)
LEMMA EnqueueTyped ==
  ASSUME jobs \in [QueueIds -> Job], now \in Nat, NEW q \in QueueIds,
         Enqueue(q) \/ Cancel(q) \/ Requeue(q)
  PROVE  jobs' \in [QueueIds -> Job]
<1>0. AttemptLimits \subseteq Nat /\ jobs[q] \in Job
  BY QueueAssumption DEF QueueAssumption
<1>1. CASE Enqueue(q)
  <2>1. PICK limit \in Nat :
          jobs' = [jobs EXCEPT ![q] =
                     [NoJob EXCEPT !.status = "queued", !.maxAttempts = limit,
                                   !.availableAt = now, !.enqueuedAt = now]]
    BY <1>0, <1>1 DEF Enqueue
  <2>2. NoJob \in Job
    BY DEF NoJob, Job, Statuses
  <2>3. QED BY <2>1, <2>2 DEF Job, Statuses
<1>2. CASE Cancel(q)
  BY <1>0, <1>2 DEF Cancel, Unleased, Job, Statuses
<1>3. CASE Requeue(q)
  <2>1. PICK limit \in Nat :
          jobs' = [jobs EXCEPT ![q] =
                     [jobs[q] EXCEPT !.status = "queued", !.attempt = 0,
                                     !.maxAttempts = limit, !.availableAt = now]]
    BY <1>0, <1>3 DEF Requeue
  <2>2. QED BY <1>0, <2>1 DEF Job, Statuses
<1>4. QED BY <1>1, <1>2, <1>3

LEMMA ClaimTyped ==
  ASSUME jobs \in [QueueIds -> Job], NEW q \in QueueIds, NEW w \in Workers, NEW at \in Nat,
         ClaimNext(q, w, at)
  PROVE  jobs' \in [QueueIds -> Job]
<1>1. PICK attempt \in Nat, until \in Nat, job \in Job :
        attempt = jobs[q].attempt + 1 /\ until = at + LeaseTtl /\ job = jobs[q]
  BY QueueAssumption DEF Job, QueueAssumption
<1>2. jobs' = [jobs EXCEPT ![q] =
                 [job EXCEPT !.status = "leased", !.attempt = attempt,
                             !.leasedBy = w, !.leaseExpiresAt = until]]
  BY <1>1 DEF ClaimNext
<1>3. QED BY <1>2 DEF Job, Statuses

LEMMA SettleTyped ==
  ASSUME jobs \in [QueueIds -> Job], NEW q \in QueueIds, NEW w \in Workers, NEW at \in Nat,
         NEW retryable \in BOOLEAN,
         CompleteJob(q, w) \/ FailJob(q, w, retryable, at)
  PROVE  jobs' \in [QueueIds -> Job]
<1>1. jobs[q] \in Job
  OBVIOUS
<1>2. CASE CompleteJob(q, w)
  BY <1>1, <1>2 DEF CompleteJob, Unleased, Job, Statuses
<1>3. CASE FailJob(q, w, retryable, at)
  BY <1>1, <1>3 DEF FailJob, Unleased, Job, Statuses
<1>4. QED BY <1>2, <1>3

LEMMA HeartbeatTyped ==
  ASSUME jobs \in [QueueIds -> Job], NEW q \in QueueIds, NEW w \in Workers, NEW at \in Nat
  PROVE  JobsAfterHeartbeat(q, w, at) \in [QueueIds -> Job]
<1>1. PICK until \in Nat : until = at + LeaseTtl
  BY QueueAssumption DEF QueueAssumption
<1>2. jobs[q] \in Job
  OBVIOUS
<1>3. QED BY <1>1, <1>2 DEF JobsAfterHeartbeat, Job, Statuses

-----------------------------------------------------------------------------
Keeps(r) == jobs'[r] = jobs[r]

LEMMA EnqueueEffect ==
  ASSUME jobs \in [QueueIds -> Job], NEW q \in QueueIds, Enqueue(q)
  PROVE  /\ \A r \in QueueIds \ {q} : Keeps(r)
         /\ jobs[q].status = "absent" /\ jobs'[q].status = "queued"
         /\ jobs'[q].attempt = 0 /\ jobs'[q].maxAttempts \in Nat \ {0}
<1>1. PICK limit \in AttemptLimits :
        jobs' = [jobs EXCEPT ![q] =
                   [NoJob EXCEPT !.status = "queued", !.maxAttempts = limit,
                                 !.availableAt = now, !.enqueuedAt = now]]
  BY DEF Enqueue
<1>2. limit \in Nat \ {0}
  BY QueueAssumption DEF QueueAssumption
<1>3. jobs[q].status = "absent"
  BY DEF Enqueue
<1>4. QED BY <1>1, <1>2, <1>3 DEF NoJob, Keeps

LEMMA RequeueEffect ==
  ASSUME jobs \in [QueueIds -> Job], NEW q \in QueueIds, Requeue(q)
  PROVE  /\ \A r \in QueueIds \ {q} : Keeps(r)
         /\ jobs[q].status = "dead_letter" /\ jobs'[q].status = "queued"
         /\ jobs'[q].attempt = 0 /\ jobs'[q].maxAttempts \in Nat \ {0}
<1>1. PICK limit \in AttemptLimits :
        jobs' = [jobs EXCEPT ![q] =
                   [jobs[q] EXCEPT !.status = "queued", !.attempt = 0,
                                   !.maxAttempts = limit, !.availableAt = now]]
  BY DEF Requeue
<1>2. limit \in Nat \ {0} /\ jobs[q] \in Job
  BY QueueAssumption DEF QueueAssumption
<1>3. jobs[q].status = "dead_letter"
  BY DEF Requeue
<1>4. QED BY <1>1, <1>2, <1>3 DEF Job, Keeps

LEMMA CancelEffect ==
  ASSUME jobs \in [QueueIds -> Job], NEW q \in QueueIds, Cancel(q)
  PROVE  /\ \A r \in QueueIds \ {q} : Keeps(r)
         /\ jobs[q].status \in {"queued", "leased"} /\ jobs'[q].status = "cancelled"
<1>1. jobs[q] \in Job
  OBVIOUS
<1>2. QED BY <1>1 DEF Cancel, Unleased, Job, Keeps

LEMMA ClaimEffect ==
  ASSUME jobs \in [QueueIds -> Job], NEW q \in QueueIds, NEW w \in Workers, NEW at \in Nat,
         ClaimNext(q, w, at)
  PROVE  /\ \A r \in QueueIds \ {q} : Keeps(r)
         /\ jobs[q].status \in {"queued", "leased"} /\ jobs'[q].status = "leased"
         /\ jobs'[q].attempt = jobs[q].attempt + 1 /\ jobs'[q].leasedBy = w
         /\ jobs'[q].leaseExpiresAt = at + LeaseTtl
<1>1. jobs[q] \in Job
  OBVIOUS
<1>2. jobs[q].status \in {"queued", "leased"}
  BY DEF ClaimNext, Candidate, Claimable
<1>3. jobs' = [jobs EXCEPT ![q] =
                 [jobs[q] EXCEPT !.status = "leased", !.attempt = jobs[q].attempt + 1,
                                 !.leasedBy = w, !.leaseExpiresAt = at + LeaseTtl]]
  BY DEF ClaimNext
<1>4. QED BY <1>1, <1>2, <1>3 DEF Job, Keeps

LEMMA CompleteEffect ==
  ASSUME jobs \in [QueueIds -> Job], NEW q \in QueueIds, NEW w \in Workers, CompleteJob(q, w)
  PROVE  /\ \A r \in QueueIds \ {q} : Keeps(r)
         /\ LeasedTo(q, w)
         /\ jobs'[q].status = "completed" /\ jobs'[q].attempt = jobs[q].attempt
<1>1. jobs[q] \in Job
  OBVIOUS
<1>2. QED BY <1>1 DEF CompleteJob, Unleased, Job, Keeps

LEMMA FailEffect ==
  ASSUME jobs \in [QueueIds -> Job], NEW q \in QueueIds, NEW w \in Workers, NEW at \in Nat,
         NEW retryable \in BOOLEAN, FailJob(q, w, retryable, at)
  PROVE  /\ \A r \in QueueIds \ {q} : Keeps(r)
         /\ LeasedTo(q, w)
         /\ jobs'[q].attempt = jobs[q].attempt /\ jobs'[q].maxAttempts = jobs[q].maxAttempts
         /\ jobs'[q].status = IF retryable /\ jobs[q].attempt < jobs[q].maxAttempts
                              THEN "queued" ELSE "dead_letter"
<1>1. jobs[q] \in Job
  OBVIOUS
<1>2. CASE retryable /\ jobs[q].attempt < jobs[q].maxAttempts
  <2>1. jobs' = [jobs EXCEPT ![q] =
                   Unleased([jobs[q] EXCEPT !.status = "queued", !.availableAt = at])]
    BY <1>2 DEF FailJob
  <2>2. QED BY <1>1, <1>2, <2>1 DEF FailJob, Unleased, Job, Keeps
<1>3. CASE ~ (retryable /\ jobs[q].attempt < jobs[q].maxAttempts)
  <2>1. jobs' = [jobs EXCEPT ![q] = Unleased([jobs[q] EXCEPT !.status = "dead_letter"])]
    BY <1>3 DEF FailJob
  <2>2. QED BY <1>1, <1>3, <2>1 DEF FailJob, Unleased, Job, Keeps
<1>4. QED BY <1>2, <1>3

LEMMA HeartbeatEffect ==
  ASSUME jobs \in [QueueIds -> Job], NEW q \in QueueIds, NEW w \in Workers, NEW at \in Nat,
         NEW r \in QueueIds
  PROVE  LET job == JobsAfterHeartbeat(q, w, at)[r]
         IN  /\ job.status = jobs[r].status /\ job.leasedBy = jobs[r].leasedBy
             /\ job.attempt = jobs[r].attempt /\ job.maxAttempts = jobs[r].maxAttempts
             /\ job.leaseExpiresAt =
                  IF r = q /\ LeasedTo(q, w) /\ jobs[q].leaseExpiresAt > at
                  THEN at + LeaseTtl ELSE jobs[r].leaseExpiresAt
<1>1. jobs[q] \in Job /\ jobs[r] \in Job
  OBVIOUS
<1>2. QED BY <1>1 DEF JobsAfterHeartbeat, Job
=============================================================================
