--------------------------- MODULE IngestionQueue ---------------------------
(***************************************************************************)
(* The ingestion job queue of src/src/runtime/ingestion-scale.ts: the rows *)
(* of rag_core.ingestion_queue (or the Map of the in-memory queue) and one *)
(* operator per method of the IngestionJobQueue interface.                 *)
(*                                                                         *)
(* Every method is one SQL statement (or one synchronous block), so each   *)
(* operator below is atomic.  The callers pass the time they believe it    *)
(* is, as the code does: no method reads a clock of its own.               *)
(***************************************************************************)
EXTENDS Integers, Sequences, FiniteSets

CONSTANTS
  QueueIds,       \* queue ids; numbers, because claims break ties by queueId
  Workers,        \* worker ids; a worker id is one process at a time
  NoWorker,       \* leasedBy of a job nobody leases
  Backend,        \* "memory" or "postgres": which implementation is used
  Priority,       \* [QueueIds -> Int], the priority each job is enqueued with
  AttemptLimits,  \* the maxAttempts an enqueue or a requeue may ask for
  Filter,         \* [Workers -> SUBSET QueueIds], jobs a worker's claim filter admits
  LeaseTtl        \* leaseTtlMs, in ticks

ASSUME QueueAssumption ==
  /\ QueueIds \subseteq Nat \ {0}
  /\ NoWorker \notin Workers
  /\ Backend \in {"memory", "postgres"}
  /\ Priority \in [QueueIds -> Int]
  /\ AttemptLimits \subseteq Nat \ {0}
  /\ Filter \in [Workers -> SUBSET QueueIds]
  /\ LeaseTtl \in Nat \ {0}

VARIABLES
  jobs,           \* [QueueIds -> Job], status "absent" before the enqueue
  now             \* the clock all processes read

Statuses == {"absent", "queued", "leased", "completed", "dead_letter", "cancelled"}

Job ==
  [status: Statuses, attempt: Nat, maxAttempts: Nat, availableAt: Nat,
   enqueuedAt: Nat, leasedBy: Workers \cup {NoWorker}, leaseExpiresAt: Nat]

NoJob ==
  [status |-> "absent", attempt |-> 0, maxAttempts |-> 0, availableAt |-> 0,
   enqueuedAt |-> 0, leasedBy |-> NoWorker, leaseExpiresAt |-> 0]

QueueInit == jobs = [q \in QueueIds |-> NoJob] /\ now = 0

Unleased(job) == [job EXCEPT !.leasedBy = NoWorker, !.leaseExpiresAt = 0]

-----------------------------------------------------------------------------
(* enqueue: a second enqueue of a queue id throws (duplicate key). *)
Enqueue(q) ==
  /\ jobs[q].status = "absent"
  /\ \E limit \in AttemptLimits :
       jobs' = [jobs EXCEPT ![q] =
                  [NoJob EXCEPT !.status = "queued", !.maxAttempts = limit,
                                !.availableAt = now, !.enqueuedAt = now]]

(* Mistakes of Claimable: a claim that looks at no expiry, one that never     *)
(* takes a leased job over.                                                   *)
Claimable_Unexpired(q, at) ==
  \/ jobs[q].status = "queued" /\ jobs[q].availableAt <= at
  \/ Backend = "postgres" /\ jobs[q].status = "leased"
Claimable_QueuedOnly(q, at) == jobs[q].status = "queued" /\ jobs[q].availableAt <= at

(* Only the Postgres claim also takes over a job whose lease has expired. *)
Claimable(q, at) ==
  \/ jobs[q].status = "queued" /\ jobs[q].availableAt <= at
  \/ /\ Backend = "postgres"
     /\ jobs[q].status = "leased" /\ jobs[q].leaseExpiresAt <= at

(* order by priority desc, available_at, enqueued_at, queue_id *)
ClaimedBefore(q, r) ==
  \/ Priority[q] > Priority[r]
  \/ /\ Priority[q] = Priority[r]
     /\ \/ jobs[q].availableAt < jobs[r].availableAt
        \/ /\ jobs[q].availableAt = jobs[r].availableAt
           /\ \/ jobs[q].enqueuedAt < jobs[r].enqueuedAt
              \/ jobs[q].enqueuedAt = jobs[r].enqueuedAt /\ q < r

Candidate(q, w, at) ==
  /\ q \in Filter[w] /\ Claimable(q, at)
  /\ \A r \in Filter[w] \ {q} : Claimable(r, at) => ClaimedBefore(q, r)

(* Mistake: a job taken over keeps the worker that lost it in leasedBy. *)
ClaimNext_KeepsOwner(q, w, at) ==
  /\ Candidate(q, w, at)
  /\ jobs' = [jobs EXCEPT ![q] =
                [jobs[q] EXCEPT !.status = "leased", !.attempt = @ + 1,
                                !.leasedBy = IF @ = NoWorker THEN w ELSE @,
                                !.leaseExpiresAt = at + LeaseTtl]]

ClaimNext(q, w, at) ==
  /\ Candidate(q, w, at)
  /\ jobs' = [jobs EXCEPT ![q] =
                [jobs[q] EXCEPT !.status = "leased", !.attempt = @ + 1,
                                !.leasedBy = w, !.leaseExpiresAt = at + LeaseTtl]]

(* requireClaimedJob: neither complete nor fail looks at the expiry. *)
LeasedTo(q, w) == jobs[q].status = "leased" /\ jobs[q].leasedBy = w

(* Mistake: complete checks that the job is leased, not by whom. *)
CompleteJob_Unfenced(q, w) ==
  /\ jobs[q].status = "leased"
  /\ jobs' = [jobs EXCEPT ![q] = Unleased([jobs[q] EXCEPT !.status = "completed"])]

CompleteJob(q, w) ==
  /\ LeasedTo(q, w)
  /\ jobs' = [jobs EXCEPT ![q] = Unleased([jobs[q] EXCEPT !.status = "completed"])]

(* Mistake: one retry too many. *)
FailJob_OffByOne(q, w, retryable, nextAvailableAt) ==
  /\ LeasedTo(q, w)
  /\ jobs' = [jobs EXCEPT ![q] =
       IF retryable /\ jobs[q].attempt <= jobs[q].maxAttempts
       THEN Unleased([jobs[q] EXCEPT !.status = "queued", !.availableAt = nextAvailableAt])
       ELSE Unleased([jobs[q] EXCEPT !.status = "dead_letter"])]

FailJob(q, w, retryable, nextAvailableAt) ==
  /\ LeasedTo(q, w)
  /\ jobs' = [jobs EXCEPT ![q] =
       IF retryable /\ jobs[q].attempt < jobs[q].maxAttempts
       THEN Unleased([jobs[q] EXCEPT !.status = "queued", !.availableAt = nextAvailableAt])
       ELSE Unleased([jobs[q] EXCEPT !.status = "dead_letter"])]

(* heartbeat: refused (undefined, no error) once the lease has expired. *)
JobsAfterHeartbeat(q, w, at) ==
  IF LeasedTo(q, w) /\ jobs[q].leaseExpiresAt > at
  THEN [jobs EXCEPT ![q].leaseExpiresAt = at + LeaseTtl]
  ELSE jobs

(* Mistake: cancel does not look at the status. *)
Cancel_Unguarded(q) ==
  /\ jobs[q].status # "absent"
  /\ jobs' = [jobs EXCEPT ![q] = Unleased([jobs[q] EXCEPT !.status = "cancelled"])]

Cancel(q) ==
  /\ jobs[q].status \in {"queued", "leased"}
  /\ jobs' = [jobs EXCEPT ![q] = Unleased([jobs[q] EXCEPT !.status = "cancelled"])]

Requeue(q) ==
  /\ jobs[q].status = "dead_letter"
  /\ \E limit \in AttemptLimits :
       jobs' = [jobs EXCEPT ![q] =
                  [jobs[q] EXCEPT !.status = "queued", !.attempt = 0,
                                  !.maxAttempts = limit, !.availableAt = now]]
=============================================================================
