--------------------------- MODULE IngestionWorker --------------------------
(***************************************************************************)
(* ProductionIngestionWorker (src/src/runtime/ingestion-worker.ts) over    *)
(* the job queue and the resource leases.  One worker process runs         *)
(*                                                                         *)
(*   claimNext -> acquire each lease -> ingest, with a heartbeat timer     *)
(*     -> last heartbeat -> complete or fail -> release the leases         *)
(*                                                                         *)
(* and every await between two of those calls is a point where the other   *)
(* workers, the operator and the clock may step in.                        *)
(***************************************************************************)
EXTENDS IngestionLeases

CONSTANTS
  LeaseResourceIds,  \* [QueueIds -> Seq(Resources)], leaseResourceIds(job)
  RetryFailedJobs,   \* retryFailedJobs of the workers
  ConflictRetry,     \* leaseConflictRetryMs, in ticks
  BeatInterval,      \* heartbeatIntervalMs, in ticks (half the TTL by default)
  Timely,            \* TRUE: timers fire on time and statements take no time
  MaxTime,           \* bound: the clock stops here
  MaxAttempt,        \* bound: no claim takes a job beyond this attempt
  MaxFaults          \* bound: crashes and failed statements in a behaviour

ASSUME WorkerAssumption ==
  /\ LeaseResourceIds \in [QueueIds -> Seq(Resources)]
  /\ \A q \in QueueIds :
       /\ LeaseResourceIds[q] # << >>
       /\ \A i, j \in 1..Len(LeaseResourceIds[q]) :
            LeaseResourceIds[q][i] = LeaseResourceIds[q][j] => i = j
  /\ RetryFailedJobs \in BOOLEAN
  /\ ConflictRetry \in Nat \ {0}
  /\ BeatInterval \in 1..(LeaseTtl - 1)
  /\ Timely \in BOOLEAN
  /\ MaxTime \in Nat /\ MaxAttempt \in Nat /\ MaxFaults \in Nat

VARIABLES
  pc,          \* where runOnce of each worker is
  claim,       \* queueJob: the snapshot of the job the worker claimed
  next,        \* the loop of acquireLeases: index of the resource to acquire next
  checkedAt,   \* the clock as runOnce read it before claiming (0 once unused)
  held,        \* the leases runOnce has been given and not yet released
  beat,        \* the heartbeat: when the timer fires next (0: no timer), the
               \* time of the last beat (0 before it), and the lease
               \* heartbeats in flight, each with the time it carries
  ingested,    \* history: <<q, attempt>> of every run that ingested everything
  faults       \* crashes and failed statements so far

local == <<pc, claim, next, checkedAt, held, beat>>
vars == <<jobs, now, leases, local, ingested, faults>>

-----------------------------------------------------------------------------
Phases ==
  {"idle", "acquiring", "conflict", "ingesting",
   "stopping", "stopping_failed", "failing", "releasing", "down"}

Claim == [q: QueueIds \cup {0}, attempt: Nat]
NoClaim == [q |-> 0, attempt |-> 0]
Beat == [due: Nat, at: Nat, pending: SUBSET (Resources \X Nat)]
NoBeat == [due |-> 0, at |-> 0, pending |-> {}]

Init ==
  /\ QueueInit
  /\ LeasesInit
  /\ pc = [w \in Workers |-> "idle"]
  /\ claim = [w \in Workers |-> NoClaim]
  /\ next = [w \in Workers |-> 0]
  /\ checkedAt = [w \in Workers |-> 0]
  /\ held = [w \in Workers |-> {}]
  /\ beat = [w \in Workers |-> NoBeat]
  /\ ingested = {}
  /\ faults = 0

Goto(w, phase) == pc' = [pc EXCEPT ![w] = phase]

(* runOnce returns or rejects: the process forgets the job.  When it rejects *)
(* before releaseLeases, the lease rows it held stay behind.                 *)
Leave(w, phase) ==
  /\ Goto(w, phase)
  /\ claim' = [claim EXCEPT ![w] = NoClaim]
  /\ next' = [next EXCEPT ![w] = 0]
  /\ checkedAt' = [checkedAt EXCEPT ![w] = 0]
  /\ held' = [held EXCEPT ![w] = {}]
  /\ beat' = [beat EXCEPT ![w] = NoBeat]

NextResource(w) == LeaseResourceIds[claim[w].q][next[w]]
LastResource(w) == next[w] = Len(LeaseResourceIds[claim[w].q])

-----------------------------------------------------------------------------
(* runOnce *)

(* claimNext is issued in the same turn as the clock is read. *)
ClaimJob(w) ==
  /\ pc[w] = "idle"
  /\ \E q \in QueueIds :
       /\ jobs[q].attempt < MaxAttempt
       /\ ClaimNext(q, w, now)
       /\ claim' = [claim EXCEPT ![w] = [q |-> q, attempt |-> jobs[q].attempt + 1]]
  /\ next' = [next EXCEPT ![w] = 1]
  /\ checkedAt' = [checkedAt EXCEPT ![w] = now]
  /\ Goto(w, "acquiring")
  /\ UNCHANGED <<now, leases, held, beat, ingested, faults>>

(* acquireLeases, one await per resource; after the last one the heartbeat   *)
(* timer is set and the ingest starts in the same turn.                      *)
AcquireLease(w) ==
  /\ pc[w] = "acquiring"
  /\ Acquire(NextResource(w), w, checkedAt[w])
  /\ held' = [held EXCEPT ![w] = @ \cup {NextResource(w)}]
  /\ IF LastResource(w)
     THEN /\ Goto(w, "ingesting")
          /\ beat' = [beat EXCEPT ![w].due = now + BeatInterval]
          /\ next' = [next EXCEPT ![w] = 0]
          /\ checkedAt' = [checkedAt EXCEPT ![w] = 0]
     ELSE /\ next' = [next EXCEPT ![w] = @ + 1]
          /\ UNCHANGED <<pc, beat, checkedAt>>
  /\ UNCHANGED <<jobs, now, claim, ingested, faults>>

LoseLeaseRace(w) ==
  /\ pc[w] = "acquiring"
  /\ ~ Acquirable(NextResource(w), w, checkedAt[w])
  /\ Goto(w, "conflict")
  /\ next' = [next EXCEPT ![w] = 0]
  /\ UNCHANGED <<jobs, now, leases, claim, checkedAt, held, beat, ingested, faults>>

(* releaseLeases has nothing to await when no lease was acquired. *)
ToRelease(w) ==
  IF held[w] = {}
  THEN Leave(w, "idle")
  ELSE Goto(w, "releasing") /\ UNCHANGED <<claim, next, checkedAt, held, beat>>

(* queue.fail on a conflict, with the time read before the claim; it throws, *)
(* and the leases stay, when the job is no longer leased to this worker.     *)
FailOnConflict(w) ==
  /\ pc[w] = "conflict"
  /\ \/ /\ FailJob(claim[w].q, w, TRUE, checkedAt[w] + ConflictRetry)
        /\ ToRelease(w)
     \/ /\ ~ LeasedTo(claim[w].q, w)
        /\ Leave(w, "idle")
        /\ UNCHANGED jobs
  /\ UNCHANGED <<now, leases, ingested, faults>>

(* beat(): the queue heartbeat goes out as the clock is read, the lease      *)
(* heartbeats follow it, still carrying that time.  Results are ignored, and *)
(* the timer does not wait for the beat before: they may overlap.            *)
StartBeat(w, due, at) ==
  /\ jobs' = JobsAfterHeartbeat(claim[w].q, w, now)
  /\ beat' = [beat EXCEPT ![w] =
       [due |-> due, at |-> at, pending |-> beat[w].pending \cup (held[w] \X {now})]]

BeatTimer(w) ==
  /\ pc[w] = "ingesting"
  /\ beat[w].due <= now
  /\ StartBeat(w, now + BeatInterval, 0)
  /\ UNCHANGED <<now, leases, pc, claim, next, checkedAt, held, ingested, faults>>

BeatLease(w) ==
  \E sent \in beat[w].pending :
    /\ HeartbeatLease(sent[1], w, sent[2])
    /\ beat' = [beat EXCEPT ![w] =
         [due |-> beat[w].due, at |-> beat[w].at, pending |-> beat[w].pending \ {sent}]]
    /\ UNCHANGED <<jobs, now, pc, claim, next, checkedAt, held, ingested, faults>>

(* stop() awaits its own beat only. *)
LastBeatDone(w) == \A sent \in beat[w].pending : sent[2] # beat[w].at

(* The ingest settles and heartbeat.stop() sends the last beat.  The worker  *)
(* never learned whether a beat was refused: a run that lost its job or its  *)
(* leases ends like any other.                                               *)
FinishIngest(w) ==
  /\ pc[w] = "ingesting"
  /\ StartBeat(w, 0, now)
  /\ \/ /\ Goto(w, "stopping")
        /\ ingested' = ingested \cup {<<claim[w].q, claim[w].attempt>>}
     \/ /\ Goto(w, "stopping_failed")
        /\ UNCHANGED ingested
  /\ UNCHANGED <<now, leases, claim, next, checkedAt, held, faults>>

(* queue.complete; when it throws, the catch block goes on to queue.fail. *)
Complete(w) ==
  /\ pc[w] = "stopping" /\ LastBeatDone(w)
  /\ \/ CompleteJob(claim[w].q, w) /\ ToRelease(w)
     \/ /\ ~ LeasedTo(claim[w].q, w)
        /\ Goto(w, "failing")
        /\ UNCHANGED <<jobs, claim, next, checkedAt, held, beat>>
  /\ UNCHANGED <<now, leases, ingested, faults>>

(* queue.fail in the catch block; when it throws too, runOnce rejects. *)
Fail(w) ==
  /\ pc[w] \in {"stopping_failed", "failing"} /\ LastBeatDone(w)
  /\ \/ /\ FailJob(claim[w].q, w, RetryFailedJobs, now + ConflictRetry)
        /\ ToRelease(w)
     \/ /\ ~ LeasedTo(claim[w].q, w)
        /\ Leave(w, "idle")
        /\ UNCHANGED jobs
  /\ UNCHANGED <<now, leases, ingested, faults>>

Release(w) ==
  /\ pc[w] = "releasing"
  /\ \E r \in held[w] :
       /\ ReleaseLease(r, w)
       /\ IF held[w] = {r}
          THEN Leave(w, "idle")
          ELSE /\ held' = [held EXCEPT ![w] = @ \ {r}]
               /\ UNCHANGED <<pc, claim, next, checkedAt, beat>>
  /\ UNCHANGED <<jobs, now, ingested, faults>>

RunOnce(w) ==
  \/ ClaimJob(w) \/ AcquireLease(w) \/ LoseLeaseRace(w) \/ FailOnConflict(w)
  \/ BeatTimer(w) \/ BeatLease(w) \/ FinishIngest(w)
  \/ Complete(w) \/ Fail(w) \/ Release(w)

-----------------------------------------------------------------------------
(* Faults, of the Postgres deployment: the in-memory stores live and die     *)
(* with the process and have no statements to lose.                          *)

Fault ==
  /\ Backend = "postgres" /\ faults < MaxFaults
  /\ faults' = faults + 1

(* The process dies; so it does when a statement of a timer's beat fails,    *)
(* because nobody handles the rejection of `void this.beat()`.               *)
Crash(w) ==
  /\ Fault
  /\ pc[w] \notin {"idle", "down"}
  /\ Leave(w, "down")
  /\ UNCHANGED <<jobs, now, leases, ingested>>

Restart(w) ==
  /\ pc[w] = "down"
  /\ Goto(w, "idle")
  /\ UNCHANGED <<jobs, now, leases, claim, next, checkedAt, held, beat, ingested, faults>>

(* A statement fails.  Inside the try it leads to queue.fail; outside of it, *)
(* and in the catch block, runOnce rejects.                                  *)
StatementFails(w) ==
  /\ Fault
  /\ \/ /\ pc[w] = "stopping"
        /\ Goto(w, "failing")
        /\ beat' = [beat EXCEPT ![w] = NoBeat]
        /\ UNCHANGED <<claim, next, checkedAt, held>>
     \/ /\ pc[w] \in {"acquiring", "conflict", "stopping_failed", "failing", "releasing"}
        /\ Leave(w, "idle")
  /\ UNCHANGED <<jobs, now, leases, ingested>>

(* The completion commits, but its answer is lost: the catch block tries to  *)
(* fail a completed job.                                                     *)
LoseCompletionReply(w) ==
  /\ Fault
  /\ pc[w] = "stopping" /\ LastBeatDone(w)
  /\ CompleteJob(claim[w].q, w)
  /\ Goto(w, "failing")
  /\ UNCHANGED <<now, leases, claim, next, checkedAt, held, beat, ingested>>

-----------------------------------------------------------------------------
(* The producer and the operator (enqueue-ingestion, cancel-ingestion-queue- *)
(* job and requeue-ingestion-queue-job of the CLI).                          *)
Operator ==
  /\ \E q \in QueueIds : Enqueue(q) \/ Cancel(q) \/ Requeue(q)
  /\ UNCHANGED <<now, leases, local, ingested, faults>>

(* A worker that time cannot pass over when Timely: it has a statement to    *)
(* send, or a beat that is due.                                              *)
Busy(w) ==
  \/ pc[w] \notin {"idle", "down", "ingesting"}
  \/ beat[w].pending # {}
  \/ pc[w] = "ingesting" /\ beat[w].due <= now

Tick ==
  /\ now < MaxTime
  /\ Timely => \A w \in Workers : ~ Busy(w)
  /\ now' = now + 1
  /\ UNCHANGED <<jobs, leases, local, ingested, faults>>

Next ==
  \/ \E w \in Workers :
       \/ RunOnce(w)
       \/ Crash(w) \/ Restart(w) \/ StatementFails(w) \/ LoseCompletionReply(w)
  \/ Operator
  \/ Tick

Spec == Init /\ [][Next]_vars

-----------------------------------------------------------------------------
(* The worker believes the job is its own: it has claimed it and has not yet *)
(* reported an outcome the queue accepted.                                   *)
Running(w) ==
  pc[w] \in {"acquiring", "conflict", "ingesting", "stopping", "stopping_failed", "failing"}

TypeOK ==
  /\ jobs \in [QueueIds -> Job]
  /\ now \in Nat
  /\ leases \in [Resources -> Lease]
  /\ pc \in [Workers -> Phases]
  /\ claim \in [Workers -> Claim]
  /\ next \in [Workers -> Nat]
  /\ checkedAt \in [Workers -> Nat]
  /\ held \in [Workers -> SUBSET Resources]
  /\ beat \in [Workers -> Beat]
  /\ ingested \subseteq QueueIds \X Nat
  /\ faults \in Nat

(* Fencing without a fencing token: complete and fail only check leasedBy, so *)
(* they are safe as long as a worker that is still leasing a job, for the     *)
(* queue, holds the snapshot of the latest claim.  A worker whose job was     *)
(* reclaimed, requeued or cancelled meanwhile must find leasedBy changed.     *)
ClaimFence ==
  \A w \in Workers :
    Running(w) /\ LeasedTo(claim[w].q, w) => jobs[claim[w].q].attempt = claim[w].attempt

(* A completed job was ingested by the very attempt the queue row shows, not  *)
(* by an earlier one whose worker was presumed dead.                          *)
CompletedWasIngested ==
  \A q \in QueueIds : jobs[q].status = "completed" => <<q, jobs[q].attempt>> \in ingested

(* "retry transient failures, dead-letter exhausted jobs": a job waiting in   *)
(* the queue has an attempt left, and with retries on nothing is dead-        *)
(* lettered before its attempts are used up.                                  *)
RetryDiscipline ==
  \A q \in QueueIds :
    /\ jobs[q].status = "queued" => jobs[q].attempt < jobs[q].maxAttempts
    /\ jobs[q].status = "dead_letter" /\ RetryFailedJobs =>
         jobs[q].attempt >= jobs[q].maxAttempts

(* The worker keeps "queue and resource leases alive while ingestion runs".   *)
LeasesAliveWhileIngesting ==
  \A w \in Workers : pc[w] = "ingesting" =>
    /\ \A r \in held[w] : leases[r].holder = w /\ leases[r].expiresAt > now
    /\ \/ LeasedTo(claim[w].q, w) /\ jobs[claim[w].q].leaseExpiresAt > now
       \/ jobs[claim[w].q].status = "cancelled"

(* No two workers ingest a common source, or into a common generation.        *)
SourceExclusion ==
  \A v, w \in Workers :
    v # w /\ pc[v] = "ingesting" /\ pc[w] = "ingesting" => held[v] \cap held[w] = {}

(* No two workers run the same job, not even one that is about to find out.   *)
OneRunPerJob ==
  \A v, w \in Workers : v # w /\ Running(v) /\ Running(w) => claim[v].q # claim[w].q

(* "dead-letter exhausted jobs": no job gets more attempts than it may have.  *)
AttemptsWithinBudget ==
  \A q \in QueueIds : jobs[q].attempt <= jobs[q].maxAttempts

(* The queue, its leases and the workers implement the job lifecycle.         *)
Lifecycle == INSTANCE JobLifecycle WITH
  Jobs <- QueueIds,
  state <- [q \in QueueIds |-> jobs[q].status],
  ingested <- {q \in QueueIds : \E k \in ingested : k[1] = q}

ImplementsLifecycle == Lifecycle!Spec
=============================================================================
