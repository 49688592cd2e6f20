------------------------ MODULE IngestionWorkerProofs -----------------------
(***************************************************************************)
(* What is proved of IngestionWorker for every number of workers, jobs,    *)
(* resources and attempts, every TTL and every interleaving.               *)
(***************************************************************************)
EXTENDS IngestionWorker, IngestionQueueProofs

LEMMA TicksTyped == LeaseTtl \in Nat /\ BeatInterval \in Nat \ {0} /\ ConflictRetry \in Nat
<1>1. LeaseTtl \in Nat \ {0}
  BY QueueAssumption DEF QueueAssumption
<1>2. BeatInterval \in 1..(LeaseTtl - 1) /\ ConflictRetry \in Nat \ {0}
  BY WorkerAssumption, Zenon DEF WorkerAssumption
<1>3. QED BY <1>1, <1>2

(* Where a worker is determines which of its variables are in use. *)
PhaseOK ==
  \A w \in Workers :
    /\ pc[w] \notin {"idle", "down"} => claim[w].q \in QueueIds
    /\ pc[w] \in {"idle", "down"} => held[w] = {}
    /\ pc[w] = "acquiring" => next[w] \in 1..Len(LeaseResourceIds[claim[w].q])

Typed == TypeOK /\ PhaseOK

LEMMA NextResourceTyped ==
  ASSUME Typed, NEW w \in Workers, pc[w] = "acquiring"
  PROVE  NextResource(w) \in Resources
<1>1. claim[w].q \in QueueIds /\ next[w] \in 1..Len(LeaseResourceIds[claim[w].q])
  BY DEF Typed, PhaseOK
<1>2. LeaseResourceIds[claim[w].q] \in Seq(Resources)
  BY <1>1, WorkerAssumption DEF WorkerAssumption
<1>3. QED
  BY <1>1, <1>2 DEF NextResource

LEMMA InitTyped == Init => Typed
<1> SUFFICES ASSUME Init PROVE Typed
  OBVIOUS
<1>1. NoJob \in Job /\ NoLease \in Lease /\ NoClaim \in Claim /\ NoBeat \in Beat
  BY DEF NoJob, Job, Statuses, NoLease, Lease, NoClaim, Claim, NoBeat, Beat
<1>2. TypeOK
  BY <1>1 DEF Init, QueueInit, LeasesInit, TypeOK, Phases
<1>3. PhaseOK
  BY DEF Init, PhaseOK, NoBeat
<1>4. QED BY <1>2, <1>3 DEF Typed

(* Leaving runOnce makes the worker's variables those of an idle worker. *)
LEMMA LeaveTyped ==
  ASSUME Typed, NEW w \in Workers, NEW phase \in {"idle", "down"}, Leave(w, phase)
  PROVE  /\ pc' \in [Workers -> Phases] /\ claim' \in [Workers -> Claim]
         /\ next' \in [Workers -> Nat] /\ checkedAt' \in [Workers -> Nat]
         /\ held' \in [Workers -> SUBSET Resources] /\ beat' \in [Workers -> Beat]
         /\ PhaseOK'
  BY DEF Typed, TypeOK, PhaseOK, Leave, Goto, NoClaim, NoBeat, Phases, Claim, Beat

LEMMA ToReleaseTyped ==
  ASSUME Typed, NEW w \in Workers, ToRelease(w), pc[w] \notin {"idle", "down"}
  PROVE  /\ pc' \in [Workers -> Phases] /\ claim' \in [Workers -> Claim]
         /\ next' \in [Workers -> Nat] /\ checkedAt' \in [Workers -> Nat]
         /\ held' \in [Workers -> SUBSET Resources] /\ beat' \in [Workers -> Beat]
         /\ PhaseOK'
<1>1. CASE held[w] = {}
  BY <1>1, LeaveTyped DEF ToRelease
<1>2. CASE held[w] # {}
  BY <1>2 DEF ToRelease, Goto, Typed, TypeOK, PhaseOK, Phases
<1>3. QED BY <1>1, <1>2

LEMMA ClaimJobTyped == ASSUME Typed, NEW w \in Workers, ClaimJob(w) PROVE Typed'
<1>1. PICK q \in QueueIds :
        /\ ClaimNext(q, w, now)
        /\ claim' = [claim EXCEPT ![w] = [q |-> q, attempt |-> jobs[q].attempt + 1]]
  BY DEF ClaimJob
<1>2. jobs' \in [QueueIds -> Job]
  BY <1>1, ClaimTyped DEF Typed, TypeOK
<1>3. PICK attempt \in Nat : attempt = jobs[q].attempt + 1
  BY DEF Typed, TypeOK, Job
<1>4. claim' \in [Workers -> Claim]
  BY <1>1, <1>3 DEF Typed, TypeOK, Claim
<1>5. LeaseResourceIds[q] # << >> /\ LeaseResourceIds[q] \in Seq(Resources)
  BY WorkerAssumption DEF WorkerAssumption
<1>6. 1 \in 1..Len(LeaseResourceIds[q])
  BY <1>5
<1>7. claim'[w].q = q
  BY <1>1 DEF Typed, TypeOK
<1>8. ASSUME NEW v \in Workers, v # w
      PROVE  pc'[v] = pc[v] /\ claim'[v] = claim[v] /\ next'[v] = next[v]
  BY <1>1, <1>8 DEF ClaimJob, Goto, Typed, TypeOK
<1>9. pc'[w] = "acquiring" /\ next'[w] = 1 /\ UNCHANGED held
  BY DEF ClaimJob, Goto, Typed, TypeOK, PhaseOK
<1>10. PhaseOK'
  BY <1>6, <1>7, <1>8, <1>9 DEF Typed, PhaseOK
<1>11. QED
  BY <1>2, <1>4, <1>10 DEF ClaimJob, Goto, Typed, TypeOK, Phases

LEMMA AcquireLeaseTyped == ASSUME Typed, NEW w \in Workers, AcquireLease(w) PROVE Typed'
<1>1. NextResource(w) \in Resources /\ checkedAt[w] \in Nat /\ now + BeatInterval \in Nat
  BY NextResourceTyped, TicksTyped DEF AcquireLease, Typed, TypeOK
<1>2. PICK until \in Nat : until = checkedAt[w] + LeaseTtl
  BY <1>1, TicksTyped
<1>3. FreshLease(w, checkedAt[w]) \in Lease
  BY <1>2 DEF FreshLease, Lease
<1>4. leases' \in [Resources -> Lease]
  BY <1>1, <1>3 DEF AcquireLease, Acquire, MemoryAcquired, PostgresAcquired, Typed, TypeOK
<1>5. held' \in [Workers -> SUBSET Resources]
  BY <1>1 DEF AcquireLease, Typed, TypeOK
<1>6. claim[w].q \in QueueIds /\ next[w] \in 1..Len(LeaseResourceIds[claim[w].q])
      /\ beat[w] \in Beat
  BY DEF AcquireLease, Typed, TypeOK, PhaseOK
<1>7. Len(LeaseResourceIds[claim[w].q]) \in Nat
  BY <1>6, WorkerAssumption DEF WorkerAssumption
<1>8. CASE LastResource(w)
  <2>1. beat' = [beat EXCEPT ![w].due = now + BeatInterval] /\ next' = [next EXCEPT ![w] = 0]
        /\ checkedAt' = [checkedAt EXCEPT ![w] = 0] /\ pc' = [pc EXCEPT ![w] = "ingesting"]
    BY <1>8 DEF AcquireLease, Goto
  <2>2. beat' \in [Workers -> Beat]
    BY <1>1, <1>6, <2>1 DEF Typed, TypeOK, Beat
  <2>3. \A v \in Workers : beat'[v].pending = beat[v].pending
    BY <2>1 DEF Typed, TypeOK, Beat
  <2>4. PhaseOK'
    BY <1>6, <2>1, <2>3 DEF AcquireLease, Typed, TypeOK, PhaseOK
  <2>5. QED
    BY <1>4, <1>5, <2>1, <2>2, <2>4 DEF AcquireLease, Typed, TypeOK, Phases
<1>9. CASE ~ LastResource(w)
  <2>1. next[w] + 1 \in 1..Len(LeaseResourceIds[claim[w].q])
    BY <1>6, <1>7, <1>9 DEF LastResource
  <2>2. next' = [next EXCEPT ![w] = next[w] + 1] /\ UNCHANGED <<pc, beat, checkedAt>>
    BY <1>9 DEF AcquireLease
  <2>3. next' \in [Workers -> Nat] /\ \A v \in Workers \ {w} : next'[v] = next[v]
    BY <1>6, <2>2 DEF Typed, TypeOK
  <2>4. next'[w] \in 1..Len(LeaseResourceIds[claim[w].q])
    BY <2>1, <2>2 DEF Typed, TypeOK
  <2>5. \A v \in Workers : pc[v] \in {"idle", "down"} => held'[v] = {}
    BY DEF AcquireLease, Typed, TypeOK, PhaseOK
  <2>6. PhaseOK'
    BY <2>2, <2>3, <2>4, <2>5 DEF AcquireLease, Typed, PhaseOK
  <2>7. QED
    BY <1>4, <1>5, <2>2, <2>3, <2>6 DEF AcquireLease, Typed, TypeOK
<1>10. QED BY <1>8, <1>9

LEMMA LoseLeaseRaceTyped == ASSUME Typed, NEW w \in Workers, LoseLeaseRace(w) PROVE Typed'
  BY DEF LoseLeaseRace, Goto, Typed, TypeOK, PhaseOK, Phases

LEMMA FailOnConflictTyped == ASSUME Typed, NEW w \in Workers, FailOnConflict(w) PROVE Typed'
<1>1. claim[w].q \in QueueIds /\ pc[w] \notin {"idle", "down"}
  BY DEF FailOnConflict, Typed, TypeOK, PhaseOK
<1>2. PICK at \in Nat : at = checkedAt[w] + ConflictRetry
  BY TicksTyped DEF Typed, TypeOK
<1>3. jobs' \in [QueueIds -> Job]
  BY <1>1, <1>2, SettleTyped DEF FailOnConflict, Typed, TypeOK
<1>4. QED
  BY <1>1, <1>3, ToReleaseTyped, LeaveTyped DEF FailOnConflict, Typed, TypeOK

LEMMA StartBeatTyped ==
  ASSUME Typed, NEW w \in Workers, NEW due \in Nat, NEW at \in Nat, StartBeat(w, due, at),
         claim[w].q \in QueueIds
  PROVE  jobs' \in [QueueIds -> Job] /\ beat' \in [Workers -> Beat]
<1>1. jobs' \in [QueueIds -> Job]
  BY HeartbeatTyped DEF StartBeat, Typed, TypeOK
<1>2. beat[w].pending \cup (held[w] \X {now}) \in SUBSET (Resources \X Nat)
  BY DEF Typed, TypeOK, Beat
<1>3. [due |-> due, at |-> at, pending |-> beat[w].pending \cup (held[w] \X {now})] \in Beat
  BY <1>2 DEF Beat
<1>4. QED
  BY <1>1, <1>3 DEF StartBeat, Typed, TypeOK

LEMMA BeatTimerTyped == ASSUME Typed, NEW w \in Workers, BeatTimer(w) PROVE Typed'
<1>0. now + BeatInterval \in Nat
  BY TicksTyped DEF Typed, TypeOK
<1>1. claim[w].q \in QueueIds
  BY DEF BeatTimer, Typed, PhaseOK
<1>2. jobs' \in [QueueIds -> Job] /\ beat' \in [Workers -> Beat]
  BY <1>0, <1>1, StartBeatTyped DEF BeatTimer
<1>3. PhaseOK'
  BY <1>2 DEF BeatTimer, Typed, PhaseOK
<1>4. QED
  BY <1>2, <1>3 DEF BeatTimer, Typed, TypeOK

LEMMA BeatLeaseTyped == ASSUME Typed, NEW w \in Workers, BeatLease(w) PROVE Typed'
<1>1. PICK sent \in beat[w].pending :
        /\ HeartbeatLease(sent[1], w, sent[2])
        /\ beat' = [beat EXCEPT ![w] =
             [due |-> beat[w].due, at |-> beat[w].at, pending |-> beat[w].pending \ {sent}]]
        /\ UNCHANGED <<jobs, now, pc, claim, next, checkedAt, held, ingested, faults>>
  BY DEF BeatLease
<1>2. beat[w] \in Beat
  BY DEF Typed, TypeOK
<1>3. sent[1] \in Resources /\ sent[2] \in Nat
  BY <1>2 DEF Beat
<1>4. PICK until \in Nat : until = sent[2] + LeaseTtl
  BY <1>3, TicksTyped
<1>5. FreshLease(w, sent[2]) \in Lease
  BY <1>4 DEF FreshLease, Lease
<1>6. leases' \in [Resources -> Lease]
  BY <1>1, <1>3, <1>5 DEF HeartbeatLease, Typed, TypeOK
<1>7. [due |-> beat[w].due, at |-> beat[w].at, pending |-> beat[w].pending \ {sent}] \in Beat
  BY <1>2 DEF Beat
<1>8. beat' \in [Workers -> Beat]
  BY <1>1, <1>7 DEF Typed, TypeOK
<1>9. PhaseOK'
  BY <1>1 DEF Typed, PhaseOK
<1>10. QED
  BY <1>1, <1>6, <1>8, <1>9 DEF Typed, TypeOK

LEMMA FinishIngestTyped == ASSUME Typed, NEW w \in Workers, FinishIngest(w) PROVE Typed'
<1>1. claim[w].q \in QueueIds /\ claim[w].attempt \in Nat
  BY DEF FinishIngest, Typed, TypeOK, PhaseOK, Claim
<1>2. jobs' \in [QueueIds -> Job] /\ beat' \in [Workers -> Beat]
  BY <1>1, StartBeatTyped DEF FinishIngest, Typed, TypeOK
<1>3. ingested' \subseteq QueueIds \X Nat
  BY <1>1 DEF FinishIngest, Typed, TypeOK
<1>4. PICK phase \in {"stopping", "stopping_failed"} : pc' = [pc EXCEPT ![w] = phase]
  BY DEF FinishIngest, Goto
<1>5. PhaseOK'
  BY <1>1, <1>2, <1>4 DEF FinishIngest, Typed, TypeOK, PhaseOK
<1>6. QED
  BY <1>2, <1>3, <1>4, <1>5 DEF FinishIngest, Typed, TypeOK, Phases

LEMMA CompleteTyped == ASSUME Typed, NEW w \in Workers, Complete(w) PROVE Typed'
<1>1. claim[w].q \in QueueIds /\ pc[w] \notin {"idle", "down"}
  BY DEF Complete, Typed, PhaseOK
<1>2. CASE CompleteJob(claim[w].q, w) /\ ToRelease(w)
  <2>1. jobs' \in [QueueIds -> Job]
    BY <1>1, <1>2, SettleTyped DEF Typed, TypeOK
  <2>2. QED
    BY <1>1, <1>2, <2>1, ToReleaseTyped DEF Complete, Typed, TypeOK
<1>3. CASE Goto(w, "failing") /\ UNCHANGED <<jobs, claim, next, checkedAt, held, beat>>
  BY <1>1, <1>3 DEF Complete, Goto, Typed, TypeOK, PhaseOK, Phases
<1>4. QED BY <1>2, <1>3 DEF Complete

LEMMA FailTyped == ASSUME Typed, NEW w \in Workers, Fail(w) PROVE Typed'
<1>1. claim[w].q \in QueueIds /\ pc[w] \notin {"idle", "down"}
      /\ RetryFailedJobs \in BOOLEAN
  BY WorkerAssumption DEF Fail, Typed, PhaseOK, WorkerAssumption
<1>2. PICK at \in Nat : at = now + ConflictRetry
  BY TicksTyped DEF Typed, TypeOK
<1>3. jobs' \in [QueueIds -> Job]
  BY <1>1, <1>2, SettleTyped DEF Fail, Typed, TypeOK
<1>4. QED
  BY <1>1, <1>3, ToReleaseTyped, LeaveTyped DEF Fail, Typed, TypeOK

LEMMA ReleaseTyped == ASSUME Typed, NEW w \in Workers, Release(w) PROVE Typed'
<1>1. PICK r \in held[w] :
        /\ ReleaseLease(r, w)
        /\ IF held[w] = {r}
           THEN Leave(w, "idle")
           ELSE /\ held' = [held EXCEPT ![w] = @ \ {r}]
                /\ UNCHANGED <<pc, claim, next, checkedAt, beat>>
  BY DEF Release
<1>2. r \in Resources /\ NoLease \in Lease
  BY DEF Typed, TypeOK, NoLease, Lease
<1>3. leases' \in [Resources -> Lease]
  BY <1>1, <1>2 DEF ReleaseLease, Typed, TypeOK
<1>4. CASE held[w] = {r}
  BY <1>1, <1>3, <1>4, LeaveTyped DEF Release, Typed, TypeOK
<1>5. CASE held[w] # {r}
  <2>1. held' = [held EXCEPT ![w] = @ \ {r}] /\ UNCHANGED <<pc, claim, next, checkedAt, beat>>
    BY <1>1, <1>5
  <2>2. held' \in [Workers -> SUBSET Resources] /\ \A v \in Workers : held'[v] \subseteq held[v]
    BY <2>1 DEF Typed, TypeOK
  <2>3. PhaseOK'
    BY <2>1, <2>2 DEF Typed, PhaseOK
  <2>4. QED
    BY <1>3, <2>1, <2>2, <2>3 DEF Release, Typed, TypeOK
<1>6. QED BY <1>4, <1>5

LEMMA FaultsTyped ==
  ASSUME Typed, NEW w \in Workers,
         Crash(w) \/ Restart(w) \/ StatementFails(w) \/ LoseCompletionReply(w)
  PROVE  Typed'
<1>1. CASE Crash(w)
  BY <1>1, LeaveTyped DEF Crash, Fault, Typed, TypeOK
<1>2. CASE Restart(w)
  BY <1>2 DEF Restart, Goto, Typed, TypeOK, PhaseOK, Phases
<1>3. CASE StatementFails(w)
  <2>1. CASE Leave(w, "idle")
    BY <1>3, <2>1, LeaveTyped DEF StatementFails, Fault, Typed, TypeOK
  <2>2. CASE /\ pc[w] = "stopping" /\ Goto(w, "failing")
             /\ beat' = [beat EXCEPT ![w] = NoBeat]
             /\ UNCHANGED <<claim, next, checkedAt, held>>
    <3>1. NoBeat \in Beat /\ NoBeat.pending = {}
      BY DEF NoBeat, Beat
    <3>2. PhaseOK'
      BY <2>2, <3>1 DEF Goto, Typed, TypeOK, PhaseOK
    <3>3. QED
      BY <1>3, <2>2, <3>1, <3>2 DEF StatementFails, Fault, Goto, Typed, TypeOK, Phases
  <2>3. QED BY <1>3, <2>1, <2>2 DEF StatementFails
<1>4. CASE LoseCompletionReply(w)
  <2>1. jobs' \in [QueueIds -> Job]
    BY <1>4, SettleTyped DEF LoseCompletionReply, Typed, TypeOK, PhaseOK
  <2>2. QED
    BY <1>4, <2>1 DEF LoseCompletionReply, Fault, Goto, Typed, TypeOK, PhaseOK, Phases
<1>5. QED BY <1>1, <1>2, <1>3, <1>4

LEMMA StepTyped == Typed /\ [Next]_vars => Typed'
<1> SUFFICES ASSUME Typed, [Next]_vars PROVE Typed'
  OBVIOUS
<1>1. CASE UNCHANGED vars
  BY <1>1 DEF vars, local, Typed, TypeOK, PhaseOK
<1>2. ASSUME NEW w \in Workers, RunOnce(w) PROVE Typed'
  BY <1>2, ClaimJobTyped, AcquireLeaseTyped, LoseLeaseRaceTyped, FailOnConflictTyped,
     BeatTimerTyped, BeatLeaseTyped, FinishIngestTyped, CompleteTyped, FailTyped, ReleaseTyped
     DEF RunOnce
<1>3. CASE Operator
  <2>1. jobs' \in [QueueIds -> Job]
    BY <1>3, EnqueueTyped DEF Operator, Typed, TypeOK
  <2>2. QED
    BY <1>3, <2>1 DEF Operator, local, Typed, TypeOK, PhaseOK
<1>4. CASE Tick
  BY <1>4 DEF Tick, local, Typed, TypeOK, PhaseOK
<1>5. QED
  BY <1>1, <1>2, <1>3, <1>4, FaultsTyped DEF Next

(* Every variable of the worker protocol keeps its type, and no worker ever  *)
(* asks for a lease beyond the end of its job's resource list.               *)
THEOREM TypeCorrect == Spec => []TypeOK
<1>1. Init => Typed
  BY InitTyped
<1>2. Typed /\ [Next]_vars => Typed'
  BY StepTyped
<1>3. Typed => TypeOK
  BY DEF Typed
<1>4. QED
  BY <1>1, <1>2, <1>3, PTL DEF Spec
=============================================================================
