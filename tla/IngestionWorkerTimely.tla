----------------------- MODULE IngestionWorkerTimely ------------------------
(***************************************************************************)
(* Proofs of what the worker promises when its timers are punctual, on     *)
(* Postgres: its leases stay alive as long as it ingests, no two workers   *)
(* ingest a common source, and no two workers run the same job.  For any   *)
(* number of workers, jobs and resources, any TTL and any heartbeat        *)
(* interval below it, crashes and failed statements included.              *)
(***************************************************************************)
EXTENDS IngestionWorkerProofs, IngestionWorkerLiveness

Punctual == Timely /\ Backend = "postgres"

Owns(w, t) ==
  \/ LeasedTo(claim[w].q, w) /\ jobs[claim[w].q].leaseExpiresAt > t
  \/ jobs[claim[w].q].status = "cancelled"

HoldsUntil(w, r, t) == leases[r].holder = w /\ leases[r].expiresAt > t

(* No time passes before the ingest starts: every lease is as good as new.   *)
Acquiring(w) ==
  /\ beat[w] = NoBeat /\ checkedAt[w] = now
  /\ \A r \in held[w] : HoldsUntil(w, r, now + BeatInterval)
  /\ Owns(w, now + BeatInterval)

(* Every lease outlives the next beat, but those the last beat has yet to    *)
(* reach.                                                                    *)
Ingesting(w) ==
  /\ now <= beat[w].due /\ beat[w].due <= now + BeatInterval
  /\ beat[w].pending \subseteq held[w] \X {now}
  /\ \A r \in held[w] :
       /\ HoldsUntil(w, r, now)
       /\ <<r, now>> \in beat[w].pending \/ HoldsUntil(w, r, beat[w].due)
  /\ Owns(w, beat[w].due)

Settling(w) == Owns(w, now) \/ jobs[claim[w].q].status = "completed"

TimedWorker(w) ==
  /\ pc[w] \in {"idle", "down"} => beat[w] = NoBeat
  /\ pc[w] \in {"acquiring", "conflict"} => Acquiring(w)
  /\ pc[w] = "ingesting" => Ingesting(w)
  /\ pc[w] \in {"stopping", "stopping_failed", "failing"} => Settling(w)

TimedInv == Typed /\ OneRunPerJob /\ \A w \in Workers : TimedWorker(w)

-----------------------------------------------------------------------------
(* How the step of a worker leaves the others. *)

LocalSame(v) ==
  /\ pc'[v] = pc[v] /\ claim'[v] = claim[v] /\ checkedAt'[v] = checkedAt[v]
  /\ held'[v] = held[v] /\ beat'[v] = beat[v]

KeepsItsJob(v) ==
  Running(v) =>
    jobs'[claim[v].q] = jobs[claim[v].q] \/ jobs'[claim[v].q].status = "cancelled"

KeepsItsLeases(v) ==
  \A r \in Resources : HoldsUntil(v, r, now) => leases'[r] = leases[r]

Undisturbed(v) == LocalSame(v) /\ KeepsItsJob(v) /\ KeepsItsLeases(v)

(* No worker starts to run a job. *)
Stays == \A v \in Workers : Running(v)' => Running(v) /\ claim'[v] = claim[v]

LEMMA TypesOf ==
  ASSUME Typed, NEW w \in Workers
  PROVE  /\ now \in Nat /\ pc[w] \in Phases /\ beat[w] \in Beat /\ held[w] \subseteq Resources
         /\ \A r \in Resources : leases[r] \in Lease
         /\ Running(w) => claim[w].q \in QueueIds
         /\ \A q \in QueueIds : jobs[q] \in Job
  BY DEF Typed, TypeOK, PhaseOK, Running

LEMMA Interval == BeatInterval \in Nat \ {0} /\ LeaseTtl \in Nat /\ BeatInterval < LeaseTtl
<1>1. LeaseTtl \in Nat \ {0}
  BY QueueAssumption DEF QueueAssumption
<1>2. BeatInterval \in 1..(LeaseTtl - 1)
  BY WorkerAssumption, Zenon DEF WorkerAssumption
<1>3. QED BY <1>1, <1>2

LEMMA UndisturbedTimed ==
  ASSUME TimedInv, NEW v \in Workers, Undisturbed(v), now' = now
  PROVE  TimedWorker(v)'
<1>1. /\ now \in Nat /\ beat[v] \in Beat /\ held[v] \subseteq Resources
      /\ \A r \in Resources : leases[r] \in Lease
      /\ TimedWorker(v)
  BY TypesOf DEF TimedInv
<1>2. BeatInterval \in Nat
  BY Interval
<1>3. ASSUME NEW t \in Nat, now <= t, NEW r \in held[v], HoldsUntil(v, r, t)
      PROVE  leases'[r].holder = v /\ leases'[r].expiresAt > t
  <2>1. leases[r] \in Lease /\ leases[r].expiresAt \in Nat
    BY <1>1 DEF Lease
  <2>2. HoldsUntil(v, r, now)
    BY <1>1, <1>3, <2>1 DEF HoldsUntil
  <2>3. QED BY <1>1, <1>3, <2>2 DEF HoldsUntil, Undisturbed, KeepsItsLeases
<1>4. ASSUME NEW t \in Nat, Running(v), Owns(v, t)
      PROVE  \/ /\ LeasedTo(claim[v].q, v)' /\ claim'[v] = claim[v]
                /\ jobs'[claim[v].q].leaseExpiresAt > t
             \/ jobs'[claim'[v].q].status = "cancelled"
  BY <1>4 DEF Owns, LeasedTo, Undisturbed, LocalSame, KeepsItsJob
<1>5. LocalSame(v)
  BY DEF Undisturbed
<1>6. CASE pc[v] \in {"acquiring", "conflict"}
  <2>1. now + BeatInterval \in Nat /\ now <= now + BeatInterval
    BY <1>1, <1>2
  <2>2. Acquiring(v) /\ Running(v)
    BY <1>1, <1>6 DEF TimedWorker, Running
  <2>3. Owns(v, now + BeatInterval)'
    BY <1>4, <2>1, <2>2 DEF Acquiring, Owns, LeasedTo
  <2>4. \A r \in held[v] : HoldsUntil(v, r, now + BeatInterval)'
    BY <1>3, <2>1, <2>2 DEF Acquiring, HoldsUntil
  <2>5. Acquiring(v)'
    BY <1>5, <2>2, <2>3, <2>4 DEF Acquiring, LocalSame, Owns, HoldsUntil
  <2>6. QED BY <1>5, <1>6, <2>5 DEF TimedWorker, LocalSame
<1>7. CASE pc[v] = "ingesting"
  <2>1. Ingesting(v) /\ Running(v) /\ beat[v].due \in Nat
    BY <1>1, <1>7 DEF TimedWorker, Running, Beat
  <2>2. Owns(v, beat[v].due)'
    BY <1>4, <1>5, <2>1 DEF Ingesting, Owns, LeasedTo, LocalSame
  <2>3. now <= now
    BY <1>1
  <2>4. \A r \in held[v] :
          HoldsUntil(v, r, now)' /\ (HoldsUntil(v, r, beat[v].due) => HoldsUntil(v, r, beat[v].due)')
    BY <1>1, <1>3, <1>5, <2>1, <2>3 DEF Ingesting, HoldsUntil, LocalSame
  <2>5. Ingesting(v)'
    BY <1>5, <2>1, <2>2, <2>4 DEF Ingesting, LocalSame, Owns, HoldsUntil
  <2>6. QED BY <1>5, <1>7, <2>5 DEF TimedWorker, LocalSame
<1>8. CASE pc[v] \in {"stopping", "stopping_failed", "failing"}
  <2>1. Settling(v) /\ Running(v)
    BY <1>1, <1>8 DEF TimedWorker, Running
  <2>2. Settling(v)'
    BY <1>1, <1>4, <1>5, <2>1 DEF Settling, Owns, LeasedTo, Undisturbed, KeepsItsJob, LocalSame
  <2>3. QED BY <1>5, <1>8, <2>2 DEF TimedWorker, LocalSame
<1>9. CASE pc[v] \notin {"acquiring", "conflict", "ingesting",
                         "stopping", "stopping_failed", "failing"}
  BY <1>1, <1>5, <1>9 DEF TimedWorker, LocalSame
<1>10. QED BY <1>6, <1>7, <1>8, <1>9

-----------------------------------------------------------------------------
(* The statements of one worker do not touch the job and the leases of       *)
(* another.                                                                  *)

LEMMA JobKept ==
  ASSUME TimedInv, NEW w \in Workers, Running(w),
         \A q \in QueueIds \ {claim[w].q} : jobs'[q] = jobs[q]
  PROVE  \A v \in Workers \ {w} : KeepsItsJob(v)
  BY TypesOf DEF TimedInv, OneRunPerJob, KeepsItsJob

LEMMA LeasesKept ==
  ASSUME TimedInv, NEW w \in Workers, NEW r \in Resources, NEW at,
         \/ Acquire(r, w, now) \/ HeartbeatLease(r, w, at) \/ ReleaseLease(r, w)
         \/ UNCHANGED leases
  PROVE  \A v \in Workers \ {w} : KeepsItsLeases(v)
<1> SUFFICES ASSUME NEW v \in Workers \ {w}, NEW s \in Resources, HoldsUntil(v, s, now)
             PROVE  leases'[s] = leases[s]
  BY DEF KeepsItsLeases
<1>1. now \in Nat /\ leases \in [Resources -> Lease] /\ leases[s].expiresAt \in Nat
  BY DEF TimedInv, Typed, TypeOK, Lease
<1>2. leases[s].holder = v /\ leases[s].expiresAt > now /\ v # NoWorker
  BY QueueAssumption DEF HoldsUntil, QueueAssumption
<1>3. CASE Acquire(r, w, now)
  <2>1. r # s
    BY <1>1, <1>2, <1>3 DEF Acquire, Acquirable
  <2>2. QED BY <1>1, <1>3, <2>1 DEF Acquire
<1>4. CASE HeartbeatLease(r, w, at)
  BY <1>1, <1>2, <1>4 DEF HeartbeatLease
<1>5. CASE ReleaseLease(r, w)
  BY <1>1, <1>2, <1>5 DEF ReleaseLease
<1>6. QED BY <1>3, <1>4, <1>5

(* A step of w alone that keeps TimedInv. *)
Tame(w) ==
  /\ TimedWorker(w)'
  /\ \A v \in Workers \ {w} : Undisturbed(v)
  /\ OneRunPerJob'

LEMMA TameSuffices ==
  ASSUME TimedInv, Typed', NEW w \in Workers, Tame(w), now' = now
  PROVE  TimedInv'
  BY UndisturbedTimed DEF TimedInv, Tame

LEMMA StaysApart == ASSUME TimedInv, Stays PROVE OneRunPerJob'
  BY DEF TimedInv, Stays, OneRunPerJob, Running

(* runOnce returns or rejects, or has only its leases left to release. *)
LEMMA LeaveTame ==
  ASSUME TimedInv, NEW w \in Workers, NEW phase \in {"idle", "down"}, Leave(w, phase)
  PROVE  TimedWorker(w)' /\ Stays /\ \A v \in Workers \ {w} : LocalSame(v)
<1>1. pc'[w] = phase /\ beat'[w] = NoBeat
  BY DEF TimedInv, Typed, TypeOK, Leave, Goto
<1>2. \A v \in Workers \ {w} : LocalSame(v)
  BY DEF TimedInv, Typed, TypeOK, Leave, Goto, LocalSame
<1>3. Stays
  BY <1>1, <1>2 DEF Stays, Running, LocalSame
<1>4. QED BY <1>1, <1>2, <1>3 DEF TimedWorker

LEMMA ToReleaseTame ==
  ASSUME TimedInv, NEW w \in Workers, ToRelease(w)
  PROVE  TimedWorker(w)' /\ Stays /\ \A v \in Workers \ {w} : LocalSame(v)
<1>1. CASE held[w] = {}
  BY <1>1, LeaveTame DEF ToRelease
<1>2. CASE held[w] # {}
  <2>1. pc'[w] = "releasing" /\ \A v \in Workers \ {w} : LocalSame(v)
    BY <1>2 DEF ToRelease, Goto, TimedInv, Typed, TypeOK, LocalSame
  <2>2. Stays
    BY <2>1 DEF Stays, Running, LocalSame
  <2>3. QED BY <2>1, <2>2 DEF TimedWorker
<1>3. QED BY <1>1, <1>2

-----------------------------------------------------------------------------
(* While a worker runs its job, the queue leases the job to it, or an        *)
(* operator has cancelled it, or the worker's own completion has committed.  *)
LEMMA OwnsNow ==
  ASSUME TimedInv, NEW v \in Workers, Running(v)
  PROVE  /\ claim[v].q \in QueueIds
         /\ \/ LeasedTo(claim[v].q, v) /\ jobs[claim[v].q].leaseExpiresAt > now
            \/ jobs[claim[v].q].status \in {"cancelled", "completed"}
<1>1. /\ now \in Nat /\ beat[v] \in Beat /\ claim[v].q \in QueueIds
      /\ jobs[claim[v].q] \in Job /\ TimedWorker(v)
  BY TypesOf DEF TimedInv
<1>2. BeatInterval \in Nat
  BY Interval
<1>3. jobs[claim[v].q].leaseExpiresAt \in Nat /\ beat[v].due \in Nat
  BY <1>1 DEF Job, Beat
<1>4. CASE Owns(v, now + BeatInterval)
  BY <1>1, <1>2, <1>3, <1>4 DEF Owns
<1>5. CASE now <= beat[v].due /\ Owns(v, beat[v].due)
  BY <1>1, <1>3, <1>5 DEF Owns
<1>6. CASE Settling(v)
  BY <1>1, <1>6 DEF Settling, Owns
<1>7. QED
  BY <1>1, <1>4, <1>5, <1>6 DEF TimedWorker, Running, Acquiring, Ingesting

(* A step that leaves the jobs and the leases alone disturbs nobody else. *)
LEMMA Aside ==
  ASSUME NEW w \in Workers, UNCHANGED <<jobs, leases>>,
         \A v \in Workers \ {w} : LocalSame(v)
  PROVE  \A v \in Workers \ {w} : Undisturbed(v)
  BY DEF Undisturbed, KeepsItsJob, KeepsItsLeases

LEMMA ClaimTakes ==
  ASSUME jobs \in [QueueIds -> Job], NEW q \in QueueIds, NEW w \in Workers, NEW at \in Nat,
         ClaimNext(q, w, at)
  PROVE  \/ jobs[q].status = "queued"
         \/ jobs[q].status = "leased" /\ jobs[q].leaseExpiresAt <= at
  BY DEF ClaimNext, Candidate, Claimable

LEMMA ClaimJobTame == ASSUME TimedInv, NEW w \in Workers, ClaimJob(w) PROVE Tame(w)
<1>1. PICK q \in QueueIds :
        /\ ClaimNext(q, w, now)
        /\ claim' = [claim EXCEPT ![w] = [q |-> q, attempt |-> jobs[q].attempt + 1]]
  BY DEF ClaimJob
<1>2. /\ pc[w] = "idle" /\ pc' = [pc EXCEPT ![w] = "acquiring"]
      /\ checkedAt' = [checkedAt EXCEPT ![w] = now]
      /\ UNCHANGED <<now, leases, held, beat>>
  BY DEF ClaimJob, Goto
<1>3. Typed /\ now \in Nat /\ jobs \in [QueueIds -> Job]
  BY DEF TimedInv, Typed, TypeOK
<1>4. /\ \A r \in QueueIds \ {q} : jobs'[r] = jobs[r]
      /\ jobs'[q].status = "leased" /\ jobs'[q].leasedBy = w
      /\ jobs'[q].leaseExpiresAt = now + LeaseTtl
  BY <1>1, <1>3, ClaimEffect DEF Keeps
<1>5. \/ jobs[q].status = "queued"
      \/ jobs[q].status = "leased" /\ jobs[q].leaseExpiresAt <= now
  BY <1>1, <1>3, ClaimTakes
<1>6. \A v \in Workers : Running(v) => claim[v].q # q
  <2> SUFFICES ASSUME NEW v \in Workers, Running(v), claim[v].q = q PROVE FALSE
    OBVIOUS
  <2>1. jobs[q].leaseExpiresAt \in Nat
    BY <1>3 DEF Job
  <2>2. QED BY <1>3, <1>5, <2>1, OwnsNow DEF LeasedTo
<1>7. \A v \in Workers \ {w} : LocalSame(v)
  BY <1>1, <1>2, <1>3 DEF Typed, TypeOK, LocalSame
<1>8. \A v \in Workers : KeepsItsJob(v)
  BY <1>4, <1>6, OwnsNow DEF KeepsItsJob
<1>9. \A v \in Workers \ {w} : Undisturbed(v)
  BY <1>2, <1>7, <1>8 DEF Undisturbed, KeepsItsLeases
<1>10. pc'[w] = "acquiring" /\ claim'[w].q = q /\ checkedAt'[w] = now
  BY <1>1, <1>2, <1>3 DEF Typed, TypeOK
<1>11. beat[w] = NoBeat /\ held[w] = {}
  BY <1>2 DEF TimedInv, TimedWorker, Typed, PhaseOK
<1>12. Acquiring(w)'
  BY <1>2, <1>3, <1>4, <1>10, <1>11, Interval DEF Acquiring, Owns, LeasedTo
<1>13. TimedWorker(w)'
  BY <1>10, <1>12 DEF TimedWorker
<1>14. \A v \in Workers \ {w} : Running(v)' => Running(v) /\ claim'[v] = claim[v]
  BY <1>7 DEF LocalSame, Running
<1>15. OneRunPerJob'
  BY <1>6, <1>10, <1>14 DEF OneRunPerJob, TimedInv
<1>16. QED BY <1>9, <1>13, <1>15 DEF Tame

LEMMA AcquireLeaseTame ==
  ASSUME TimedInv, Punctual, NEW w \in Workers, AcquireLease(w)
  PROVE  Tame(w)
<1> DEFINE r == NextResource(w)
<1>1. /\ pc[w] = "acquiring" /\ Running(w) /\ Acquiring(w) /\ Typed
      /\ UNCHANGED <<jobs, now, claim>>
  BY DEF AcquireLease, TimedInv, TimedWorker, Running
<1>2. /\ now \in Nat /\ beat[w] = NoBeat /\ checkedAt[w] = now
      /\ leases \in [Resources -> Lease] /\ r \in Resources
  BY <1>1, NextResourceTyped DEF Acquiring, Typed, TypeOK
<1>3. Acquire(r, w, now)
  BY <1>2 DEF AcquireLease
<1>4. leases' = [leases EXCEPT ![r] = FreshLease(w, now)]
  BY <1>3 DEF Acquire, PostgresAcquired, Punctual
<1>5. held' = [held EXCEPT ![w] = held[w] \cup {r}]
  BY DEF AcquireLease
<1>6. held'[w] = held[w] \cup {r}
  BY <1>1, <1>5 DEF Typed, TypeOK
<1>7. \A s \in held'[w] :
        /\ s \in Resources /\ leases'[s].holder = w
        /\ leases'[s].expiresAt > now + BeatInterval /\ leases'[s].expiresAt > now
  <2> SUFFICES ASSUME NEW s \in held[w] \cup {r}
               PROVE  /\ s \in Resources /\ leases'[s].holder = w
                      /\ leases'[s].expiresAt > now + BeatInterval /\ leases'[s].expiresAt > now
    BY <1>6
  <2>1. held[w] \subseteq Resources
    BY <1>1 DEF Typed, TypeOK
  <2>2. CASE s = r
    BY <1>2, <1>4, <2>2, Interval DEF FreshLease
  <2>3. CASE s # r
    <3>1. leases'[s] = leases[s] /\ leases[s].expiresAt \in Nat
      BY <1>2, <1>4, <2>1, <2>3 DEF Lease
    <3>2. HoldsUntil(w, s, now + BeatInterval)
      BY <1>1, <2>3 DEF Acquiring
    <3>3. QED BY <1>2, <2>1, <2>3, <3>1, <3>2, Interval DEF HoldsUntil
  <2>4. QED BY <2>2, <2>3
<1>8. \A v \in Workers \ {w} : KeepsItsLeases(v)
  BY <1>2, <1>3, LeasesKept
<1>9. CASE LastResource(w)
  <2>1. /\ pc' = [pc EXCEPT ![w] = "ingesting"]
        /\ beat' = [beat EXCEPT ![w].due = now + BeatInterval]
        /\ checkedAt' = [checkedAt EXCEPT ![w] = 0]
    BY <1>9 DEF AcquireLease, Goto
  <2>2. pc'[w] = "ingesting" /\ beat'[w].due = now + BeatInterval /\ beat'[w].pending = {}
    BY <1>1, <1>2, <2>1 DEF Typed, TypeOK, NoBeat
  <2>3. \A v \in Workers \ {w} : LocalSame(v)
    BY <1>1, <1>5, <2>1 DEF Typed, TypeOK, LocalSame
  <2>4. Owns(w, beat[w].due)'
    BY <1>1, <2>2 DEF Acquiring, Owns, LeasedTo
  <2>5. Ingesting(w)'
    BY <1>1, <1>2, <1>7, <2>2, <2>4, Interval DEF Ingesting, HoldsUntil
  <2>6. TimedWorker(w)' /\ \A v \in Workers \ {w} : Undisturbed(v)
    BY <1>1, <1>8, <2>2, <2>3, <2>5 DEF TimedWorker, Undisturbed, KeepsItsJob
  <2>7. Stays
    BY <1>1, <2>3 DEF Stays, Running, LocalSame
  <2>8. QED BY <2>6, <2>7, StaysApart DEF Tame
<1>10. CASE ~ LastResource(w)
  <2>1. UNCHANGED <<pc, beat, checkedAt>>
    BY <1>10 DEF AcquireLease
  <2>2. \A v \in Workers \ {w} : LocalSame(v)
    BY <1>1, <1>5, <2>1 DEF Typed, TypeOK, LocalSame
  <2>3. Acquiring(w)'
    BY <1>1, <1>7, <2>1 DEF Acquiring, HoldsUntil, Owns, LeasedTo
  <2>4. TimedWorker(w)' /\ \A v \in Workers \ {w} : Undisturbed(v)
    BY <1>1, <1>8, <2>1, <2>2, <2>3 DEF TimedWorker, Undisturbed, KeepsItsJob
  <2>5. Stays
    BY <1>1, <2>1 DEF Stays, Running
  <2>6. QED BY <2>4, <2>5, StaysApart DEF Tame
<1>11. QED BY <1>9, <1>10

LEMMA LoseLeaseRaceTame == ASSUME TimedInv, NEW w \in Workers, LoseLeaseRace(w) PROVE Tame(w)
<1>1. /\ pc[w] = "acquiring" /\ pc' = [pc EXCEPT ![w] = "conflict"]
      /\ UNCHANGED <<jobs, now, leases, claim, checkedAt, held, beat>>
  BY DEF LoseLeaseRace, Goto
<1>2. pc'[w] = "conflict" /\ \A v \in Workers \ {w} : LocalSame(v)
  BY <1>1 DEF TimedInv, Typed, TypeOK, LocalSame
<1>3. Acquiring(w)'
  BY <1>1 DEF TimedInv, TimedWorker, Acquiring, HoldsUntil, Owns, LeasedTo
<1>4. Stays
  BY <1>1, <1>2 DEF Stays, Running, LocalSame
<1>5. QED BY <1>1, <1>2, <1>3, <1>4, Aside, StaysApart DEF Tame, TimedWorker

(* Reporting an outcome, accepted or refused, frees the job of nobody else. *)
LEMMA SettleTame ==
  ASSUME TimedInv, NEW w \in Workers, NEW at \in Nat, NEW retryable \in BOOLEAN, Running(w),
         UNCHANGED leases,
         \/ CompleteJob(claim[w].q, w) \/ FailJob(claim[w].q, w, retryable, at)
         \/ UNCHANGED jobs,
         ToRelease(w) \/ Leave(w, "idle")
  PROVE  Tame(w)
<1>1. claim[w].q \in QueueIds /\ jobs \in [QueueIds -> Job]
  BY TypesOf DEF TimedInv, Typed, TypeOK
<1>2. \A q \in QueueIds \ {claim[w].q} : jobs'[q] = jobs[q]
  BY <1>1, CompleteEffect, FailEffect DEF Keeps
<1>3. TimedWorker(w)' /\ Stays /\ \A v \in Workers \ {w} : LocalSame(v)
  BY LeaveTame, ToReleaseTame
<1>4. \A v \in Workers \ {w} : Undisturbed(v)
  BY <1>2, <1>3, JobKept DEF Undisturbed, KeepsItsLeases
<1>5. QED BY <1>3, <1>4, StaysApart DEF Tame

LEMMA SettlingTame ==
  ASSUME TimedInv, NEW w \in Workers, FailOnConflict(w) \/ Complete(w) \/ Fail(w)
  PROVE  Tame(w)
<1>1. Running(w) /\ now \in Nat /\ checkedAt[w] \in Nat /\ ConflictRetry \in Nat
      /\ TRUE \in BOOLEAN /\ RetryFailedJobs \in BOOLEAN /\ UNCHANGED leases
  BY TicksTyped, WorkerAssumption
     DEF FailOnConflict, Complete, Fail, Running, TimedInv, Typed, TypeOK, WorkerAssumption
<1>2. checkedAt[w] + ConflictRetry \in Nat /\ now + ConflictRetry \in Nat
  BY <1>1
<1>3. CASE FailOnConflict(w)
  BY <1>1, <1>2, <1>3, SettleTame DEF FailOnConflict
<1>4. CASE Fail(w)
  BY <1>1, <1>2, <1>4, SettleTame DEF Fail
<1>5. CASE Complete(w)
  <2>1. CASE CompleteJob(claim[w].q, w) /\ ToRelease(w)
    BY <1>1, <2>1, SettleTame
  <2>2. CASE Goto(w, "failing") /\ UNCHANGED <<jobs, claim, next, checkedAt, held, beat>>
    <3>1. pc[w] = "stopping" /\ pc'[w] = "failing" /\ \A v \in Workers \ {w} : LocalSame(v)
      BY <1>5, <2>2 DEF Complete, Goto, TimedInv, Typed, TypeOK, LocalSame
    <3>2. Settling(w) /\ UNCHANGED <<jobs, leases, now, claim>>
      BY <1>1, <1>5, <2>2, <3>1 DEF Complete, TimedInv, TimedWorker
    <3>3. TimedWorker(w)'
      BY <3>1, <3>2 DEF TimedWorker, Settling, Owns, LeasedTo
    <3>4. Stays
      BY <1>1, <3>1, <3>2 DEF Stays, Running, LocalSame
    <3>5. QED BY <3>1, <3>2, <3>3, <3>4, Aside, StaysApart DEF Tame
  <2>3. QED BY <1>5, <2>1, <2>2 DEF Complete
<1>6. QED BY <1>3, <1>4, <1>5

(* What the queue says of a job after a heartbeat of its worker. *)
LEMMA BeatOwns ==
  ASSUME TimedInv, NEW w \in Workers, NEW due \in Nat, NEW at \in Nat,
         pc[w] = "ingesting", StartBeat(w, due, at)
  PROVE  /\ \A v \in Workers \ {w} : KeepsItsJob(v)
         /\ \/ /\ jobs'[claim[w].q].status = "leased" /\ jobs'[claim[w].q].leasedBy = w
               /\ jobs'[claim[w].q].leaseExpiresAt = now + LeaseTtl
            \/ jobs'[claim[w].q].status = "cancelled"
<1>1. /\ now \in Nat /\ jobs \in [QueueIds -> Job] /\ claim[w].q \in QueueIds
      /\ Ingesting(w) /\ Running(w) /\ beat[w].due \in Nat
  BY TypesOf DEF TimedInv, TimedWorker, Typed, TypeOK, Running, Beat
<1>2. jobs' = JobsAfterHeartbeat(claim[w].q, w, now)
  BY DEF StartBeat
<1>3. \A q \in QueueIds \ {claim[w].q} : jobs'[q] = jobs[q]
  BY <1>1, <1>2 DEF JobsAfterHeartbeat
<1>4. jobs[claim[w].q].leaseExpiresAt \in Nat
  BY <1>1 DEF Job
<1>5. \/ LeasedTo(claim[w].q, w) /\ jobs[claim[w].q].leaseExpiresAt > now
      \/ jobs[claim[w].q].status = "cancelled"
  BY <1>1, <1>4 DEF Ingesting, Owns
<1>6. /\ jobs'[claim[w].q].status = jobs[claim[w].q].status
      /\ jobs'[claim[w].q].leasedBy = jobs[claim[w].q].leasedBy
      /\ LeasedTo(claim[w].q, w) /\ jobs[claim[w].q].leaseExpiresAt > now
           => jobs'[claim[w].q].leaseExpiresAt = now + LeaseTtl
  BY <1>1, <1>2, HeartbeatEffect
<1>7. QED BY <1>1, <1>3, <1>5, <1>6, JobKept DEF LeasedTo

LEMMA BeatTimerTame == ASSUME TimedInv, NEW w \in Workers, BeatTimer(w) PROVE Tame(w)
<1>1. /\ now \in Nat /\ held[w] \subseteq Resources /\ beat[w] \in Beat
      /\ \A r \in Resources : leases[r] \in Lease
      /\ pc[w] = "ingesting" /\ Ingesting(w) /\ beat[w].due <= now
      /\ UNCHANGED <<now, leases, pc, claim, checkedAt, held>>
  BY TypesOf DEF TimedInv, TimedWorker, BeatTimer
<1>2. beat[w].due = now
  BY <1>1 DEF Ingesting, Beat
<1>3. now + BeatInterval \in Nat /\ now + LeaseTtl > now + BeatInterval
  BY <1>1, Interval
<1>4. StartBeat(w, now + BeatInterval, 0)
  BY DEF BeatTimer
<1>5. beat' = [beat EXCEPT ![w] = [due |-> now + BeatInterval, at |-> 0,
                 pending |-> beat[w].pending \cup (held[w] \X {now})]]
  BY <1>4 DEF StartBeat
<1>6. /\ beat'[w].due = now + BeatInterval
      /\ beat'[w].pending = beat[w].pending \cup (held[w] \X {now})
  BY <1>5 DEF TimedInv, Typed, TypeOK
<1>7. \A v \in Workers \ {w} : LocalSame(v)
  BY <1>1, <1>5 DEF TimedInv, Typed, TypeOK, LocalSame
<1>8. Owns(w, beat[w].due)'
  BY <1>1, <1>3, <1>4, <1>6, BeatOwns DEF Owns, LeasedTo
<1>9. \A r \in held'[w] : HoldsUntil(w, r, now)' /\ <<r, now>> \in beat'[w].pending
  BY <1>1, <1>6 DEF Ingesting, HoldsUntil
<1>10. Ingesting(w)'
  BY <1>1, <1>6, <1>8, <1>9, Interval DEF Ingesting
<1>11. \A v \in Workers \ {w} : Undisturbed(v)
  BY <1>1, <1>3, <1>4, <1>7, BeatOwns DEF Undisturbed, KeepsItsLeases
<1>12. Stays
  BY <1>1 DEF Stays, Running
<1>13. QED BY <1>1, <1>10, <1>11, <1>12, StaysApart DEF Tame, TimedWorker

LEMMA FinishIngestTame == ASSUME TimedInv, NEW w \in Workers, FinishIngest(w) PROVE Tame(w)
<1>1. /\ now \in Nat /\ pc[w] = "ingesting" /\ Running(w)
      /\ UNCHANGED <<now, leases, claim, checkedAt, held>>
  BY TypesOf DEF TimedInv, FinishIngest, Running
<1>2. StartBeat(w, 0, now) /\ 0 \in Nat
  BY DEF FinishIngest
<1>3. PICK phase \in {"stopping", "stopping_failed"} : pc' = [pc EXCEPT ![w] = phase]
  BY DEF FinishIngest, Goto
<1>4. pc'[w] \in {"stopping", "stopping_failed"} /\ \A v \in Workers \ {w} : LocalSame(v)
  BY <1>1, <1>2, <1>3 DEF StartBeat, TimedInv, Typed, TypeOK, LocalSame
<1>5. Settling(w)'
  BY <1>1, <1>2, BeatOwns, Interval DEF Settling, Owns, LeasedTo
<1>6. \A v \in Workers \ {w} : Undisturbed(v)
  BY <1>1, <1>2, <1>4, BeatOwns DEF Undisturbed, KeepsItsLeases
<1>7. Stays
  BY <1>1, <1>4 DEF Stays, Running, LocalSame
<1>8. QED BY <1>4, <1>5, <1>6, <1>7, StaysApart DEF Tame, TimedWorker

(* A heartbeat in flight arrives in time to renew its lease. *)
LEMMA BeatLeaseTame == ASSUME TimedInv, NEW w \in Workers, BeatLease(w) PROVE Tame(w)
<1>1. PICK sent \in beat[w].pending :
        /\ HeartbeatLease(sent[1], w, sent[2])
        /\ beat' = [beat EXCEPT ![w] =
             [due |-> beat[w].due, at |-> beat[w].at, pending |-> beat[w].pending \ {sent}]]
        /\ UNCHANGED <<jobs, now, pc, claim, next, checkedAt, held, ingested, faults>>
  BY DEF BeatLease
<1>2. /\ now \in Nat /\ beat[w] \in Beat /\ leases \in [Resources -> Lease]
      /\ held[w] \subseteq Resources /\ TimedWorker(w)
  BY DEF TimedInv, Typed, TypeOK
<1>3. sent[1] \in Resources /\ sent[2] \in Nat /\ beat[w] # NoBeat
  BY <1>1, <1>2 DEF Beat, NoBeat
<1>4. beat'[w].due = beat[w].due /\ beat'[w].pending = beat[w].pending \ {sent}
  BY <1>1 DEF TimedInv, Typed, TypeOK
<1>5. \A v \in Workers \ {w} : LocalSame(v)
  BY <1>1 DEF TimedInv, Typed, TypeOK, LocalSame
<1>6. \A v \in Workers \ {w} : Undisturbed(v)
  BY <1>1, <1>3, <1>5, LeasesKept DEF Undisturbed, KeepsItsJob
<1>7. Stays
  BY <1>1 DEF Stays, Running
<1>8. CASE pc[w] = "ingesting"
  <2>1. Ingesting(w) /\ beat[w].due \in Nat /\ now + LeaseTtl > beat[w].due
        /\ now + LeaseTtl > now
    BY <1>2, <1>8, Interval DEF TimedWorker, Ingesting, Beat
  <2>2. sent[1] \in held[w] /\ sent[2] = now /\ sent = <<sent[1], now>>
    BY <1>1, <2>1 DEF Ingesting
  <2>3. leases' = [leases EXCEPT ![sent[1]] = FreshLease(w, now)]
    BY <1>1, <2>1, <2>2 DEF HeartbeatLease, Ingesting, HoldsUntil
  <2>4. ASSUME NEW r \in held[w]
        PROVE  /\ leases'[r].holder = w /\ leases'[r].expiresAt > now
               /\ <<r, now>> \in beat'[w].pending \/ leases'[r].expiresAt > beat[w].due
    <3>1. CASE r = sent[1]
      BY <1>2, <2>1, <2>3, <3>1 DEF FreshLease
    <3>2. CASE r # sent[1]
      <4>1. leases'[r] = leases[r] /\ <<r, now>> # sent
        BY <1>2, <2>2, <2>3, <3>2
      <4>2. QED BY <1>4, <2>1, <4>1 DEF Ingesting, HoldsUntil
    <3>3. QED BY <3>1, <3>2
  <2>5. Owns(w, beat[w].due)'
    BY <1>1, <1>4, <2>1 DEF Ingesting, Owns, LeasedTo
  <2>6. Ingesting(w)'
    BY <1>1, <1>4, <2>1, <2>4, <2>5 DEF Ingesting, HoldsUntil
  <2>7. QED BY <1>1, <1>6, <1>7, <1>8, <2>6, StaysApart DEF Tame, TimedWorker
<1>9. CASE pc[w] \in {"stopping", "stopping_failed", "failing", "releasing"}
  <2>1. pc[w] # "releasing" => Settling(w)'
    BY <1>1, <1>2, <1>9 DEF TimedWorker, Settling, Owns, LeasedTo
  <2>2. QED BY <1>1, <1>6, <1>7, <1>9, <2>1, StaysApart DEF Tame, TimedWorker
<1>10. QED
  BY <1>2, <1>3, <1>8, <1>9 DEF TimedWorker, Acquiring, TimedInv, Typed, TypeOK, Phases

LEMMA ReleaseTame == ASSUME TimedInv, NEW w \in Workers, Release(w) PROVE Tame(w)
<1>1. PICK r \in held[w] :
        /\ ReleaseLease(r, w)
        /\ IF held[w] = {r}
           THEN Leave(w, "idle")
           ELSE /\ held' = [held EXCEPT ![w] = @ \ {r}]
                /\ UNCHANGED <<pc, claim, next, checkedAt, beat>>
  BY DEF Release
<1>2. pc[w] = "releasing" /\ r \in Resources /\ UNCHANGED <<jobs, now>>
  BY DEF Release, TimedInv, Typed, TypeOK
<1>3. \A v \in Workers \ {w} : KeepsItsLeases(v) /\ KeepsItsJob(v)
  BY <1>1, <1>2, LeasesKept DEF KeepsItsJob
<1>4. CASE held[w] = {r}
  BY <1>1, <1>3, <1>4, LeaveTame, StaysApart DEF Tame, Undisturbed
<1>5. CASE held[w] # {r}
  <2>1. held' = [held EXCEPT ![w] = held[w] \ {r}] /\ UNCHANGED <<pc, claim, checkedAt, beat>>
    BY <1>1, <1>5
  <2>2. \A v \in Workers \ {w} : LocalSame(v)
    BY <2>1 DEF TimedInv, Typed, TypeOK, LocalSame
  <2>3. Stays /\ TimedWorker(w)'
    BY <1>2, <2>1 DEF Stays, Running, TimedWorker
  <2>4. QED BY <1>3, <2>2, <2>3, StaysApart DEF Tame, Undisturbed
<1>6. QED BY <1>4, <1>5

LEMMA FaultsTame ==
  ASSUME TimedInv, NEW w \in Workers,
         Crash(w) \/ Restart(w) \/ StatementFails(w) \/ LoseCompletionReply(w)
  PROVE  Tame(w)
<1>1. ASSUME NEW phase \in {"idle", "down"}, Leave(w, phase), UNCHANGED <<jobs, leases>>
      PROVE  Tame(w)
  BY <1>1, LeaveTame, Aside, StaysApart DEF Tame
<1>2. CASE Crash(w)
  BY <1>1, <1>2 DEF Crash
<1>3. CASE Restart(w)
  <2>1. /\ pc' = [pc EXCEPT ![w] = "idle"] /\ pc[w] = "down"
        /\ UNCHANGED <<jobs, leases, claim, checkedAt, held, beat>>
    BY <1>3 DEF Restart, Goto
  <2>2. pc'[w] = "idle" /\ \A v \in Workers \ {w} : LocalSame(v)
    BY <2>1 DEF TimedInv, Typed, TypeOK, LocalSame
  <2>3. TimedWorker(w)' /\ Stays
    BY <2>1, <2>2 DEF TimedInv, TimedWorker, Stays, Running, LocalSame
  <2>4. QED BY <2>1, <2>2, <2>3, Aside, StaysApart DEF Tame
<1>4. CASE StatementFails(w)
  <2>1. CASE Leave(w, "idle")
    BY <1>1, <1>4, <2>1 DEF StatementFails
  <2>2. CASE /\ pc[w] = "stopping" /\ Goto(w, "failing")
             /\ beat' = [beat EXCEPT ![w] = NoBeat]
             /\ UNCHANGED <<claim, next, checkedAt, held>>
    <3>1. pc'[w] = "failing" /\ \A v \in Workers \ {w} : LocalSame(v)
      BY <2>2 DEF Goto, TimedInv, Typed, TypeOK, LocalSame
    <3>2. Settling(w) /\ UNCHANGED <<jobs, now, leases>>
      BY <1>4, <2>2 DEF StatementFails, TimedInv, TimedWorker
    <3>3. TimedWorker(w)' /\ Stays
      BY <2>2, <3>1, <3>2 DEF TimedWorker, Settling, Owns, LeasedTo, Stays, Running, LocalSame
    <3>4. QED BY <3>1, <3>2, <3>3, Aside, StaysApart DEF Tame
  <2>3. QED BY <1>4, <2>1, <2>2 DEF StatementFails
<1>5. CASE LoseCompletionReply(w)
  <2>1. /\ pc[w] = "stopping" /\ pc' = [pc EXCEPT ![w] = "failing"] /\ Running(w)
        /\ CompleteJob(claim[w].q, w) /\ claim[w].q \in QueueIds
        /\ UNCHANGED <<leases, claim, checkedAt, held, beat>>
    BY <1>5, TypesOf DEF LoseCompletionReply, Goto, Running, TimedInv
  <2>2. /\ \A q \in QueueIds \ {claim[w].q} : jobs'[q] = jobs[q]
        /\ jobs'[claim[w].q].status = "completed"
    BY <2>1, CompleteEffect DEF Keeps, TimedInv, Typed, TypeOK
  <2>3. pc'[w] = "failing" /\ \A v \in Workers \ {w} : LocalSame(v)
    BY <2>1 DEF TimedInv, Typed, TypeOK, LocalSame
  <2>4. \A v \in Workers \ {w} : Undisturbed(v)
    BY <2>1, <2>2, <2>3, JobKept DEF Undisturbed, KeepsItsLeases
  <2>5. TimedWorker(w)' /\ Stays
    BY <2>1, <2>2, <2>3 DEF TimedWorker, Settling, Stays, Running, LocalSame
  <2>6. QED BY <2>4, <2>5, StaysApart DEF Tame
<1>6. QED BY <1>2, <1>3, <1>4, <1>5

-----------------------------------------------------------------------------
(* The operator reaches the job of a running worker only to cancel it. *)
LEMMA OperatorTimed == ASSUME TimedInv, Typed', Operator PROVE TimedInv'
<1>1. UNCHANGED <<now, leases, pc, claim, checkedAt, held, beat>>
  BY DEF Operator, local
<1>2. PICK q \in QueueIds : Enqueue(q) \/ Cancel(q) \/ Requeue(q)
  BY DEF Operator
<1>3. jobs \in [QueueIds -> Job]
  BY DEF TimedInv, Typed, TypeOK
<1>4. /\ \A r \in QueueIds \ {q} : jobs'[r] = jobs[r]
      /\ jobs[q].status \in {"absent", "dead_letter"} \/ jobs'[q].status = "cancelled"
  BY <1>2, <1>3, EnqueueEffect, CancelEffect, RequeueEffect DEF Keeps
<1>5. \A v \in Workers : KeepsItsJob(v)
  BY <1>4, OwnsNow DEF KeepsItsJob, LeasedTo
<1>6. \A v \in Workers : Undisturbed(v)
  BY <1>1, <1>5 DEF Undisturbed, LocalSame, KeepsItsLeases
<1>7. Stays
  BY <1>1 DEF Stays, Running
<1>8. QED BY <1>1, <1>6, <1>7, UndisturbedTimed, StaysApart DEF TimedInv

(* The clock waits for every beat that is due and every statement to send. *)
LEMMA TickTimed == ASSUME TimedInv, Typed', Punctual, Tick PROVE TimedInv'
<1>1. /\ \A w \in Workers : ~ Busy(w)
      /\ now' = now + 1 /\ UNCHANGED <<jobs, leases, pc, claim, checkedAt, held, beat>>
  BY DEF Tick, Punctual, local
<1>2. ASSUME NEW w \in Workers PROVE TimedWorker(w)'
  <2>1. /\ now \in Nat /\ beat[w] \in Beat /\ pc[w] \in {"idle", "down", "ingesting"}
        /\ beat[w].pending = {} /\ (pc[w] = "ingesting" => ~ beat[w].due <= now)
        /\ TimedWorker(w) /\ held[w] \subseteq Resources
        /\ \A r \in Resources : leases[r] \in Lease
    BY <1>1, TypesOf DEF Busy, TimedInv
  <2>2. CASE pc[w] = "ingesting"
    <3>1. Ingesting(w) /\ beat[w].due \in Nat /\ now' <= beat[w].due
          /\ beat[w].due <= now' + BeatInterval
      BY <1>1, <2>1, <2>2, Interval DEF TimedWorker, Ingesting, Beat
    <3>2. ASSUME NEW r \in held[w]
          PROVE  leases[r].holder = w /\ leases[r].expiresAt > beat[w].due
                 /\ leases[r].expiresAt > now'
      <4>1. leases[r].expiresAt \in Nat /\ HoldsUntil(w, r, beat[w].due)
        BY <2>1, <3>1 DEF Ingesting, Lease
      <4>2. QED BY <1>1, <2>1, <3>1, <4>1 DEF HoldsUntil
    <3>3. Owns(w, beat[w].due)'
      BY <1>1, <3>1 DEF Ingesting, Owns, LeasedTo
    <3>4. Ingesting(w)'
      BY <1>1, <2>1, <3>1, <3>2, <3>3 DEF Ingesting, HoldsUntil
    <3>5. QED BY <1>1, <2>2, <3>4 DEF TimedWorker
  <2>3. CASE pc[w] # "ingesting"
    BY <1>1, <2>1, <2>3 DEF TimedWorker
  <2>4. QED BY <2>2, <2>3
<1>3. Stays
  BY <1>1 DEF Stays, Running
<1>4. QED BY <1>2, <1>3, StaysApart DEF TimedInv

LEMMA InitTimed == Init => TimedInv
  BY InitTyped DEF Init, TimedInv, OneRunPerJob, Running, TimedWorker

LEMMA StepTimed == ASSUME Punctual, TimedInv, [Next]_vars PROVE TimedInv'
<1>1. Typed'
  BY StepTyped DEF TimedInv
<1>2. CASE UNCHANGED vars
  <2>1. \A v \in Workers : Undisturbed(v)
    BY <1>2 DEF vars, local, Undisturbed, LocalSame, KeepsItsJob, KeepsItsLeases
  <2>2. now' = now /\ Stays
    BY <1>2 DEF vars, local, Stays, Running
  <2>3. QED BY <1>1, <2>1, <2>2, UndisturbedTimed, StaysApart DEF TimedInv
<1>3. ASSUME NEW w \in Workers, RunOnce(w) PROVE TimedInv'
  <2>1. now' = now
    BY <1>3 DEF RunOnce, ClaimJob, AcquireLease, LoseLeaseRace, FailOnConflict, BeatTimer,
       BeatLease, FinishIngest, Complete, Fail, Release
  <2>2. Tame(w)
    BY <1>3, ClaimJobTame, AcquireLeaseTame, LoseLeaseRaceTame, SettlingTame, BeatTimerTame,
       BeatLeaseTame, FinishIngestTame, ReleaseTame DEF RunOnce
  <2>3. QED BY <1>1, <2>1, <2>2, TameSuffices
<1>4. ASSUME NEW w \in Workers,
             Crash(w) \/ Restart(w) \/ StatementFails(w) \/ LoseCompletionReply(w)
      PROVE  TimedInv'
  <2>1. now' = now
    BY <1>4 DEF Crash, Restart, StatementFails, LoseCompletionReply
  <2>2. QED BY <1>1, <1>4, <2>1, FaultsTame, TameSuffices
<1>5. QED
  BY <1>1, <1>2, <1>3, <1>4, OperatorTimed, TickTimed DEF Next

LEMMA TimedInvAlive == TimedInv => LeasesAliveWhileIngesting
<1> SUFFICES ASSUME TimedInv, NEW w \in Workers, pc[w] = "ingesting"
             PROVE  /\ \A r \in held[w] : leases[r].holder = w /\ leases[r].expiresAt > now
                    /\ \/ LeasedTo(claim[w].q, w) /\ jobs[claim[w].q].leaseExpiresAt > now
                       \/ jobs[claim[w].q].status = "cancelled"
  BY DEF LeasesAliveWhileIngesting
<1>1. Ingesting(w) /\ Running(w) /\ now \in Nat /\ beat[w].due \in Nat
      /\ claim[w].q \in QueueIds /\ jobs[claim[w].q] \in Job
  BY TypesOf DEF TimedInv, TimedWorker, Running, Beat
<1>2. jobs[claim[w].q].leaseExpiresAt \in Nat
  BY <1>1 DEF Job
<1>3. /\ now <= beat[w].due /\ Owns(w, beat[w].due)
      /\ \A r \in held[w] : HoldsUntil(w, r, now)
  BY <1>1 DEF Ingesting
<1>4. \/ LeasedTo(claim[w].q, w) /\ jobs[claim[w].q].leaseExpiresAt > now
      \/ jobs[claim[w].q].status = "cancelled"
  BY <1>1, <1>2, <1>3 DEF Owns
<1>5. QED BY <1>3, <1>4 DEF HoldsUntil

LEMMA AliveExcludes == LeasesAliveWhileIngesting => SourceExclusion
  BY DEF LeasesAliveWhileIngesting, SourceExclusion

(* With punctual timers a worker keeps "queue and resource leases alive      *)
(* while ingestion runs": no lease it holds lapses or changes hands, and its *)
(* job stays its own unless an operator cancels it, whatever crashes and     *)
(* failed statements the other workers, or its own report, meet.             *)
THEOREM LeasesStayAlive == ASSUME Punctual PROVE Spec => []LeasesAliveWhileIngesting
<1>1. Init => TimedInv
  BY InitTimed
<1>2. TimedInv /\ [Next]_vars => TimedInv'
  BY StepTimed
<1>3. TimedInv => LeasesAliveWhileIngesting
  BY TimedInvAlive
<1>4. QED BY <1>1, <1>2, <1>3, PTL DEF Spec

(* With punctual timers two workers never ingest a common source at a time.  *)
THEOREM SourcesExclusive == ASSUME Punctual PROVE Spec => []SourceExclusion
<1>1. LeasesAliveWhileIngesting => SourceExclusion
  BY AliveExcludes
<1>2. QED BY <1>1, LeasesStayAlive, PTL

(* With punctual timers a job is run by one worker at a time, from the claim *)
(* to the answer to its last report: a worker that holds a job is never      *)
(* presumed dead while it lives.                                             *)
THEOREM RunsExclusive == ASSUME Punctual PROVE Spec => []OneRunPerJob
<1>1. Init => TimedInv
  BY InitTimed
<1>2. TimedInv /\ [Next]_vars => TimedInv'
  BY StepTimed
<1>3. TimedInv => OneRunPerJob
  BY DEF TimedInv
<1>4. QED BY <1>1, <1>2, <1>3, PTL DEF Spec

-----------------------------------------------------------------------------
(* The specification whose liveness is checked is one of the behaviours of   *)
(* the worker: its pace and its fairness only leave steps out, so what holds *)
(* of the worker holds of it.                                                *)

LEMMA LiveInitRefines == LiveInit => Init
  BY DEF LiveInit

LEMMA LiveStepRefines == [LiveNext]_liveVars => [Next]_vars
<1> SUFFICES ASSUME LiveNext \/ UNCHANGED liveVars
             PROVE  Next \/ UNCHANGED vars
  OBVIOUS
<1>1. ASSUME NEW w \in Workers,
             Live(RunOnce(w)) \/ Live(Crash(w)) \/ Live(Restart(w))
               \/ Live(StatementFails(w)) \/ Live(LoseCompletionReply(w))
      PROVE  Next
  BY <1>1 DEF Live, Next
<1>2. CASE Live(EarlyOperator)
  BY <1>2 DEF Live, EarlyOperator, Operator, Next
<1>3. CASE Live(EagerTick)
  BY <1>3 DEF Live, EagerTick, Next
<1>4. CASE UNCHANGED liveVars
  BY <1>4 DEF liveVars
<1>5. QED BY <1>1, <1>2, <1>3, <1>4 DEF LiveNext

(* Every fair and eager behaviour of the liveness model is a behaviour of    *)
(* the worker of IngestionWorker: with ingestFor hidden it implements it.    *)
THEOREM LiveImplementsWorker == LiveSpec => Spec
<1>1. LiveSpec => LiveInit /\ [][LiveNext]_liveVars
  BY PTL DEF LiveSpec
<1>2. QED BY <1>1, LiveInitRefines, LiveStepRefines, PTL DEF Spec

(* What the run checks beside the liveness, at its pace: the leases stay     *)
(* alive, no source is ingested twice at a time and no job run twice.        *)
THEOREM LiveRunsExclusive ==
  ASSUME Punctual
  PROVE  LiveSpec => [](LeasesAliveWhileIngesting /\ SourceExclusion /\ OneRunPerJob)
  BY LiveImplementsWorker, LeasesStayAlive, SourcesExclusive, RunsExclusive, PTL
=============================================================================
