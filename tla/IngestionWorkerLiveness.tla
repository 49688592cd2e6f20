----------------------- MODULE IngestionWorkerLiveness ----------------------
(***************************************************************************)
(* Do the jobs of the queue ever settle?  IngestionWorker under the pace   *)
(* and the fairness a deployment provides: the producer enqueues its plan  *)
(* at the start, a worker keeps taking its steps and is run again whenever *)
(* there is something to claim, a crashed one is restarted, an ingest ends *)
(* within MaxIngest ticks, and the clock runs.  Nothing is assumed about   *)
(* who wins a lease; the operator may cancel but never has to.             *)
(***************************************************************************)
EXTENDS IngestionWorker

CONSTANT MaxIngest     \* the longest an ingest takes, in ticks

ASSUME LivenessAssumption == MaxIngest \in Nat \ {0}

VARIABLE ingestFor     \* for how many ticks each worker has been ingesting

liveVars == <<vars, ingestFor>>

LiveInit == Init /\ ingestFor = [w \in Workers |-> 0]

Live(A) ==
  /\ A
  /\ ingestFor' = [w \in Workers |->
       IF pc'[w] = "ingesting" THEN ingestFor[w] + (now' - now) ELSE 0]

EagerTick ==
  /\ Tick
  /\ \A w \in Workers :
       /\ pc[w] = "ingesting" => ingestFor[w] < MaxIngest
       /\ pc[w] = "idle" => \A q \in QueueIds : ~ Candidate(q, w, now)
       /\ pc[w] # "down"

EarlyOperator ==
  /\ \E q \in QueueIds : (now = 0 /\ Enqueue(q)) \/ Cancel(q)
  /\ UNCHANGED <<now, leases, local, ingested, faults>>

LiveNext ==
  \/ \E w \in Workers :
       \/ Live(RunOnce(w))
       \/ Live(Crash(w)) \/ Live(Restart(w))
       \/ Live(StatementFails(w)) \/ Live(LoseCompletionReply(w))
  \/ Live(EarlyOperator)
  \/ Live(EagerTick)

LiveSpec ==
  /\ LiveInit /\ [][LiveNext]_liveVars
  /\ \A w \in Workers : WF_liveVars(Live(RunOnce(w))) /\ WF_liveVars(Live(Restart(w)))
  /\ WF_liveVars(Live(EagerTick))

(* No job waits, or stays leased to a worker that is gone, for ever: with     *)
(* finitely many faults every enqueued job is completed, dead-lettered or     *)
(* cancelled, although a crashed worker leaves it leased, a rejected run      *)
(* leaves its resource leases behind, and two jobs that list their sources in *)
(* opposite orders keep refusing each other.                                  *)
EveryJobSettles ==
  \A q \in QueueIds :
    jobs[q].status \in {"queued", "leased"} ~>
      jobs[q].status \in {"completed", "dead_letter", "cancelled"}
=============================================================================
