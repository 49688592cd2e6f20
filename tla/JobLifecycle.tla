---------------------------- MODULE JobLifecycle ----------------------------
(***************************************************************************)
(* What the ingestion queue promises about a job, whatever happens to the  *)
(* workers, the clock and the leases:                                      *)
(*   - a job is reported completed only if one of its runs has ingested    *)
(*     everything since it was submitted;                                  *)
(*   - completed and cancelled are final, and a dead-lettered job comes    *)
(*     back only through an operator's requeue, never by a late worker.    *)
(***************************************************************************)
CONSTANT Jobs

VARIABLES
  state,      \* what the queue says of each job
  ingested    \* the jobs of which some run has ingested everything

Init ==
  /\ state = [j \in Jobs |-> "absent"]
  /\ ingested = {}

Move(j, from, to) ==
  /\ state[j] = from
  /\ state' = [state EXCEPT ![j] = to]
  /\ UNCHANGED ingested

Submit(j) == Move(j, "absent", "queued")
Start(j) == Move(j, "queued", "leased")
Retry(j) == Move(j, "leased", "queued")
GiveUp(j) == Move(j, "leased", "dead_letter")
Cancel(j) == Move(j, "queued", "cancelled") \/ Move(j, "leased", "cancelled")
Requeue(j) == Move(j, "dead_letter", "queued")
Complete(j) == j \in ingested /\ Move(j, "leased", "completed")

(* A run that lost its job still ingests: it may end in any state but the   *)
(* one before the job exists.                                               *)
Ingest(j) ==
  /\ state[j] # "absent"
  /\ ingested' = ingested \cup {j}
  /\ UNCHANGED state

Next ==
  \E j \in Jobs :
    \/ Submit(j) \/ Start(j) \/ Retry(j) \/ GiveUp(j)
    \/ Cancel(j) \/ Requeue(j) \/ Complete(j) \/ Ingest(j)

Spec == Init /\ [][Next]_<<state, ingested>>
=============================================================================
