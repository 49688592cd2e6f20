-------------------------- MODULE IngestionLeases ---------------------------
(***************************************************************************)
(* The resource leases of src/src/runtime/ingestion-scale.ts: one row per  *)
(* source or index generation a worker is ingesting, so that two queue     *)
(* jobs over the same source are not ingested at the same time.  Holders   *)
(* are the worker ids of IngestionQueue, and both stores share a backend.  *)
(*                                                                         *)
(* A lease token names one acquisition.  A worker id is one process at a   *)
(* time here, and a process never acquires a resource twice in one job, so *)
(* the holder already names the acquisition and the token is left out.     *)
(***************************************************************************)
EXTENDS IngestionQueue

CONSTANT Resources   \* "source:..." and "generation:..." resource ids

VARIABLE leases      \* [Resources -> Lease], NoLease when there is no row

Lease == [holder: Workers \cup {NoWorker}, expiresAt: Nat]
NoLease == [holder |-> NoWorker, expiresAt |-> 0]
LeasesInit == leases = [r \in Resources |-> NoLease]

(* Mistake: the TTL is subtracted. *)
FreshLease_Expired(w, at) == [holder |-> w, expiresAt |-> at - LeaseTtl]
FreshLease(w, at) == [holder |-> w, expiresAt |-> at + LeaseTtl]

-----------------------------------------------------------------------------
(* Mistake: the upsert lost its where clause. *)
Acquirable_Always(r, w, at) == TRUE

(* acquire is refused while someone else's lease is unexpired at `at`. *)
Acquirable(r, w, at) ==
  leases[r].holder \in {NoWorker, w} \/ leases[r].expiresAt <= at

(* The Map keeps the holder's own unexpired lease exactly as it is ... *)
MemoryAcquired(r, w, at) ==
  IF leases[r].holder = w /\ leases[r].expiresAt > at
  THEN leases[r] ELSE FreshLease(w, at)

(* ... the upsert gives its holder a new one. *)
PostgresAcquired(r, w, at) == FreshLease(w, at)

Acquire(r, w, at) ==
  /\ Acquirable(r, w, at)
  /\ leases' = [leases EXCEPT ![r] =
       IF Backend = "memory" THEN MemoryAcquired(r, w, at)
                             ELSE PostgresAcquired(r, w, at)]

(* Mistake: the heartbeat checks the lease and does not extend it. *)
HeartbeatLease_CheckOnly(r, w, at) == UNCHANGED leases

(* heartbeat: refused (undefined, no error) once expired or taken over. *)
HeartbeatLease(r, w, at) ==
  leases' = IF leases[r].holder = w /\ leases[r].expiresAt > at
            THEN [leases EXCEPT ![r] = FreshLease(w, at)]
            ELSE leases

(* release deletes the holder's own row, expired or not. *)
ReleaseLease(r, w) ==
  leases' = IF leases[r].holder = w THEN [leases EXCEPT ![r] = NoLease] ELSE leases
=============================================================================
