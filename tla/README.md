# Adaptable RAG: TLA+ models, model checks and proofs

This directory models the stateful core of the repository in TLA+: the ingestion control plane
(job queue, resource leases, workers), the ingestion run, the synchronisation of sources, the
promotion of index generations and the support knowledge flow. TLC checks the models on small
instances, TLAPS proves the main safety properties for every instance. `PROJECT.json` says which
lines of the source each definition stands for, which runs check which properties, which faulty
variant of the code each property catches, and where the hazards are.

Paths below are relative to the repository root; `scale.ts` is
`src/runtime/ingestion-scale.ts` and `worker.ts` is `src/runtime/ingestion-worker.ts`.

## 1. Inventory

| Component | State | Operations | What makes it hard | What makes it correct |
|---|---|---|---|---|
| Job queue (`scale.ts`) | `rag_core.ingestion_queue` rows, or a Map | enqueue, claimNext, heartbeat, complete, fail, cancel, requeue | claims race; leases expire under live workers; no fencing token | only the owner's latest claim may report; retries and dead letters within the attempts; final states are final |
| Resource leases (`scale.ts`) | `rag_core.ingestion_leases` rows, or a Map | acquire, heartbeat, release | several leases per job, taken one by one; expiry | no two workers ingest one source |
| Worker (`worker.ts`) | local: claimed job, leases, heartbeat timer | runOnce, runLoop | timers beside an ingest, awaits, failing statements, process death | leases outlive the ingest; a lost job is noticed by the queue; jobs settle |
| Generation promotion (`scale.ts`, CLI) | `index_generation_manifests`, `index_generation_promotions` | plan, record eval, promote | read-then-write statements of several clients | one active generation; a switch only after the required evals |
| Ingestion job runner (`production-ingestion.ts`, `ingestion-job.ts`) | the job row with its checkpoint, checkpoint rows, the attempt in a process | run, resume, stage updates, checkpoints, final status | a crash leaves an active row; failure overwrites the checkpoint; attempts by several processes | one attempt at a time; "completed" means indexed |
| Ingest pipeline (`src/ingestion`) | writes to the index | load, normalise, write document, write chunks, roll back | failure between document and chunks | no document claimed without its chunks |
| Source sync (`src/sync`, `source-sync-workflow.ts`, `source-delete-propagation.ts`) | ledger with cursor and entries, index | list, compare, propagate deletes, ingest, fill stores, save the ledger | each step may fail, and the source changes meanwhile | the ledger never claims what the index lacks; the cursor never passes a change |
| Index and vector stores (`src/indexing`) | documents, chunks, vectors | add, replace, delete | several stores updated one after the other | stores agree |
| Support bridge (`src/support-bridge`, `scripts/run-support-knowledge-flow.mjs`) | event ledger, candidate queue, approval ledger, source config: one file each | admit events, merge, queue, decide, link, write, ingest | files written one by one; repeated and conflicting events; runs that die | one payload per key; every artifact can be traced; no event lost |
| HTTP server | rate-limit windows, counters of requests, readiness | answer, drain, close | a full table of windows, shutdown | bounded admission, drain ends |
| Answering, retrieval, query, embeddings, graph, parsing, chunking, corpus, models, profiles, company, security, evals, observability, benchmarks, admin UI | little or none between calls | pipelines over data | numeric and textual decisions | outside of what a state machine says well |

How they interact: the CLI or an admin route enqueues jobs; a worker claims one, acquires a lease
per source (and per reindexed generation), calls the ingest runtime, which writes job rows and the
index, and reports to the queue. An attempt whose job row says that another is under way is
refused, unless the two read the row before either wrote it. The sync workflow lists one source, ingests what changed and records in its ledger what later
runs may skip. The support flow turns support events into approved artifacts, which production
ingestion reads as one more source. A reindex fills a candidate generation, whose promotion is
planned, evaluated and switched by separate CLI commands, over shared tables and nothing else.
There is no lock service and no transaction across statements: each statement is atomic, and
everything between two statements may interleave.

## 2. Modules

| Module | Models | Correspondence |
|---|---|---|
| `IngestionQueue` | the queue | `jobs` are the rows, `now` the clock; one operator per method of `IngestionJobQueue`, one SQL statement each. `Backend` selects the in-memory or the Postgres claim: only the latter takes over expired leases. |
| `IngestionLeases` | the lease stores | `leases` are the rows; acquire, heartbeat and release. `Backend` selects whether the holder's own unexpired lease is renewed (Postgres) or returned as it is (in-memory). |
| `IngestionWorker` | `ProductionIngestionWorker` over both | `pc` is the await `runOnce` is at. One action per statement: `ClaimJob`, `AcquireLease`/`LoseLeaseRace`, `FailOnConflict`, `FinishIngest`, `Complete`, `Fail`, `Release`; `BeatTimer` and `BeatLease` are the interval timer, whose beats may overlap. `Crash`, `StatementFails` and `LoseCompletionReply` are the faults, `Operator` the CLI commands. |
| `IngestionWorkerLiveness` | the same under fairness | adds the pace of a deployment |
| `JobLifecycle` | what the queue promises about a job | the abstract specification `IngestionWorker` implements |
| `ExclusiveRun` | what a run id promises: one attempt at a time is at work and touches the index, one that goes without a word keeps the run taken, and "completed" is said of what every store has; nothing while attempts that came to an existing run together are not over (`contended`) | the abstract specification `IngestionRun` implements: the run is taken while the row names an attempt under way, and at work is the process inside |
| `IngestionRun` | `ProductionIngestionRuntime.run`, the ingest pipeline and the embedding step, under one run id | `row` is the job row, `run[r]` what an attempt keeps in its process, `pc[r]` the await it is at; `Begin`/`Start` are the read and the write of `startIngestionJob`, between which other processes may take any steps; `contended` remembers that two of them stood there with a row each was free to take; `Throw`/`Fail` the catch block, `WriteDocument` and `WriteChunks` the two transactions of a document, `Record*` the pipeline's checkpoints. |
| `SourceSync` | the source sync workflow | `Sync` is the listing and all that `SourceSyncRunner` computes of it; then one action per delete from a store, per transaction of an ingested document and per store filled after it; `hidden` are the gone items that the filter of the request shuts out, which the stores in `Filtered` keep without an error; `SaveLedger`, `SkipSave` and `SaveFails` are what becomes of the ledger. |
| `SourceMirror` | what the sync promises: a copy taken piece by piece, and claims that follow finished copies only, or say of what the synchronisation may not see that it is gone | the abstract specification `SourceSync` implements: `Copy(i)` and `Claimed(i)` read the copy of an item off the stores and its claim off the ledger |
| `GenerationPromotion` | `IndexGenerationPromotionService` over `PostgresIndexGenerationStore`, driven by the CLI | `op` is the command each client executes and what it has read so far; one action per statement. `serial` remembers whether the commands have run one after another. |
| `SupportKnowledge` | the support knowledge flow and the ingestion of what it approves | the variables are the files; `flow` is the run in memory. `AdmitEvent` merges one event into the idempotency ledger, `Build` is the queue, the decisions, the approval ledger and the links (all in memory), the `Write*` actions are the files in the order of the script, `Ingest` reads two of them at any time. |
| `MC*` | TLC instances | |
| `IngestionQueueProofs`, `IngestionWorkerProofs`, `IngestionWorkerSafety`, `IngestionWorkerTimely`, `IngestionRunProofs`, `SourceSyncProofs`, `GenerationPromotionProofs`, `SupportKnowledgeProofs` | TLAPS proofs | |

The definitions named `X_Y` beside a definition `X` are faulty variants of it, used by the mutants
of `PROJECT.json` only.

What the models leave out, and why that is sound for the properties:

- *Lease tokens.* A worker id is one process at a time and a process never acquires a resource
  twice in one job, so the holder names the acquisition; beats still in flight when a run ends are
  dropped, because their token would no longer match. Two processes sharing a worker id are out; the
  CLI's default id, `ingestion_worker_<pid>`, is unique on one host only.
- *The statement and its clock.* A method reads no clock; the caller passes its own. `claimNext`
  and the queue heartbeat are issued in the turn that reads the clock and are modelled as executing
  then; the lease statements that follow carry the older time, as in the code. `for update skip
  locked` only makes a claim pass over a row whose statement is still running.
- *Options of the worker.* A worker without a lease store, and heartbeatIntervalMs 0, are not
  modelled. Job source ids are distinct and there is at least one. enqueue and requeue make a job
  available now.
- *Release.* `releaseLeases` sends its statements at once; they take effect in any order, and if
  one fails the others are taken as lost.
- *Promotion.* One tenant and namespace. The manifest read inside promote is merged with the read
  of the promotion, since manifests are never deleted. `previousActiveGenerationId`, `actions` and
  `archivePrevious` are stored and never read by the code. The unique index is checked row by row,
  so a switch that replaces an active generation may be refused (`PromoteRefused`).
- *Ingestion run.* A document is a number and a version of its content. What normalisation, chunking
  and validation decide is a choice: a document may be rejected at each of them. Progress rows are
  written and never read by a run. The pipeline hands the batch writer one document at a time.
- *Source sync.* A listing names an item at most once and one sync of a source runs at a time; the
  job row kept beside it is left out. Item `i` is ingested as document `i`. Which stores lose rows
  by a foreign key is the constant `Cascading`. Access control appears by what a filter does to a
  delete: the source is deleted from by requests of one principal, and those items of `Restricted`
  that it does not see are kept by the stores of `Filtered`, documents, chunks and the graph (vectors
  are deleted without a filter). The rollback of a rejected document uses the document's own scope
  and is not refused.
- *Support flow.* The operator hands each run the ledger and the queue of the run before it, and
  runs do not overlap; the npm script passes neither, so that each of its runs stands alone, which is
  the first run of the model. Redaction, summaries and the export of events are left out; an event is
  its payload, whose hash the ledger compares. An event that proposes nothing is in the module, and
  in the proofs, but not in the instance that TLC checks.

## 3. Runs

| Run | Question | Bounds |
|---|---|---|
| `worker_postgres` | Is completion fenced, are retries disciplined, does the queue implement the lifecycle, with no assumption on timing? | 2 workers, 2 jobs, 1 source, TTL 2, clock to 2 (one expiry and reclaim), 3 attempts (one beyond the limit of 2), 1 fault |
| `worker_timely` | With punctual timers: do heartbeats keep leases alive, are ingests exclusive, does every job settle? | 2 jobs over 2 sources in opposite orders, clock to 10 (several reclaims and their conflicts), ingests of at most 2 ticks, a whole TTL, so that a lease outlives its first TTL only if renewed; 1 fault |
| `worker_attempts` | *(violated)* does a job get more attempts than it may? | 1 job, 1 attempt |
| `worker_memory_lease` | *(violated)* does the in-memory store keep leases alive? | 2 jobs over 1 source, clock to 3 |
| `ingestion_run` | One attempt at a time, unless two come to an existing row together? Is what a completed run says true of every store, whatever earlier attempts and contentions that are over left behind? Does all stay as it is while the row names no attempt under way? Do run and attempts implement the exclusive task? Does every attempt run out of steps? | 2 processes, 2 documents of a source and a source without any, 2 vector stores without cascades (the harder case), 3 attempts, 1 change, 2 faults; starts interleave freely (2.5 million states up to symmetry) |
| `ingestion_resume` | *(violated)* does an attempt at a failed run resume? | the same, but 3 documents and none of the sources empty |
| `source_sync` | Is anything skipped, is the cursor ahead, does a saved ledger claim only what its run has made true, is the mirror implemented, does it converge? | 2 items, 2 post-ingest stores of which one cascades, 3 changes (an item comes, changes and goes), 2 faults; the filter of any run may shut out item 1 and never item 2, so that both cases meet in one run (129 240 states) |
| `source_sync_revisits` | *(violated)* is nothing skipped after a save was skipped, if contents come back? | the same, 1 fault, nothing shut out |
| `promotion` | One active generation, vetted switches, known candidates, nothing active that no promotion names? And, of commands run one after another: evals before the switch, no other way to become active, a served scope? | 2 clients, 2 generations, 2 promotions, 1 eval; clients die anywhere |
| `promotion_evals` | *(violated)* are the evals passed at the switch with two clients? | 2 clients, 1 promotion, 2 evals |
| `promotion_replace` | *(violated)* does a replaced plan promote its own candidate? | 1 client, 1 promotion |
| `support_knowledge` | Does the ledger only grow, is it never behind what was derived of it, is no event lost, does a conflict block the queue for good? | 3 events: two payloads of one key proposing two candidates, and another key for the first candidate; 2 events and 1 automatic decision a run, any number of runs, deaths and ingestions |

Two workers are enough for every race the queue can have, since a job has one owner at a time and
an exclusion is violated by a pair; two jobs are needed for conflicts, and sources in opposite
orders for the acquisition deadlock. In `ingestion_run` a third attempt meets what a failed and a
repeated one left, or two attempts meet at the row that the first one left. In `source_sync` two items are needed for an error of one that holds back, or
does not hold back, the other. `MaxTime`, `MaxAttempt`, `MaxAttempts`, `MaxEdits`, `MaxChanges`,
`MaxEvents` and `MaxFaults` bound the clock, the attempts, the changes, the events of a run and the
faults in the guards. Deadlock checking is off in the worker and the ingestion runs only, because a
clock at its bound with every job settled, or a row whose attempts are used up, is an end state.
The proofs of section 5 do not depend on any of the bounds.

`Timely` is the assumption under which the code can promise exclusion at all: timers fire when due
and statements take no time at the scale of a TTL. Without it an ingest may outlive its leases
(heartbeat results are ignored), and only the queue's fence is left; `worker_postgres` shows that
the fence holds then.

Fairness:

- `IngestionWorkerLiveness`: weak fairness of each worker's steps and of its restart (the
  process runs, and is run again by its scheduler while there is something to claim), and of the
  clock. The producer enqueues at the start, an ingest ends within `MaxIngest`, faults are finitely
  many. Nothing is assumed about who wins a lease.
- `SourceSync`: weak fairness of the steps of a run that has started, and strong fairness of a full
  sync, which an operator schedules and which is possible whenever no run is under way. Delta syncs
  and failures need not, and need not stop to, happen; failures are finitely many.

## 4. Where the code departs from its documents

Shown by a run:

- A reclaim after a crash is not counted against `maxAttempts` (`worker_attempts`).
- The in-memory lease store does not renew a holder's own lease (`worker_memory_lease`).
- A failing eval recorded between the check and the switch does not stop a promotion
  (`promotion_evals`).
- `--replace true` does not replace the candidate of a plan (`promotion_replace`).
- No failed run resumes: the catch block writes its own checkpoint over the one with the completed
  ids (`ingestion_resume`). Keeping the ids would not be enough: the vector stores take the documents
  of the finishing attempt only, so the resumed run would complete without the vectors of what it
  skipped, which is how the mutant of `CompletedIsIndexed` fails.
- A save that is skipped keeps the old ledger, but what the failed run has already written stays: an
  item that has gone back to the content of the ledger is then skipped by every later sync, while
  the index holds the abandoned version (`source_sync_revisits`).

Met while modelling, stated by the guards and the hypotheses of the models:

- `deploy/README.md:71` says that an already running job is rejected "so two workers do not silently
  race on the same ingest run". `startIngestionJob` reads the row and then writes it: two processes
  that both read a failed or completed row both go on. The model lets them, and remembers it in
  `contended`; without that condition `OneAttempt` fails in eleven steps, and `CompletedIsIndexed` in
  about thirty (two attempts at a completed run, one finishes, and the other's rejected chunks take a
  document out of the index while the row says "completed"). What the properties of `ingestion_run`
  say is how far this reaches: no row that names an attempt lets in another; a row that is not there
  yet lets in one of any number, because only one can insert it; and once an attempt takes the
  row with nobody else at the run, everything holds again, whatever the contention left behind.
- `docs/full-reference.md:874` says that success ledgers are skipped when delete propagation fails,
  "so later delta syncs do not silently skip work that never reached every configured index". A
  delete that the requester's filter refuses is not such a failure: `deleteDocument` and
  `deleteChunksForDocument` return `accepted: false` and the graph a count of 0, `propagateOneDocument`
  looks at errors only, and the tombstone is saved. The document stays, and later syncs pass it over.
  The model does the same (`hidden`), and without the exception `NothingSkipped` fails in fourteen
  steps: an item is ingested, goes, is shut out of the delete by the filter of the next sync, and the
  ledger with its tombstone is saved. The properties say what still holds: the stores that do not
  filter have dropped it, nothing else is skipped, and it leaves the others when it comes back and
  goes again before a run that sees it.
- A run that died leaves an active row, which nothing ever takes over: all retries of its queue job
  throw "already running". In the default mode, `reject`, an attempt after one that failed part-way
  throws on the first document that is already there.
- An item that was first listed with an error and without a record id, and then went, is an error of
  every later full sync, so that the ledger is never saved again (`Named`). An item ingested by a run
  whose ledger was not saved, and gone before the next one, stays in the index for good (`Converges`
  leaves it out).
- Nothing excludes two syncs of one source at a time, and deletes are propagated before upserts
  whatever their order in the listing; the model assumes one sync and one operation per item.
- A plan saves back the active manifest as it was read. When another client's plan has made that very
  generation a candidate in between, the save activates it again, without an eval of its own
  promotion: `SerialSwitchAfterRequiredEvals`, which says that nothing but a promotion activates,
  is false of concurrent clients. It does name a generation some promotion names (`CandidateIsKnown`).
- Support flow: `knowledge-candidate-queue.test.ts` speaks of a failed ledger that "blocks all
  promotion". It blocks new candidates (`FailedLedgerFreezesQueue`); those carried over are still
  approved and get a source config. The conflict is never cleared, so that the flow stays blocked,
  and the events of blocked runs are later taken for duplicates (`NothingSwallowed` excludes both
  this and a death between the ledger and the queue, after which the same happens). Candidates stay
  `pending_review` for ever, so that a rejected one may be approved, even automatically, by a later
  run. The approval ledger and the source config hold the last run only. An automatically approved
  artifact reaches the index marked as approved by a human, because `approvedArtifact`
  (`approval-ledger.ts:448`) drops the `autoApproved` mark the adapter reads.

## 5. Proofs

The theorems have the form `Spec => []P`, or `Spec => Abstract`, from the named assumptions on the
constants (`QueueAssumption`, `WorkerAssumption`, `RunAssumption`, `SyncAssumption`,
`PromotionAssumption`, `SupportAssumption`), which TLC also evaluates. Every safety property of a
passing run is proved.

- `IngestionQueueProofs`: what each queue operator does to the rows, as lemmas.
- `IngestionWorkerProofs`: `TypeCorrect`, one step per action.
- `IngestionWorkerSafety`: `ClaimFence`, `CompletedWasIngested` and `RetryDiscipline` are not
  inductive by themselves. `Inv` adds to them `Typed`, whose `PhaseOK` ties where a worker is to its
  claim, its leases and the loop of `acquireLeases`, and `Reported`: a worker about to report a
  completion has its attempt in the history, and the job of a worker under way exists. The argument
  first reduces every action to a `Step`: how a statement may change the jobs, the worker that sent
  it and the history (`JobsStep`, `WorkerStep`, `IngestedStep`), and then shows the invariant and
  the step-by-step refinement of `JobLifecycle` (`ImplementsTheLifecycle`) of steps alone.
- `IngestionWorkerTimely`: `LeasesStayAlive`, `SourcesExclusive` and `RunsExclusive` assume
  `Punctual` (timely, on Postgres). `TimedInv` says what a worker may rely on in each phase: while
  it acquires, every lease is as good as new, because no time passes; while it ingests, every
  expiry lies beyond the next due beat, except for a lease whose heartbeat is in flight; while it
  reports, the job is leased to it, cancelled or completed. Each action keeps this for the worker
  that takes it and leaves alone what the others rely on (`Tame`); the clock moves only past
  workers whose beats are done, so an expiry beyond the due time is beyond the next tick.
- `IngestionRunProofs`: `Placed` holds at all times, of any number of attempts at once. It says for
  each process where it is, by its own state alone (`Place`), and that a row which may be taken over
  lists no ids (`NothingToResume`, the departure above as an invariant). Each action is summarised by what it does to its own process (`Moves`),
  and `TypeCorrect`, `AttemptsNeverResume` and `AttemptsRunOut` follow. The inductive invariant of
  the rest is `IInv == Placed /\ (~ contended => Orderly)`. `Orderly` ties the row to the
  processes: whoever is inside has an active row, or is about to fail it, so the guard of `Begin`
  keeps everyone else out; and it says, for each phase of the one attempt, which documents are in
  which stores in the version it loaded, which `Finish` turns into `CompletedIsIndexed`. A contention
  begins in `Begin` only (`ContendedStep`) and is over in a `Start` after which nobody else is at the
  run (`Alone`, `TakenAlone`); the attempt that starts there has loaded and written nothing
  (`NothingInHand`), so that `Orderly` holds again whatever is in the stores. `QuietAtRest`,
  `NoTwoAttempts` and `CompletedRunsAreIndexed` follow from `IInv`, and `ImplementsTheTask` maps each
  action to one of `Take`, `Work`, `Finish`, `Fail`, `Vanish` and `Collide` of `ExclusiveRun`, to
  `Contend` while a contention lasts, or to a stutter. None of these assumes anything about who
  reads when.
- `SourceSyncProofs`: `CursorCovers` needs only that the ledger about to be saved covers its own
  cursor (`CInv`). `RunInv` adds what a run knows whatever the source does meanwhile: what it has
  finished so far is in place in each store (`InPlace`, `DerivedInPlace`, `DeletedGone`), and the claims on
  what it does not ingest are those of the saved ledger (`ClaimsKept`). From this follows
  `ClaimsFollowCopies`, for every source and every filter. `NothingSkipped` assumes `~ Revisits`, without which it is
  false: `IInv` adds that a run only works on items whose saved claim differs from the source, so
  that a copy with a true claim is left alone (`OutOfDate`), as is what is known of its being hidden
  (`DeletedAreUnclaimed`). The refinement (`ImplementsTheMirror`)
  maps each action to one of `Change`, `Work` and `Claim`, or to a stutter, by showing what it does
  to `Copy`, `Claimed` and `hidden`. `NothingIsLeft` is `NothingSkipped` without its exception, for
  deployments in which the principal of the sync sees all that it indexes (`Restricted = {}`).
- `GenerationPromotionProofs`: `OneActive` (the index guards the only statement that could add a
  second active row), `Vetted` (every pass in a row, or in what a client read of it, has been
  recorded at some time) and `CandidatesKnown` (what a plan has read as active is named by a promotion,
  and stays so, because no plan takes a candidate out of a row) hold of any number of clients.
  `ScopeServed` and `SwitchesAfterEvals` are about commands that run one after
  another: `Settled`, which holds while `serial` does, says that what a lone client has read is still
  what the rows say, so that its writes are those of an atomic command, and that a plan which has
  demoted the active generation is the only one to activate without a promotion.
- `SupportKnowledgeProofs`: the ledger in memory only grows out of the one on disk, and it is the
  first file written. `DiskOK` says that the files agree with the ledger on disk, `FlowOK` that
  what a run is about to write agrees with the ledger it has in memory and, once that is written,
  with the disk; every property follows from the two, for a death at any point.

What the proofs say is more than what a run checks in these places:

- The liveness run has a specification of its own. `LiveImplementsWorker` shows that it implements
  the worker's: pace and fairness only restrict its steps, so that every theorem about the worker holds of
  it; `LiveRunsExclusive` states the invariants of that run of it.
- `AttemptsRunOut` and `RunsEnd` give the part of termination that needs no fairness: a measure that
  every step of an attempt, or of a sync run, decreases, and a bound on it. What TLC adds for
  `Converges` is that the steps are taken. `CaughtUpIsMirrored` is the other part: once a ledger has
  caught up with the source, the stores have what the source has.
- `AttemptsNeverResume` generalises the finding of `ingestion_resume`: in no reachable state may an
  attempt start from a row that lists completed ids.

Only model-checked: liveness (`EveryJobSettles`, `Converges`), which needs fairness and ENABLED and is out
of the prover's reach, and the properties of the violated runs, which are false.

## 6. Not modelled, and what could follow

- *Processes apart from worker ids, with lease tokens*: the default id is the process id, which
  two hosts may share, and tokens are then what tells two holders of one id apart.
- *Overlapping syncs and several operations per item*: they would need the ledger store's
  read and write as separate actions of several runs.
- *HTTP server*: the table of rate-limit windows and the drain. Everything else of it maps requests.
- *In-memory store of generations*, which the program itself never creates; *ticket sync and alert delivery*,
  which send and retry payloads without state of their own; *support event exporters* and the
  operator drill.
- *Approval ledger of the graph* and graph storage.
- *For good*: text processing, scoring, prompts, provider calls, evaluation reports, the admin UI
  (see the components in `PROJECT.json`). These are most of the code, and they are pipelines over
  data without state between calls; a model of them would say nothing that a unit test does not.
