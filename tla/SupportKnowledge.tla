-------------------------- MODULE SupportKnowledge --------------------------
(***************************************************************************)
(* The support bridge: scripts/run-support-knowledge-flow.mjs over         *)
(* src/src/support-bridge.  A run reads support events, the event ledger   *)
(* and the candidate queue of the run before it, and a reviewer's          *)
(* decisions; it decides everything in memory and then writes one file     *)
(* after another, each of them whole (writeJson renames).  Production      *)
(* ingestion reads two of the files whenever it runs.  The operator hands  *)
(* every run both files of the run before; runs do not overlap.            *)
(***************************************************************************)
EXTENDS Naturals, FiniteSets

CONSTANTS
  Events,         \* what an event says: its payload
  Keys,           \* idempotency keys; the event id is derived from the key
  Candidates,     \* candidate keys
  NoEvent, NoCandidate,
  KeyOf,          \* the key of each event
  TargetOf,       \* the candidate an event proposes, or NoCandidate
  AutoApprovable, \* the candidates the automatic policy allows
  DecisionIds,    \* ids of a reviewer's decisions
  AutoDecision,   \* stands for auto_support_sync_<candidate id>
  MaxEvents,      \* bound: events of one run
  MaxDecisions,   \* maxDecisions of the automatic policy
  MayDie          \* TRUE: a run may die between two writes

ASSUME SupportAssumption ==
  /\ KeyOf \in [Events -> Keys]
  /\ TargetOf \in [Events -> Candidates \cup {NoCandidate}]
  /\ NoEvent \notin Events /\ NoCandidate \notin Candidates
  /\ AutoApprovable \subseteq Candidates
  /\ AutoDecision \notin DecisionIds
  /\ MaxEvents \in Nat /\ MaxDecisions \in Nat
  /\ MayDie \in BOOLEAN

VARIABLES
  eventLedger,       \* event-ledger.json
  candidateQueue,    \* candidate-queue.json: the events behind each candidate
  approvedArtifacts, \* approval-ledger.json
  sourcesConfig,     \* approved-knowledge.sources.json: artifact ids
  index,             \* the approved artifacts that ingestion has indexed
  flow,              \* the run under way
  torn               \* history: a run died with its ledger written, its queue not

vars == <<eventLedger, candidateQueue, approvedArtifacts, sourcesConfig, index, flow, torn>>
files == <<eventLedger, candidateQueue, approvedArtifacts, sourcesConfig>>

ArtifactIds == Candidates \X (DecisionIds \cup {AutoDecision})
Artifact ==
  [candidate: Candidates, decision: DecisionIds \cup {AutoDecision}, sources: SUBSET Events]
Id(artifact) == <<artifact.candidate, artifact.decision>>

Entry ==
  [payload: Events \cup {NoEvent}, status: {"none", "processable", "duplicate", "conflict"},
   outputs: SUBSET ArtifactIds]
NoEntry == [payload |-> NoEvent, status |-> "none", outputs |-> {}]

Ledgers == [Keys -> Entry]
Queues == [Candidates -> SUBSET Events]
NoCandidates == [c \in Candidates |-> {}]

Flow ==
  [at: {"idle", "admit", "write_ledger", "write_queue", "write_approvals", "write_config"},
   ledger: Ledgers, fresh: SUBSET Events, queue: Queues,
   artifacts: SUBSET Artifact, read: 0..MaxEvents]
Idle ==
  [at |-> "idle", ledger |-> [k \in Keys |-> NoEntry], fresh |-> {},
   queue |-> NoCandidates, artifacts |-> {}, read |-> 0]

Init ==
  /\ eventLedger = [k \in Keys |-> NoEntry]
  /\ candidateQueue = NoCandidates
  /\ approvedArtifacts = {}
  /\ sourcesConfig = {}
  /\ index = {}
  /\ flow = Idle
  /\ torn = FALSE

-----------------------------------------------------------------------------
(* buildRagSupportEventIdempotencyLedger: one event after another *)

StartFlow ==
  /\ flow.at = "idle"
  /\ flow' = [Idle EXCEPT !.at = "admit", !.ledger = eventLedger]
  /\ UNCHANGED <<files, index, torn>>

(* Mistakes: a duplicate that follows a conflict hides it; a conflicting      *)
(* payload replaces the first one; the entry gets the status of the ledger.   *)
MergeDuplicate_HidesConflict(entry) == [entry EXCEPT !.status = "duplicate"]
MergeConflict_Replaces(entry, e) ==
  [entry EXCEPT !.payload = e, !.status = "conflict"]
MergeConflict_LedgerStatus(entry, e) == [entry EXCEPT !.status = "failed"]

MergeDuplicate(entry) ==
  [entry EXCEPT !.status = IF @ = "conflict" THEN "conflict" ELSE "duplicate"]
MergeConflict(entry, e) == [entry EXCEPT !.status = "conflict"]

Merged(entry, e) ==
  IF entry.status = "none" THEN [payload |-> e, status |-> "processable", outputs |-> {}]
  ELSE IF entry.payload = e THEN MergeDuplicate(entry)
  ELSE MergeConflict(entry, e)

AdmitEvent(e) ==
  LET entry == flow.ledger[KeyOf[e]] IN
  /\ flow.at = "admit"
  /\ flow.read < MaxEvents
  /\ flow' = [flow EXCEPT !.ledger[KeyOf[e]] = Merged(@, e),
                          !.fresh = IF entry.status = "none" THEN @ \cup {e} ELSE @,
                          !.read = @ + 1]
  /\ UNCHANGED <<files, index, torn>>

Failed(ledger) == \E k \in Keys : ledger[k].status = "conflict"

-----------------------------------------------------------------------------
(* buildRagSupportKnowledgeCandidateQueue.  Candidates of the run before are  *)
(* carried over: nothing ever takes them out of pending_review.               *)

(* Mistakes: a failed ledger is not looked at; a candidate that is proposed   *)
(* again is written over.                                                     *)
QueueOf_AnyLedger(ledger, fresh) ==
  [c \in Candidates |-> candidateQueue[c] \cup {e \in fresh : TargetOf[e] = c}]
QueueOf_Overwrites(ledger, fresh) ==
  [c \in Candidates |->
     LET proposed == {e \in fresh : TargetOf[e] = c} IN
     IF Failed(ledger) \/ proposed = {} THEN candidateQueue[c] ELSE proposed]

QueueOf(ledger, fresh) ==
  [c \in Candidates |->
     candidateQueue[c] \cup
       IF Failed(ledger) THEN {} ELSE {e \in fresh : TargetOf[e] = c}]

(* What decisions.jsonl holds about a candidate: "invalid" is a decision that *)
(* names no reviewer or has no summary.                                       *)
Verdicts == {"none", "approve", "decline", "invalid"}

(* buildRagSupportAutoApprovalDecisions: any decision that was handed in,     *)
(* even one that is not accepted, keeps a candidate out.                      *)
Eligible(queue, verdict) ==
  {c \in AutoApprovable : queue[c] # {} /\ verdict[c] = "none"}
AutoApproved(queue, verdict, auto) ==
  /\ auto \subseteq Eligible(queue, verdict)
  /\ IF Cardinality(Eligible(queue, verdict)) <= MaxDecisions
     THEN auto = Eligible(queue, verdict)
     ELSE Cardinality(auto) = MaxDecisions

(* buildRagSupportKnowledgeApprovalLedger: a decision counts for a candidate  *)
(* of the queue only.                                                         *)
ArtifactsOf(queue, verdict, decision, auto) ==
  {[candidate |-> c, decision |-> decision[c], sources |-> queue[c]] :
     c \in {d \in Candidates : queue[d] # {} /\ verdict[d] = "approve"}}
  \cup {[candidate |-> c, decision |-> AutoDecision, sources |-> queue[c]] : c \in auto}

(* Mistake: only this run's events are linked to what came of them. *)
Linked_FreshOnly(ledger, fresh, artifacts) ==
  [k \in Keys |->
     [ledger[k] EXCEPT !.outputs = @ \cup
        {Id(a) : a \in {b \in artifacts : \E e \in b.sources \cap fresh : KeyOf[e] = k}}]]

(* linkEventLedgerOutputs *)
Linked(ledger, fresh, artifacts) ==
  [k \in Keys |->
     [ledger[k] EXCEPT !.outputs = @ \cup
        {Id(a) : a \in {b \in artifacts : \E e \in b.sources : KeyOf[e] = k}}]]

(* runRagSupportKnowledgeFlow after the ledger: a blocked queue stops neither *)
(* decisions nor artifacts of the candidates it carries over.                 *)
Build ==
  LET queue == QueueOf(flow.ledger, flow.fresh) IN
  /\ flow.at = "admit"
  /\ \E verdict \in [Candidates -> Verdicts], decision \in [Candidates -> DecisionIds],
        auto \in SUBSET Candidates, policyEnabled \in BOOLEAN :
       /\ IF policyEnabled THEN AutoApproved(queue, verdict, auto) ELSE auto = {}
       /\ LET artifacts == ArtifactsOf(queue, verdict, decision, auto) IN
          flow' = [flow EXCEPT !.at = "write_ledger",
                               !.ledger = Linked(@, flow.fresh, artifacts),
                               !.queue = queue, !.artifacts = artifacts]
  /\ UNCHANGED <<files, index, torn>>

-----------------------------------------------------------------------------
(* writeSupportKnowledgeFlowArtifacts *)

WriteLedger ==
  /\ flow.at = "write_ledger"
  /\ eventLedger' = flow.ledger
  /\ flow' = [flow EXCEPT !.at = "write_queue"]
  /\ UNCHANGED <<candidateQueue, approvedArtifacts, sourcesConfig, index, torn>>

WriteQueue ==
  /\ flow.at = "write_queue"
  /\ candidateQueue' = flow.queue
  /\ flow' = [flow EXCEPT !.at = "write_approvals"]
  /\ UNCHANGED <<eventLedger, approvedArtifacts, sourcesConfig, index, torn>>

WriteApprovals ==
  /\ flow.at = "write_approvals"
  /\ approvedArtifacts' = flow.artifacts
  /\ flow' = [flow EXCEPT !.at = "write_config"]
  /\ UNCHANGED <<eventLedger, candidateQueue, sourcesConfig, index, torn>>

WriteConfig ==
  /\ flow.at = "write_config"
  /\ \E enabled \in BOOLEAN :
       sourcesConfig' = IF enabled THEN {Id(a) : a \in flow.artifacts} ELSE {}
  /\ flow' = Idle
  /\ UNCHANGED <<eventLedger, candidateQueue, approvedArtifacts, index, torn>>

(* The process dies, or a write throws. *)
Die ==
  /\ MayDie
  /\ flow.at # "idle"
  /\ flow' = Idle
  /\ torn' = (torn \/ flow.at = "write_queue")
  /\ UNCHANGED <<files, index>>

(* Production ingestion: the artifacts of the approval ledger that the source *)
(* config names, all of them or those it gets to; an artifact that was        *)
(* indexed before is replaced.                                                *)
Ingest ==
  /\ \E loaded \in SUBSET {a \in approvedArtifacts : Id(a) \in sourcesConfig} :
       index' = {a \in index : \A b \in loaded : Id(a) # Id(b)} \cup loaded
  /\ UNCHANGED <<files, flow, torn>>

Next ==
  \/ StartFlow
  \/ \E e \in Events : AdmitEvent(e)
  \/ Build
  \/ WriteLedger \/ WriteQueue \/ WriteApprovals \/ WriteConfig
  \/ Die
  \/ Ingest

Spec == Init /\ [][Next]_vars

-----------------------------------------------------------------------------
TypeOK ==
  /\ eventLedger \in Ledgers
  /\ candidateQueue \in Queues
  /\ approvedArtifacts \subseteq Artifact
  /\ sourcesConfig \subseteq ArtifactIds
  /\ index \subseteq Artifact
  /\ flow \in Flow
  /\ torn \in BOOLEAN

(* One idempotency key never brings two payloads into the knowledge base:     *)
(* whatever stands behind a candidate, an approved artifact or an indexed one *)
(* is the payload that the ledger on disk has for its key, in every order of  *)
(* deliveries, deaths and ingestions.                                         *)
FirstPayload(e) == eventLedger[KeyOf[e]].payload = e
SourcesMatchLedger ==
  /\ \A c \in Candidates : \A e \in candidateQueue[c] : FirstPayload(e)
  /\ \A a \in approvedArtifacts \cup index : \A e \in a.sources : FirstPayload(e)

(* "linked approved artifact ids": from the entry of each event behind an     *)
(* artifact, approved or indexed, the ledger on disk leads to it, although    *)
(* the files are written one by one and the events were seen in earlier runs. *)
ArtifactsTraced ==
  \A a \in approvedArtifacts \cup index : \A e \in a.sources :
    Id(a) \in eventLedger[KeyOf[e]].outputs

(* The ledger on disk only grows: a key keeps its payload, a conflict is not  *)
(* forgotten, and no link to an artifact is lost, whatever is delivered again.*)
LedgerOnlyGrows ==
  [][\A k \in Keys :
       /\ eventLedger[k].status # "none" => eventLedger'[k].payload = eventLedger[k].payload
       /\ eventLedger[k].status = "conflict" => eventLedger'[k].status = "conflict"
       /\ eventLedger[k].outputs \subseteq eventLedger'[k].outputs]_vars

(* "blocks all promotion when the source ledger fails", as far as it is so:   *)
(* once a conflict is on disk no event ever enters the queue any more.        *)
FailedLedgerFreezesQueue ==
  [][Failed(eventLedger) =>
       \A c \in Candidates : candidateQueue'[c] \subseteq candidateQueue[c]]_vars

(* An event that the ledger takes for handled, so that a later delivery is    *)
(* only a duplicate, is behind its candidate in the queue: unless a conflict  *)
(* blocks the queue, a run is between the two writes, or one died there.      *)
NothingSwallowed ==
  ~ torn /\ ~ Failed(eventLedger) /\ flow.at # "write_queue" =>
    \A k \in Keys :
      LET e == eventLedger[k].payload IN
      eventLedger[k].status # "none" /\ TargetOf[e] # NoCandidate =>
        e \in candidateQueue[TargetOf[e]]
=============================================================================
