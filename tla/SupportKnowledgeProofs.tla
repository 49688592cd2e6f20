----------------------- MODULE SupportKnowledgeProofs -----------------------
(***************************************************************************)
(* Proofs about the support bridge: any number of events, keys, candidates *)
(* and decisions, any bound on a run, deaths anywhere.  The invariant says *)
(* of each phase of a run how its ledger and queue in memory stand to the  *)
(* files: the ledger only grows, and it is on disk before the rest.        *)
(***************************************************************************)
EXTENDS SupportKnowledge, TLAPS

Behind(ledger, e) == ledger[KeyOf[e]].payload = e

(* An entry stands under the key of its event; an unused one is blank. *)
Keyed(ledger) ==
  \A k \in Keys :
    IF ledger[k].status = "none" THEN ledger[k] = NoEntry
    ELSE ledger[k].payload \in Events /\ KeyOf[ledger[k].payload] = k

Grown(old, new) ==
  \A k \in Keys :
    /\ old[k].status # "none" => new[k].status # "none" /\ new[k].payload = old[k].payload
    /\ old[k].status = "conflict" => new[k].status = "conflict"
    /\ old[k].outputs \subseteq new[k].outputs

Backed(ledger, queue) == \A c \in Candidates : \A e \in queue[c] : Behind(ledger, e)
Traced(ledger, artifacts) ==
  \A a \in artifacts : \A e \in a.sources :
    Behind(ledger, e) /\ Id(a) \in ledger[KeyOf[e]].outputs
Complete(ledger, queue) ==
  \A k \in Keys :
    ledger[k].status # "none" /\ TargetOf[ledger[k].payload] # NoCandidate =>
      ledger[k].payload \in queue[TargetOf[ledger[k].payload]]

Reading == flow.at = "admit"
Built == flow.at \in {"write_ledger", "write_queue", "write_approvals", "write_config"}
Written == flow.at \in {"write_queue", "write_approvals", "write_config"}
Fresh ==
  \A e \in Events :
    e \in flow.fresh <=> Behind(flow.ledger, e) /\ eventLedger[KeyOf[e]].status = "none"

DiskOK ==
  /\ Keyed(eventLedger)
  /\ Backed(eventLedger, candidateQueue)
  /\ Traced(eventLedger, approvedArtifacts \cup index)
  /\ ~ torn /\ ~ Failed(eventLedger) /\ flow.at # "write_queue" =>
       Complete(eventLedger, candidateQueue)

FlowOK ==
  /\ flow.at \in {"admit", "write_ledger"} => Grown(eventLedger, flow.ledger) /\ Keyed(flow.ledger)
  /\ Reading => Fresh
  /\ Written => eventLedger = flow.ledger
  /\ Built => Backed(flow.ledger, flow.queue) /\ Traced(flow.ledger, flow.artifacts)
  /\ flow.at \in {"write_ledger", "write_queue"} =>
       /\ ~ torn /\ ~ Failed(flow.ledger) => Complete(flow.ledger, flow.queue)
       /\ Failed(flow.ledger) => flow.queue = candidateQueue

Inv == TypeOK /\ DiskOK /\ FlowOK

-----------------------------------------------------------------------------
(* What a ledger that has grown still does. *)

LEMMA GrownKeeps ==
  ASSUME NEW old \in Ledgers, NEW new \in Ledgers, Keyed(old), Grown(old, new),
         NEW e \in Events, Behind(old, e)
  PROVE  Behind(new, e) /\ old[KeyOf[e]].outputs \subseteq new[KeyOf[e]].outputs
<1>1. KeyOf[e] \in Keys
  BY SupportAssumption DEF SupportAssumption
<1>2. old[KeyOf[e]].status # "none"
  BY <1>1, SupportAssumption DEF SupportAssumption, Keyed, Behind, NoEntry
<1>3. QED BY <1>1, <1>2 DEF Grown, Behind

LEMMA GrownBacks ==
  ASSUME NEW old \in Ledgers, NEW new \in Ledgers, Keyed(old), Grown(old, new),
         NEW queue \in Queues, Backed(old, queue)
  PROVE  Backed(new, queue)
BY GrownKeeps DEF Backed, Queues

LEMMA GrownTraces ==
  ASSUME NEW old \in Ledgers, NEW new \in Ledgers, Keyed(old), Grown(old, new),
         NEW artifacts \in SUBSET Artifact, Traced(old, artifacts)
  PROVE  Traced(new, artifacts)
<1> SUFFICES ASSUME NEW a \in artifacts, NEW e \in a.sources
             PROVE  Behind(new, e) /\ Id(a) \in new[KeyOf[e]].outputs
  BY DEF Traced
<1>1. e \in Events
  BY DEF Artifact
<1>2. QED BY <1>1, GrownKeeps DEF Traced

LEMMA GrownReflexive == ASSUME NEW ledger PROVE Grown(ledger, ledger)
BY DEF Grown

LEMMA IdleTyped == Idle \in Flow /\ Idle.at = "idle"
<1>1. NoEntry \in Entry
  BY DEF NoEntry, Entry
<1>2. QED
  BY <1>1, SupportAssumption
     DEF SupportAssumption, Idle, Flow, Ledgers, Queues, NoCandidates

LEMMA InitInv == Init => Inv
<1> SUFFICES ASSUME Init PROVE Inv
  OBVIOUS
<1>1. NoEntry \in Entry /\ NoEntry.status = "none" /\ NoEntry.payload = NoEvent
  BY DEF NoEntry, Entry
<1>2. TypeOK
  BY <1>1, IdleTyped DEF Init, TypeOK, Ledgers, Queues, NoCandidates
<1>3. DiskOK
  BY <1>1 DEF Init, DiskOK, Keyed, Backed, NoCandidates, Traced, Complete
<1>4. FlowOK
  BY IdleTyped DEF Init, FlowOK, Reading, Written, Built
<1>5. QED BY <1>2, <1>3, <1>4 DEF Inv

(* A run that ends, or dies, leaves nothing in memory. *)
LEMMA BackToIdle ==
  ASSUME Inv, DiskOK', flow' = Idle, TypeOK'
  PROVE  Inv'
BY IdleTyped DEF Inv, FlowOK, Reading, Written, Built

-----------------------------------------------------------------------------
LEMMA StartFlowStep == ASSUME Inv, StartFlow PROVE Inv'
<1>1. /\ flow' \in Flow /\ flow'.at = "admit" /\ flow'.ledger = eventLedger /\ flow'.fresh = {}
      /\ flow.at = "idle"
  BY IdleTyped DEF StartFlow, Inv, TypeOK, Flow, Idle
<1>2. UNCHANGED <<files, index, torn>>
  BY DEF StartFlow
<1>3. TypeOK'
  BY <1>1, <1>2 DEF Inv, TypeOK, files
<1>4. DiskOK'
  BY <1>1, <1>2 DEF Inv, DiskOK, files
<1>5. Fresh'
  <2> SUFFICES ASSUME NEW e \in Events PROVE ~ (Behind(eventLedger, e)
                                                 /\ eventLedger[KeyOf[e]].status = "none")
    BY <1>1, <1>2 DEF Fresh, files, Behind
  <2>1. KeyOf[e] \in Keys /\ e # NoEvent
    BY SupportAssumption DEF SupportAssumption
  <2>2. QED BY <2>1 DEF Inv, DiskOK, Keyed, Behind, NoEntry
<1>6. FlowOK'
  BY <1>1, <1>2, <1>5, GrownReflexive DEF FlowOK, Reading, Written, Built, files, Inv, DiskOK
<1>7. QED BY <1>3, <1>4, <1>6 DEF Inv

(* What merging an event does to its entry. *)
LEMMA MergedEntry ==
  ASSUME NEW entry \in Entry, NEW e \in Events, entry.status = "none" => entry = NoEntry
  PROVE  /\ Merged(entry, e) \in Entry
         /\ Merged(entry, e).status # "none"
         /\ Merged(entry, e).payload = IF entry.status = "none" THEN e ELSE entry.payload
         /\ entry.status = "conflict" => Merged(entry, e).status = "conflict"
         /\ Merged(entry, e).outputs = entry.outputs
BY DEF Merged, MergeDuplicate, MergeConflict, Entry, NoEntry

LEMMA AdmitEventStep == ASSUME Inv, NEW e \in Events, AdmitEvent(e) PROVE Inv'
<1> DEFINE k == KeyOf[e]
           entry == flow.ledger[k]
           merged == Merged(entry, e)
<1>1. /\ k \in Keys /\ flow \in Flow /\ entry \in Entry /\ flow.ledger \in Ledgers
      /\ eventLedger \in Ledgers /\ MaxEvents \in Nat /\ flow.at = "admit"
      /\ Grown(eventLedger, flow.ledger) /\ Keyed(flow.ledger) /\ Fresh
  BY SupportAssumption
     DEF SupportAssumption, Inv, TypeOK, Flow, Ledgers, AdmitEvent, FlowOK, Reading
<1>2. entry.status = "none" => entry = NoEntry
  BY <1>1 DEF Keyed
<1>3. /\ merged \in Entry /\ merged.status # "none"
      /\ merged.payload = IF entry.status = "none" THEN e ELSE entry.payload
      /\ entry.status = "conflict" => merged.status = "conflict"
      /\ merged.outputs = entry.outputs
  BY <1>1, <1>2, MergedEntry
<1> HIDE DEF merged
<1>4. flow' = [flow EXCEPT !.ledger = [flow.ledger EXCEPT ![k] = merged],
                           !.fresh = IF entry.status = "none" THEN flow.fresh \cup {e}
                                     ELSE flow.fresh,
                           !.read = flow.read + 1]
  BY <1>1 DEF AdmitEvent, merged, Flow, Ledgers
<1>5. /\ flow' \in Flow /\ flow'.at = "admit"
      /\ flow'.ledger = [flow.ledger EXCEPT ![k] = merged]
      /\ flow'.fresh = IF entry.status = "none" THEN flow.fresh \cup {e} ELSE flow.fresh
  <2>1. [flow.ledger EXCEPT ![k] = merged] \in Ledgers
    BY <1>1, <1>3 DEF Ledgers
  <2>2. flow.read + 1 \in 0..MaxEvents
    BY <1>1 DEF AdmitEvent, Flow
  <2>3. QED BY <1>1, <1>4, <2>1, <2>2 DEF Flow
<1>6. UNCHANGED <<files, index, torn>>
  BY DEF AdmitEvent
<1>7. \A j \in Keys : flow'.ledger[j] = IF j = k THEN merged ELSE flow.ledger[j]
  BY <1>1, <1>5 DEF Ledgers
<1>8. TypeOK' /\ DiskOK'
  BY <1>1, <1>5, <1>6 DEF Inv, TypeOK, DiskOK, files
<1>9. Grown(eventLedger, flow'.ledger)
  BY <1>1, <1>3, <1>7 DEF Grown
<1>10. Keyed(flow'.ledger)
  BY <1>1, <1>3, <1>7 DEF Keyed
<1>11. Fresh'
  <2>1. ASSUME NEW f \in Events
        PROVE  f \in flow'.fresh <=>
                 Behind(flow'.ledger, f) /\ eventLedger[KeyOf[f]].status = "none"
    <3>1. KeyOf[f] \in Keys /\ f # NoEvent
      BY SupportAssumption DEF SupportAssumption
    <3>2. CASE KeyOf[f] # k
      BY <1>1, <1>5, <1>7, <3>1, <3>2 DEF Fresh, Behind
    <3>3. CASE KeyOf[f] = k /\ entry.status # "none"
      BY <1>1, <1>3, <1>5, <1>7, <3>1, <3>3 DEF Fresh, Behind
    <3>4. CASE KeyOf[f] = k /\ entry.status = "none"
      <4>1. eventLedger[k].status = "none"
        BY <1>1, <3>4 DEF Grown
      <4>2. f \notin flow.fresh
        BY <1>1, <1>2, <3>1, <3>4 DEF Fresh, Behind, NoEntry
      <4>3. flow'.ledger[k].payload = e /\ flow'.fresh = flow.fresh \cup {e}
        BY <1>1, <1>3, <1>5, <1>7, <3>4
      <4>4. QED BY <3>4, <4>1, <4>2, <4>3 DEF Behind
    <3>5. QED BY <3>2, <3>3, <3>4
  <2>2. QED BY <1>6, <2>1 DEF Fresh, files, Behind
<1>12. FlowOK'
  BY <1>5, <1>6, <1>9, <1>10, <1>11 DEF FlowOK, Reading, Written, Built, files
<1>13. QED BY <1>8, <1>12 DEF Inv

-----------------------------------------------------------------------------
(* The queue of a run. *)

LEMMA QueueBacked ==
  ASSUME Inv, flow.at = "admit", NEW queue, queue = QueueOf(flow.ledger, flow.fresh)
  PROVE  /\ queue \in Queues
         /\ Backed(flow.ledger, queue)
         /\ Failed(flow.ledger) => queue = candidateQueue
         /\ ~ torn /\ ~ Failed(flow.ledger) => Complete(flow.ledger, queue)
<1>1. /\ flow.ledger \in Ledgers /\ eventLedger \in Ledgers /\ candidateQueue \in Queues
      /\ flow.fresh \subseteq Events
      /\ Grown(eventLedger, flow.ledger) /\ Keyed(flow.ledger) /\ Fresh /\ Keyed(eventLedger)
      /\ Backed(eventLedger, candidateQueue)
  BY DEF Inv, TypeOK, Flow, FlowOK, DiskOK, Reading
<1>2. Backed(flow.ledger, candidateQueue)
  BY <1>1, GrownBacks
<1>3. \A c \in Candidates :
        queue[c] = candidateQueue[c] \cup
                     IF Failed(flow.ledger) THEN {} ELSE {e \in flow.fresh : TargetOf[e] = c}
  BY DEF QueueOf
<1>4. queue \in Queues
  BY <1>1 DEF QueueOf, Queues
<1>5. Backed(flow.ledger, queue)
  BY <1>1, <1>2, <1>3 DEF Backed, Fresh
<1>6. Failed(flow.ledger) => queue = candidateQueue
  BY <1>1, <1>3, <1>4 DEF Queues
<1>7. ASSUME ~ torn, ~ Failed(flow.ledger) PROVE Complete(flow.ledger, queue)
  <2>1. ~ Failed(eventLedger)
    BY <1>1, <1>7 DEF Failed, Grown
  <2>2. Complete(eventLedger, candidateQueue)
    BY <1>7, <2>1 DEF Inv, DiskOK
  <2> SUFFICES ASSUME NEW k \in Keys, flow.ledger[k].status # "none",
                      TargetOf[flow.ledger[k].payload] # NoCandidate
               PROVE  flow.ledger[k].payload \in queue[TargetOf[flow.ledger[k].payload]]
    BY DEF Complete
  <2>3. PICK e \in Events : e = flow.ledger[k].payload /\ KeyOf[e] = k
    BY <1>1 DEF Keyed
  <2>4. TargetOf[e] \in Candidates
    BY <2>3, SupportAssumption DEF SupportAssumption
  <2>5. CASE eventLedger[k].status # "none"
    <3>1. eventLedger[k].payload = e
      BY <1>1, <2>3, <2>5 DEF Grown
    <3>2. e \in candidateQueue[TargetOf[e]]
      BY <2>2, <2>3, <2>4, <2>5, <3>1 DEF Complete
    <3>3. QED BY <1>3, <2>3, <2>4, <3>2
  <2>6. CASE eventLedger[k].status = "none"
    <3>1. e \in flow.fresh
      BY <1>1, <2>3, <2>6 DEF Fresh, Behind
    <3>2. QED BY <1>3, <1>7, <2>3, <2>4, <3>1
  <2>7. QED BY <2>5, <2>6
<1>8. QED BY <1>4, <1>5, <1>6, <1>7

LEMMA ArtifactsTyped ==
  ASSUME NEW queue \in Queues, NEW verdict \in [Candidates -> Verdicts],
         NEW decision \in [Candidates -> DecisionIds], NEW auto \in SUBSET Candidates
  PROVE  /\ ArtifactsOf(queue, verdict, decision, auto) \subseteq Artifact
         /\ \A a \in ArtifactsOf(queue, verdict, decision, auto) :
              a.sources = queue[a.candidate] /\ a.candidate \in Candidates
BY DEF ArtifactsOf, Artifact, Queues

LEMMA LinkedLedger ==
  ASSUME NEW ledger \in Ledgers, NEW fresh, NEW artifacts \in SUBSET Artifact
  PROVE  /\ Linked(ledger, fresh, artifacts) \in Ledgers
         /\ \A k \in Keys :
              /\ Linked(ledger, fresh, artifacts)[k].status = ledger[k].status
              /\ Linked(ledger, fresh, artifacts)[k].payload = ledger[k].payload
              /\ ledger[k].outputs \subseteq Linked(ledger, fresh, artifacts)[k].outputs
         /\ \A k \in Keys : \A a \in artifacts :
              (\E e \in a.sources : KeyOf[e] = k) =>
                Id(a) \in Linked(ledger, fresh, artifacts)[k].outputs
         /\ \A k \in Keys :
              (\A a \in artifacts : \A e \in a.sources : KeyOf[e] # k) =>
                Linked(ledger, fresh, artifacts)[k] = ledger[k]
<1> DEFINE links(k) == {Id(a) : a \in {b \in artifacts : \E e \in b.sources : KeyOf[e] = k}}
           new == Linked(ledger, fresh, artifacts)
<1>1. \A k \in Keys : links(k) \subseteq ArtifactIds
  BY DEF Artifact, Id, ArtifactIds
<1>2. \A k \in Keys : new[k] = [ledger[k] EXCEPT !.outputs = ledger[k].outputs \cup links(k)]
  BY DEF Linked, Ledgers, Entry
<1>3. \A k \in Keys : /\ new[k] \in Entry /\ new[k].status = ledger[k].status
                      /\ new[k].payload = ledger[k].payload
                      /\ new[k].outputs = ledger[k].outputs \cup links(k)
  <2> HIDE DEF links, new
  <2> TAKE k \in Keys
  <2>1. ledger[k] \in Entry /\ links(k) \subseteq ArtifactIds
    BY <1>1 DEF Ledgers
  <2>2. PICK outputs : outputs = ledger[k].outputs \cup links(k)
    OBVIOUS
  <2>3. outputs \subseteq ArtifactIds
    BY <2>1, <2>2 DEF Entry
  <2>4. new[k] = [ledger[k] EXCEPT !.outputs = outputs]
    BY <1>2, <2>2
  <2>5. QED BY <2>1, <2>2, <2>3, <2>4 DEF Entry
<1>4. new \in Ledgers
  BY <1>3 DEF Linked, Ledgers
<1>5. \A k \in Keys : \A a \in artifacts :
        (\E e \in a.sources : KeyOf[e] = k) => Id(a) \in links(k)
  OBVIOUS
<1>6. ASSUME NEW k \in Keys, \A a \in artifacts : \A e \in a.sources : KeyOf[e] # k
      PROVE  new[k] = ledger[k]
  <2>1. links(k) = {}
    BY <1>6
  <2>2. QED BY <1>2, <2>1 DEF Ledgers, Entry
<1> HIDE DEF links
<1>7. QED BY <1>3, <1>4, <1>5, <1>6

LEMMA BuildStep == ASSUME Inv, Build PROVE Inv'
<1>1. PICK queue : queue = QueueOf(flow.ledger, flow.fresh)
  OBVIOUS
<1>2. PICK verdict \in [Candidates -> Verdicts], decision \in [Candidates -> DecisionIds],
           auto \in SUBSET Candidates :
        flow' = [flow EXCEPT !.at = "write_ledger",
                   !.ledger = Linked(@, flow.fresh, ArtifactsOf(queue, verdict, decision, auto)),
                   !.queue = queue, !.artifacts = ArtifactsOf(queue, verdict, decision, auto)]
  BY <1>1 DEF Build
<1>3. PICK artifacts : artifacts = ArtifactsOf(queue, verdict, decision, auto)
  OBVIOUS
<1>4. PICK new : new = Linked(flow.ledger, flow.fresh, artifacts)
  OBVIOUS
<1>5. /\ flow.at = "admit" /\ flow \in Flow /\ flow.ledger \in Ledgers /\ eventLedger \in Ledgers
      /\ Grown(eventLedger, flow.ledger) /\ Keyed(flow.ledger)
      /\ UNCHANGED <<files, index, torn>>
  BY DEF Build, Inv, TypeOK, Flow, FlowOK
<1>6. /\ queue \in Queues /\ Backed(flow.ledger, queue)
      /\ Failed(flow.ledger) => queue = candidateQueue
      /\ ~ torn /\ ~ Failed(flow.ledger) => Complete(flow.ledger, queue)
  BY <1>1, <1>5, QueueBacked
<1>7. /\ artifacts \subseteq Artifact
      /\ \A a \in artifacts : a.sources = queue[a.candidate] /\ a.candidate \in Candidates
  BY <1>3, <1>6, ArtifactsTyped
<1>8. /\ new \in Ledgers
      /\ \A k \in Keys : new[k].status = flow.ledger[k].status
                         /\ new[k].payload = flow.ledger[k].payload
                         /\ flow.ledger[k].outputs \subseteq new[k].outputs
      /\ \A k \in Keys : \A a \in artifacts :
           (\E e \in a.sources : KeyOf[e] = k) => Id(a) \in new[k].outputs
      /\ \A k \in Keys :
           (\A a \in artifacts : \A e \in a.sources : KeyOf[e] # k) => new[k] = flow.ledger[k]
  BY <1>4, <1>5, <1>7, LinkedLedger
<1>9. /\ flow' \in Flow /\ flow'.at = "write_ledger" /\ flow'.ledger = new
      /\ flow'.queue = queue /\ flow'.artifacts = artifacts
  BY <1>2, <1>3, <1>4, <1>5, <1>6, <1>7, <1>8 DEF Flow
<1>10. TypeOK' /\ DiskOK'
  BY <1>5, <1>9 DEF Inv, TypeOK, DiskOK, files
<1>11. Grown(eventLedger, new) /\ (Failed(new) <=> Failed(flow.ledger))
  BY <1>5, <1>8 DEF Grown, Failed
<1>12. \A e \in Events : Behind(new, e) <=> Behind(flow.ledger, e)
  BY <1>8, SupportAssumption DEF SupportAssumption, Behind
<1>13. \A c \in Candidates : queue[c] \subseteq Events
  BY <1>6 DEF Queues
<1>14. Keyed(new)
  <2> SUFFICES ASSUME NEW k \in Keys
               PROVE  IF new[k].status = "none" THEN new[k] = NoEntry
                      ELSE new[k].payload \in Events /\ KeyOf[new[k].payload] = k
    BY DEF Keyed
  <2>1. CASE flow.ledger[k].status # "none"
    BY <1>5, <1>8, <2>1 DEF Keyed
  <2>2. CASE flow.ledger[k].status = "none"
    <3>1. flow.ledger[k] = NoEntry
      BY <1>5, <2>2 DEF Keyed
    <3>2. \A a \in artifacts : \A e \in a.sources : KeyOf[e] # k
      BY <1>6, <1>7, <1>13, <3>1, SupportAssumption
         DEF Backed, Behind, NoEntry, SupportAssumption
    <3>3. QED BY <1>8, <2>2, <3>1, <3>2
  <2>3. QED BY <2>1, <2>2
<1>15. Backed(new, queue)
  BY <1>6, <1>12, <1>13 DEF Backed
<1>16. Traced(new, artifacts)
  <2> SUFFICES ASSUME NEW a \in artifacts, NEW e \in a.sources
               PROVE  Behind(new, e) /\ Id(a) \in new[KeyOf[e]].outputs
    BY DEF Traced
  <2>1. e \in Events /\ Behind(new, e)
    BY <1>7, <1>13, <1>15 DEF Backed
  <2>2. KeyOf[e] \in Keys
    BY <2>1, SupportAssumption DEF SupportAssumption
  <2>3. QED BY <1>8, <2>1, <2>2
<1>17. Complete(flow.ledger, queue) => Complete(new, queue)
  BY <1>8 DEF Complete
<1>18. FlowOK'
  BY <1>5, <1>6, <1>9, <1>11, <1>14, <1>15, <1>16, <1>17
     DEF FlowOK, Reading, Written, Built, files
<1>19. QED BY <1>10, <1>18 DEF Inv

-----------------------------------------------------------------------------
(* The writes. *)

LEMMA WriteLedgerStep == ASSUME Inv, WriteLedger PROVE Inv'
<1>1. /\ flow.at = "write_ledger" /\ eventLedger' = flow.ledger
      /\ UNCHANGED <<candidateQueue, approvedArtifacts, sourcesConfig, index, torn>>
      /\ flow \in Flow /\ flow' = [flow EXCEPT !.at = "write_queue"]
  BY DEF WriteLedger, Inv, TypeOK
<1>2. /\ flow' \in Flow /\ flow'.at = "write_queue" /\ flow'.ledger = flow.ledger
      /\ flow'.queue = flow.queue /\ flow'.artifacts = flow.artifacts
      /\ flow.ledger \in Ledgers
  BY <1>1 DEF Flow
<1>3. TypeOK'
  BY <1>1, <1>2 DEF Inv, TypeOK
<1>4. /\ Grown(eventLedger, flow.ledger) /\ Keyed(flow.ledger) /\ Keyed(eventLedger)
      /\ eventLedger \in Ledgers /\ candidateQueue \in Queues
      /\ approvedArtifacts \cup index \in SUBSET Artifact
      /\ Backed(eventLedger, candidateQueue) /\ Traced(eventLedger, approvedArtifacts \cup index)
  BY <1>1 DEF Inv, FlowOK, DiskOK, TypeOK
<1>5. Backed(flow.ledger, candidateQueue) /\ Traced(flow.ledger, approvedArtifacts \cup index)
  BY <1>2, <1>4, GrownBacks, GrownTraces
<1>6. DiskOK'
  BY <1>1, <1>2, <1>4, <1>5 DEF DiskOK
<1>7. FlowOK'
  BY <1>1, <1>2 DEF Inv, FlowOK, Reading, Written, Built
<1>8. QED BY <1>3, <1>6, <1>7 DEF Inv

LEMMA WriteQueueStep == ASSUME Inv, WriteQueue PROVE Inv'
<1>1. /\ flow.at = "write_queue" /\ candidateQueue' = flow.queue
      /\ UNCHANGED <<eventLedger, approvedArtifacts, sourcesConfig, index, torn>>
      /\ flow \in Flow /\ flow' = [flow EXCEPT !.at = "write_approvals"]
  BY DEF WriteQueue, Inv, TypeOK
<1>2. /\ flow' \in Flow /\ flow'.at = "write_approvals" /\ flow'.ledger = flow.ledger
      /\ flow'.queue = flow.queue /\ flow'.artifacts = flow.artifacts /\ flow.queue \in Queues
  BY <1>1 DEF Flow
<1>3. TypeOK'
  BY <1>1, <1>2 DEF Inv, TypeOK
<1>4. /\ eventLedger = flow.ledger /\ Backed(flow.ledger, flow.queue)
      /\ ~ torn /\ ~ Failed(flow.ledger) => Complete(flow.ledger, flow.queue)
  BY <1>1 DEF Inv, FlowOK, Written, Built
<1>5. DiskOK'
  BY <1>1, <1>2, <1>4 DEF Inv, DiskOK
<1>6. FlowOK'
  BY <1>1, <1>2 DEF Inv, FlowOK, Reading, Written, Built
<1>7. QED BY <1>3, <1>5, <1>6 DEF Inv

LEMMA WriteApprovalsStep == ASSUME Inv, WriteApprovals PROVE Inv'
<1>1. /\ flow.at = "write_approvals" /\ approvedArtifacts' = flow.artifacts
      /\ UNCHANGED <<eventLedger, candidateQueue, sourcesConfig, index, torn>>
      /\ flow \in Flow /\ flow' = [flow EXCEPT !.at = "write_config"]
  BY DEF WriteApprovals, Inv, TypeOK
<1>2. /\ flow' \in Flow /\ flow'.at = "write_config" /\ flow'.ledger = flow.ledger
      /\ flow'.queue = flow.queue /\ flow'.artifacts = flow.artifacts
      /\ flow.artifacts \subseteq Artifact
  BY <1>1 DEF Flow
<1>3. TypeOK'
  BY <1>1, <1>2 DEF Inv, TypeOK
<1>4. eventLedger = flow.ledger /\ Traced(flow.ledger, flow.artifacts)
  BY <1>1 DEF Inv, FlowOK, Written, Built
<1>5. Traced(eventLedger, flow.artifacts \cup index)
  BY <1>4 DEF Inv, DiskOK, Traced
<1>6. DiskOK'
  BY <1>1, <1>2, <1>5 DEF Inv, DiskOK
<1>7. FlowOK'
  BY <1>1, <1>2 DEF Inv, FlowOK, Reading, Written, Built
<1>8. QED BY <1>3, <1>6, <1>7 DEF Inv

LEMMA WriteConfigStep == ASSUME Inv, WriteConfig PROVE Inv'
<1>1. /\ flow.at = "write_config" /\ flow' = Idle
      /\ sourcesConfig' \subseteq {Id(a) : a \in flow.artifacts}
      /\ UNCHANGED <<eventLedger, candidateQueue, approvedArtifacts, index, torn>>
  BY DEF WriteConfig
<1>2. sourcesConfig' \subseteq ArtifactIds
  BY <1>1 DEF Inv, TypeOK, Flow, Artifact, Id, ArtifactIds
<1>3. TypeOK'
  BY <1>1, <1>2, IdleTyped DEF Inv, TypeOK
<1>4. DiskOK'
  BY <1>1, IdleTyped DEF Inv, DiskOK
<1>5. QED BY <1>1, <1>3, <1>4, BackToIdle

LEMMA DieStep == ASSUME Inv, Die PROVE Inv'
<1>1. flow' = Idle /\ torn' = (torn \/ flow.at = "write_queue") /\ UNCHANGED <<files, index>>
  BY DEF Die
<1>2. TypeOK'
  BY <1>1, IdleTyped DEF Inv, TypeOK, files
<1>3. DiskOK'
  BY <1>1, IdleTyped DEF Inv, DiskOK, files
<1>4. QED BY <1>1, <1>2, <1>3, BackToIdle

LEMMA IngestStep == ASSUME Inv, Ingest PROVE Inv'
<1>1. index' \subseteq approvedArtifacts \cup index /\ UNCHANGED <<files, flow, torn>>
  BY DEF Ingest
<1>2. TypeOK'
  BY <1>1 DEF Inv, TypeOK, files
<1>3. Traced(eventLedger, approvedArtifacts \cup index')
  BY <1>1 DEF Inv, DiskOK, Traced
<1>4. DiskOK'
  BY <1>1, <1>3 DEF Inv, DiskOK, files
<1>5. FlowOK'
  BY <1>1 DEF Inv, FlowOK, Reading, Written, Built, Fresh, files, Behind, Grown, Keyed, Backed,
              Traced, Complete, Failed
<1>6. QED BY <1>2, <1>4, <1>5 DEF Inv

LEMMA StepInv == Inv /\ [Next]_vars => Inv'
<1> SUFFICES ASSUME Inv, [Next]_vars PROVE Inv'
  OBVIOUS
<1>1. CASE UNCHANGED vars
  <2>1. TypeOK' /\ DiskOK'
    BY <1>1 DEF vars, Inv, TypeOK, DiskOK
  <2>2. FlowOK'
    BY <1>1 DEF vars, Inv, FlowOK, Reading, Written, Built, Fresh, Behind
  <2>3. QED BY <2>1, <2>2 DEF Inv
<1>2. QED
  BY <1>1, StartFlowStep, AdmitEventStep, BuildStep, WriteLedgerStep, WriteQueueStep,
     WriteApprovalsStep, WriteConfigStep, DieStep, IngestStep DEF Next

LEMMA Invariance == Spec => []Inv
<1>1. QED BY InitInv, StepInv, PTL DEF Spec

-----------------------------------------------------------------------------
(* Every file, the index and the run in memory keep their types. *)
THEOREM TypeCorrect == Spec => []TypeOK
<1>1. Inv => TypeOK
  BY DEF Inv
<1>2. QED BY <1>1, Invariance, PTL

(* One idempotency key never brings two payloads into the knowledge base. *)
THEOREM OnePayloadPerKey == Spec => []SourcesMatchLedger
<1>1. Inv => SourcesMatchLedger
  BY DEF Inv, DiskOK, SourcesMatchLedger, FirstPayload, Backed, Traced, Behind
<1>2. QED BY <1>1, Invariance, PTL

(* The ledger on disk leads from the event to what came of it. *)
THEOREM EveryArtifactTraced == Spec => []ArtifactsTraced
<1>1. Inv => ArtifactsTraced
  BY DEF Inv, DiskOK, ArtifactsTraced, Traced
<1>2. QED BY <1>1, Invariance, PTL

(* What the ledger takes for handled is in the queue. *)
THEOREM NoEventSwallowed == Spec => []NothingSwallowed
<1>1. Inv => NothingSwallowed
  BY DEF Inv, DiskOK, NothingSwallowed, Complete
<1>2. QED BY <1>1, Invariance, PTL

(* Only WriteLedger touches the ledger, and what it writes has grown. *)
THEOREM LedgerGrows == Spec => LedgerOnlyGrows
<1>1. ASSUME Inv, [Next]_vars PROVE Grown(eventLedger, eventLedger')
  <2>1. CASE WriteLedger
    BY <1>1, <2>1 DEF WriteLedger, Inv, FlowOK
  <2>2. CASE ~ WriteLedger
    <3>1. eventLedger' = eventLedger
      BY <1>1, <2>2 DEF Next, vars, StartFlow, AdmitEvent, Build, WriteQueue, WriteApprovals,
                        WriteConfig, Die, Ingest, files
    <3>2. QED BY <3>1, GrownReflexive
  <2>3. QED BY <2>1, <2>2
<1>2. Inv /\ [Next]_vars =>
        [\A k \in Keys :
           /\ eventLedger[k].status # "none" => eventLedger'[k].payload = eventLedger[k].payload
           /\ eventLedger[k].status = "conflict" => eventLedger'[k].status = "conflict"
           /\ eventLedger[k].outputs \subseteq eventLedger'[k].outputs]_vars
  BY <1>1 DEF Grown
<1>3. QED BY <1>2, Invariance, PTL DEF Spec, LedgerOnlyGrows

(* Only WriteQueue touches the queue, and with a failed ledger it writes back *)
(* what it found.                                                             *)
THEOREM FailureFreezesQueue == Spec => FailedLedgerFreezesQueue
<1>1. ASSUME Inv, [Next]_vars, Failed(eventLedger) PROVE candidateQueue' = candidateQueue
  <2>1. CASE WriteQueue
    BY <1>1, <2>1 DEF WriteQueue, Inv, FlowOK, Written
  <2>2. CASE ~ WriteQueue
    BY <1>1, <2>2 DEF Next, vars, StartFlow, AdmitEvent, Build, WriteLedger, WriteApprovals,
                      WriteConfig, Die, Ingest, files
  <2>3. QED BY <2>1, <2>2
<1>2. Inv /\ [Next]_vars =>
        [Failed(eventLedger) =>
           \A c \in Candidates : candidateQueue'[c] \subseteq candidateQueue[c]]_vars
  BY <1>1
<1>3. QED BY <1>2, Invariance, PTL DEF Spec, FailedLedgerFreezesQueue
=============================================================================
