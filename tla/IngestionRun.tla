---------------------------- MODULE IngestionRun ----------------------------
(***************************************************************************)
(* One ingestion run under its run id: attempts by several processes, one  *)
(* after another or at once.  An attempt takes over the run's job row      *)
(* unless the row says that another is under way, loads the sources,       *)
(* writes document by document with a checkpoint after each, fills the     *)
(* vector stores and leaves a final status in the row.  Statements and     *)
(* adapters may fail, processes may die, and the sources change meanwhile. *)
(***************************************************************************)
EXTENDS Naturals, Sequences, FiniteSets

CONSTANTS
  Runners,         \* processes that attempt the run
  Sources,         \* the selected sources, by number
  Documents,       \* their documents, by number
  SourceOf,        \* the source of each document
  Derived,         \* the vector stores, in the order they are filled
  Cascading,       \* do vectors go with the chunks they refer to?
  OverwriteModes,  \* the modes an attempt may ask for
  MaxEdits,        \* bound: changes at the sources
  MaxAttempts,     \* bound: attempts
  MaxFaults        \* bound: failures, rejections and crashes

ASSUME RunAssumption ==
  /\ Sources \subseteq Nat /\ IsFiniteSet(Sources) /\ 0 \notin Sources
  /\ Documents \subseteq Nat /\ IsFiniteSet(Documents)
  /\ SourceOf \in [Documents -> Sources]
  /\ Derived \in Seq(STRING)
  /\ \A j, k \in DOMAIN Derived : Derived[j] = Derived[k] => j = k
  /\ \A k \in DOMAIN Derived : Derived[k] \notin {"documents", "chunks"}
  /\ Cascading \in BOOLEAN
  /\ OverwriteModes \subseteq {"reject", "replace"}
  /\ MaxEdits \in Nat /\ MaxAttempts \in Nat /\ MaxFaults \in Nat

Absent == 0                     \* no such document
Versions == 1 .. MaxEdits + 1
DerivedStores == {Derived[k] : k \in DOMAIN Derived}
Stores == {"documents", "chunks"} \cup DerivedStores

(* Mistake: the stage in which documents are written is not among them.      *)
ActiveStatuses_NoIndexing == {"queued", "loading_source", "normalizing", "embedding"}

(* The statuses that startIngestionJob takes for an attempt under way.       *)
ActiveStatuses == {"queued", "loading_source", "normalizing", "indexing", "embedding"}
Done == {"completed", "completed_with_warnings"}
Statuses == ActiveStatuses \cup Done \cup {"none", "failed"}

(* A job row: its status and the completed ids that its checkpoint lists.    *)
Rows == [status : Statuses, sources : SUBSET Sources, documents : SUBSET Documents]
Row(status, S, D) == [status |-> status, sources |-> S, documents |-> D]
NoRow == Row("none", {}, {})

NoVersions == [d \in Documents |-> Absent]

(* What an attempt keeps in its process.                                     *)
Attempts ==
  [found : Rows,                                   \* the row as it met it
   mode : {"reject", "replace"},
   sources : SUBSET Sources,                       \* completedSourceIds
   documents : SUBSET Documents,                   \* completedDocumentIds
   source : Sources \cup {0},                      \* the source in hand
   batch : SUBSET Documents,                       \* its documents yet to write
   loaded : [Documents -> Versions \cup {Absent}], \* what the adapters returned
   warned : BOOLEAN,                               \* anything rejected or missing
   stage : 1 .. Len(Derived) + 1]                  \* the vector store in turn

NoAttempt ==
  [found |-> NoRow, mode |-> "reject", sources |-> {}, documents |-> {}, source |-> 0,
   batch |-> {}, loaded |-> NoVersions, warned |-> FALSE, stage |-> 1]

VARIABLES
  origin,       \* the version of each document at its source
  edits,        \* changes so far
  row,          \* the job row
  recorded,     \* documents in the run's checkpoint rows since it last completed
  index,        \* what each store holds of each document
  pc,           \* the step of each process
  run,          \* its attempt
  report,       \* what the last attempt to finish had loaded and written
  attempts,     \* attempts so far
  faults,       \* faults so far
  contended     \* have several looked at the row at once, each free to take it?

vars == <<origin, edits, row, recorded, index, pc, run, report, attempts, faults, contended>>

(* Inside run's try block, and from the taking of the row to the last update. *)
Try == {"preparing", "loading", "writing", "chunking", "recording",
        "clearing", "filling", "finishing"}
Inside == Try \cup {"selecting", "failing"}

TypeOK ==
  /\ origin \in [Documents -> Versions \cup {Absent}]
  /\ edits \in 0 .. MaxEdits
  /\ row \in Rows
  /\ recorded \subseteq Documents
  /\ index \in [Stores -> [Documents -> Versions \cup {Absent}]]
  /\ pc \in [Runners -> {"idle", "starting"} \cup Inside]
  /\ run \in [Runners -> Attempts]
  /\ report \in [loaded : [Documents -> Versions \cup {Absent}], written : SUBSET Documents]
  /\ attempts \in 0 .. MaxAttempts
  /\ faults \in 0 .. MaxFaults
  /\ contended \in BOOLEAN

Init ==
  /\ origin = [d \in Documents |-> 1]
  /\ edits = 0
  /\ row = NoRow
  /\ recorded = {}
  /\ index = [s \in Stores |-> NoVersions]
  /\ pc = [r \in Runners |-> "idle"]
  /\ run = [r \in Runners |-> NoAttempt]
  /\ report = [loaded |-> NoVersions, written |-> {}]
  /\ attempts = 0
  /\ faults = 0
  /\ contended = FALSE
-----------------------------------------------------------------------------
Fault == faults < MaxFaults /\ faults' = faults + 1
NoFault == UNCHANGED faults

Goto(r, step) == pc' = [pc EXCEPT ![r] = step]
Stop(r) == Goto(r, "idle") /\ run' = [run EXCEPT ![r] = NoAttempt]

(* A document changes at its source, or goes.                                *)
Change(d) ==
  /\ edits < MaxEdits /\ edits' = edits + 1
  /\ \E v \in {edits + 2, Absent} : origin' = [origin EXCEPT ![d] = v]
  /\ UNCHANGED <<row, recorded, index, pc, run, report, attempts, faults, contended>>
-----------------------------------------------------------------------------
(* Taking the row.                                                           *)

(* A process about to take over a row that it has found.  One that found no   *)
(* row is none: of those only one can insert it.                             *)
Claiming(r) == pc[r] = "starting" /\ run[r].found.status # "none"
AtRun(r) == Claiming(r) \/ pc[r] \in Inside

(* Mistake: the row is not asked whether an attempt is under way.            *)
Begin_Always(r) ==
  /\ pc[r] = "idle"
  /\ attempts < MaxAttempts /\ attempts' = attempts + 1
  /\ \E m \in OverwriteModes :
       run' = [run EXCEPT ![r] = [NoAttempt EXCEPT !.found = row, !.mode = m]]
  /\ contended' = (contended \/ \E q \in Runners : Claiming(q))
  /\ Goto(r, "starting")
  /\ UNCHANGED <<origin, edits, row, recorded, index, report, faults>>

(* startIngestionJob reads the row.  An attempt that finds it in an active   *)
(* status throws "already running", which changes nothing.                   *)
Begin(r) ==
  /\ pc[r] = "idle"
  /\ attempts < MaxAttempts /\ attempts' = attempts + 1
  /\ row.status \notin ActiveStatuses
  /\ \E m \in OverwriteModes :
       run' = [run EXCEPT ![r] = [NoAttempt EXCEPT !.found = row, !.mode = m]]
  /\ contended' = (contended \/ \E q \in Runners : Claiming(q))
  /\ Goto(r, "starting")
  /\ UNCHANGED <<origin, edits, row, recorded, index, report, faults>>

(* Where an attempt picks up, given the row that it found.                   *)
IsFresh(found) == found.status \in {"none", "completed"}
ResumedSources(found) == IF IsFresh(found) THEN {} ELSE found.sources
ResumedDocuments(found) == IF IsFresh(found) THEN {} ELSE found.documents

(* Then it creates the row or, whatever the row is by now, updates it.  If   *)
(* nobody else is at the run, a contention is over.                          *)
Start(r) ==
  LET found == run[r].found IN
  /\ pc[r] = "starting"
  /\ found.status = "none" => row.status = "none"
  /\ row' = Row("queued", {}, {})
  /\ run' = [run EXCEPT ![r].sources = ResumedSources(found),
                        ![r].documents = ResumedDocuments(found)]
  /\ contended' = (contended /\ \E q \in Runners \ {r} : AtRun(q))
  /\ Goto(r, "selecting") /\ NoFault
  /\ UNCHANGED <<origin, edits, recorded, index, report, attempts>>

(* Only one insert of the row succeeds; and any statement may fail.          *)
StartThrows(r) ==
  /\ pc[r] = "starting"
  /\ IF run[r].found.status = "none" /\ row.status # "none" THEN NoFault ELSE Fault
  /\ Stop(r)
  /\ UNCHANGED <<origin, edits, row, recorded, index, report, attempts, contended>>

Resumed(r) == Row("loading_source", run[r].sources, run[r].documents)

Select(r) ==
  /\ pc[r] = "selecting"
  /\ row' = Resumed(r)
  /\ Goto(r, "preparing") /\ NoFault
  /\ UNCHANGED <<origin, edits, recorded, index, run, report, attempts, contended>>

(* Selecting sources and building adapters is outside the try block: what it *)
(* throws leaves the row as it is.                                           *)
SelectThrows(r) ==
  /\ pc[r] = "selecting" /\ Fault
  /\ row' \in {row, Resumed(r)}
  /\ Stop(r)
  /\ UNCHANGED <<origin, edits, recorded, index, report, attempts, contended>>
-----------------------------------------------------------------------------
(* The pipeline.                                                             *)

(* Checkpoints of the runner itself carry no completed ids.                  *)
Prepare(r) ==
  /\ pc[r] = "preparing"
  /\ row' = Row("normalizing", {}, {})
  /\ Goto(r, "loading") /\ NoFault
  /\ UNCHANGED <<origin, edits, recorded, index, run, report, attempts, contended>>

FirstOf(S) == CHOOSE x \in S : \A y \in S : x <= y

(* The adapter returns what the next source holds; normalization may reject  *)
(* some of it.  A completed source is not loaded, a completed document not   *)
(* written again.                                                            *)
LoadSource(r) ==
  LET source == FirstOf(Sources \ run[r].sources)
      present == {d \in Documents : SourceOf[d] = source /\ origin[d] # Absent}
  IN  /\ pc[r] = "loading" /\ run[r].sources # Sources
      /\ \E bad \in SUBSET present :
           /\ IF bad = {} THEN NoFault ELSE Fault
           /\ run' = [run EXCEPT
                ![r].source = source,
                ![r].batch = (present \ bad) \ run[r].documents,
                ![r].loaded = [d \in Documents |-> IF d \in present THEN origin[d]
                                                   ELSE run[r].loaded[d]],
                ![r].warned = run[r].warned \/ bad # {}]
      /\ Goto(r, "writing")
      /\ UNCHANGED <<origin, edits, row, recorded, index, report, attempts, contended>>

InHand(r) == FirstOf(run[r].batch)

(* More chunks than the policy allows: the document is left out.             *)
RejectDocument(r) ==
  /\ pc[r] = "writing" /\ run[r].batch # {} /\ Fault
  /\ run' = [run EXCEPT ![r].batch = run[r].batch \ {InHand(r)}, ![r].warned = TRUE]
  /\ UNCHANGED <<origin, edits, row, recorded, index, pc, report, attempts, contended>>

(* The index with a document's row written as v and its chunks dropped.      *)
Replaced(d, v) ==
  [s \in Stores |->
     IF s = "documents" THEN [index[s] EXCEPT ![d] = v]
     ELSE IF s = "chunks" \/ Cascading THEN [index[s] EXCEPT ![d] = Absent]
     ELSE index[s]]

(* addDocument, in one transaction.                                          *)
WriteDocument(r) ==
  LET d == InHand(r) IN
  /\ pc[r] = "writing" /\ run[r].batch # {}
  /\ run[r].mode = "replace" \/ index["documents"][d] = Absent
  /\ index' = Replaced(d, run[r].loaded[d])
  /\ Goto(r, "chunking") /\ NoFault
  /\ UNCHANGED <<origin, edits, row, recorded, run, report, attempts, contended>>

(* Mistake: the document is not taken off the batch.                         *)
WriteChunks_Keeps(r) ==
  LET d == InHand(r) IN
  /\ pc[r] = "chunking"
  /\ index' = [index EXCEPT !["chunks"] = [index["chunks"] EXCEPT ![d] = run[r].loaded[d]]]
  /\ run' = [run EXCEPT ![r].documents = run[r].documents \cup {d}]
  /\ Goto(r, "recording") /\ NoFault
  /\ UNCHANGED <<origin, edits, row, recorded, report, attempts, contended>>

(* addChunks, in another.                                                    *)
WriteChunks(r) ==
  LET d == InHand(r) IN
  /\ pc[r] = "chunking"
  /\ index' = [index EXCEPT !["chunks"] = [index["chunks"] EXCEPT ![d] = run[r].loaded[d]]]
  /\ run' = [run EXCEPT ![r].batch = run[r].batch \ {d},
                        ![r].documents = run[r].documents \cup {d}]
  /\ Goto(r, "recording") /\ NoFault
  /\ UNCHANGED <<origin, edits, row, recorded, report, attempts, contended>>

(* Chunks that fail validation take the document with them.                  *)
ChunksRejected(r) ==
  /\ pc[r] = "chunking" /\ Fault
  /\ index' = Replaced(InHand(r), Absent)
  /\ run' = [run EXCEPT ![r].batch = run[r].batch \ {InHand(r)}, ![r].warned = TRUE]
  /\ Goto(r, "writing")
  /\ UNCHANGED <<origin, edits, row, recorded, report, attempts, contended>>

(* onCheckpoint, after a document ...                                        *)
RecordDocument(r) ==
  /\ pc[r] = "recording"
  /\ row' = Row("indexing", run[r].sources, run[r].documents)
  /\ recorded' = recorded \cup run[r].documents
  /\ Goto(r, "writing") /\ NoFault
  /\ UNCHANGED <<origin, edits, index, run, report, attempts, contended>>

(* Mistake: the status of a source's progress is written into the job row.   *)
RecordSource_Progress(r) ==
  LET completed == run[r].sources \cup {run[r].source} IN
  /\ pc[r] = "writing" /\ run[r].batch = {}
  /\ row' = Row("loading", completed, run[r].documents)
  /\ run' = [run EXCEPT ![r].sources = completed]
  /\ Goto(r, "loading") /\ NoFault
  /\ UNCHANGED <<origin, edits, recorded, index, report, attempts, contended>>

(* ... and after a source.                                                   *)
RecordSource(r) ==
  LET completed == run[r].sources \cup {run[r].source} IN
  /\ pc[r] = "writing" /\ run[r].batch = {}
  /\ row' = Row("loading_source", completed, run[r].documents)
  /\ run' = [run EXCEPT ![r].sources = completed]
  /\ Goto(r, "loading") /\ NoFault
  /\ UNCHANGED <<origin, edits, recorded, index, report, attempts, contended>>
-----------------------------------------------------------------------------
(* The vector stores take the documents that this attempt has written.       *)

Written(r) == run[r].documents \ ResumedDocuments(run[r].found)

EndPipeline(r) ==
  /\ pc[r] = "loading" /\ run[r].sources = Sources
  /\ row' = Row("embedding", {}, {})
  /\ Goto(r, IF Written(r) = {} \/ Derived = <<>> THEN "finishing" ELSE "clearing")
  /\ NoFault
  /\ UNCHANGED <<origin, edits, recorded, index, run, report, attempts, contended>>

Store(r) == Derived[run[r].stage]

(* The index with store s holding what `value` says of the documents in D.   *)
Filled(s, D, value) ==
  [index EXCEPT ![s] = [d \in Documents |-> IF d \in D THEN value[d] ELSE index[s][d]]]

ClearStore(r) ==
  /\ pc[r] = "clearing"
  /\ index' = IF run[r].mode = "replace" THEN Filled(Store(r), Written(r), NoVersions)
              ELSE index
  /\ Goto(r, "filling") /\ NoFault
  /\ UNCHANGED <<origin, edits, row, recorded, run, report, attempts, contended>>

(* Vectors that are already there are an error unless they may be replaced.  *)
Occupied(r) == run[r].mode = "reject" /\ \E d \in Written(r) : index[Store(r)][d] # Absent

Fill(r, D) ==
  /\ pc[r] = "filling" /\ ~ Occupied(r)
  /\ index' = Filled(Store(r), D, run[r].loaded)
  /\ Goto(r, IF run[r].stage = Len(Derived) THEN "finishing" ELSE "clearing")
  /\ UNCHANGED <<origin, edits, row, recorded, report, attempts, contended>>

FillStore(r) ==
  /\ Fill(r, Written(r)) /\ NoFault
  /\ run' = [run EXCEPT ![r].stage = run[r].stage + 1]

(* An adapter that fails, or returns less than it was asked, is a warning.   *)
FillPartly(r) ==
  /\ \E D \in SUBSET Written(r) : Fill(r, D)
  /\ Fault
  /\ run' = [run EXCEPT ![r].stage = run[r].stage + 1, ![r].warned = TRUE]

(* Mistake: warnings do not show in the status.                              *)
Finish_Unwarned(r) ==
  /\ pc[r] = "finishing"
  /\ row' = Row("completed", {}, {})
  /\ report' = [loaded |-> run[r].loaded, written |-> Written(r)]
  /\ recorded' = {}
  /\ Stop(r) /\ NoFault
  /\ UNCHANGED <<origin, edits, index, attempts, contended>>

Finish(r) ==
  /\ pc[r] = "finishing"
  /\ row' = Row(IF run[r].warned THEN "completed_with_warnings" ELSE "completed", {}, {})
  /\ report' = [loaded |-> run[r].loaded, written |-> Written(r)]
  /\ recorded' = {}
  /\ Stop(r) /\ NoFault
  /\ UNCHANGED <<origin, edits, index, attempts, contended>>
-----------------------------------------------------------------------------
(* Failure.                                                                  *)

(* A document that may not be replaced makes addDocument throw.              *)
Indexed(r) ==
  /\ pc[r] = "writing" /\ run[r].batch # {} /\ run[r].mode = "reject"
  /\ index["documents"][InHand(r)] # Absent

Throw(r) ==
  /\ pc[r] \in Try
  /\ IF Indexed(r) \/ (pc[r] = "filling" /\ Occupied(r)) THEN NoFault ELSE Fault
  /\ Goto(r, "failing")
  /\ UNCHANGED <<origin, edits, row, recorded, index, run, report, attempts, contended>>

(* Mistake, and a tempting repair: the failed row keeps the last checkpoint.  *)
FailedRow_Keeps(r) == Row("failed", row.sources, row.documents)

(* The catch block writes a checkpoint of its own over the last one.         *)
FailedRow(r) == Row("failed", {}, {})

Fail(r) ==
  /\ pc[r] = "failing"
  /\ row' = FailedRow(r)
  /\ Stop(r) /\ NoFault
  /\ UNCHANGED <<origin, edits, recorded, index, report, attempts, contended>>

(* The process dies, or the catch block's own update fails.                  *)
Die(r) ==
  /\ pc[r] # "idle" /\ Fault
  /\ Stop(r)
  /\ UNCHANGED <<origin, edits, row, recorded, index, report, attempts, contended>>

Attempt(r) ==
  \/ Begin(r) \/ Start(r) \/ StartThrows(r) \/ Select(r) \/ SelectThrows(r) \/ Prepare(r)
  \/ LoadSource(r) \/ RejectDocument(r) \/ WriteDocument(r) \/ WriteChunks(r)
  \/ ChunksRejected(r) \/ RecordDocument(r) \/ RecordSource(r) \/ EndPipeline(r)
  \/ ClearStore(r) \/ FillStore(r) \/ FillPartly(r) \/ Finish(r)
  \/ Throw(r) \/ Fail(r) \/ Die(r)

Next == (\E d \in Documents : Change(d)) \/ (\E r \in Runners : Attempt(r))

Spec == Init /\ [][Next]_vars
-----------------------------------------------------------------------------
(* Properties.                                                               *)

(* No two attempts of the run are at work at once: once one has taken the    *)
(* row, its status keeps the others out through every stage, and a process   *)
(* that died or failed to say so keeps them out for good.  Only processes    *)
(* that look at a row that is there already, before one of them has taken    *)
(* it, can get in together; the first attempts at a run cannot.              *)
OneAttempt ==
  ~ contended => \A r, q \in Runners : pc[r] \in Inside /\ pc[q] \in Inside => r = q

(* What the row says of the index, taken at its word: each document that the *)
(* sources returned to the attempt that finished is there, in that version   *)
(* and in every store.  With warnings, it is so of what the attempt wrote,   *)
(* and of the vector stores nothing is said.                                 *)
Complete(d, S) == \A s \in S : index[s][d] = report.loaded[d]
Borne ==
  /\ row.status = "completed" =>
       \A d \in Documents : report.loaded[d] # Absent => Complete(d, Stores)
  /\ row.status \in Done =>
       \A d \in report.written : Complete(d, {"documents", "chunks"})

(* A run that is said to be completed is in the index, unless attempts have  *)
(* got in together since one last took it alone.  Failed attempts before     *)
(* leave no trace, and neither do contentions that are over.                 *)
CompletedIsIndexed == ~ contended => Borne

(* While the row names no attempt under way nobody works on the run: the     *)
(* stores, the checkpoints and the final status stay as they are until an    *)
(* attempt takes the row.  No late statement of an attempt that was given up *)
(* lands in what another has completed, unless they have got in together.    *)
QuietUnlessActive ==
  [][~ contended /\ row.status \notin ActiveStatuses =>
       /\ UNCHANGED <<index, recorded, report>>
       /\ row' \in {row, Row("queued", {}, {})}]_vars

(* The run implements an exclusive task whose outcome can be relied on, as   *)
(* long as attempts do not look at the row together.                         *)
Task == INSTANCE ExclusiveRun WITH
  Primary <- {"documents", "chunks"},
  state <- CASE row.status = "none" -> "open"
             [] row.status \in ActiveStatuses -> "taken"
             [] row.status = "completed_with_warnings" -> "warned"
             [] OTHER -> row.status,
  atWork <- {r \in Runners : pc[r] \in Inside}
ImplementsExclusiveRun == Task!Spec

(* The most steps an attempt has left: for each source the listing and the   *)
(* checkpoint, for each of its documents three statements, for each vector   *)
(* store two, and the statements before and after.                           *)
PerSource == 3 * Cardinality(Documents) + 2
ToLoad(n) == 2 * Len(Derived) + 3 + PerSource * n

StepsLeft(r) ==
  LET sources == Cardinality(Sources \ run[r].sources)
      batch == 3 * Cardinality(run[r].batch)
      stores == 2 * (Len(Derived) + 1 - run[r].stage)
  IN  CASE pc[r] = "idle" -> 0
        [] pc[r] = "starting" -> ToLoad(sources) + 3
        [] pc[r] = "selecting" -> ToLoad(sources) + 2
        [] pc[r] = "preparing" -> ToLoad(sources) + 1
        [] pc[r] = "loading" -> ToLoad(sources)
        [] pc[r] = "writing" -> ToLoad(sources - 1) + batch + 1
        [] pc[r] = "chunking" -> ToLoad(sources - 1) + batch
        [] pc[r] = "recording" -> ToLoad(sources - 1) + batch + 2
        [] pc[r] = "clearing" -> stores + 2
        [] pc[r] = "filling" -> stores + 1
        [] pc[r] = "finishing" -> 2
        [] pc[r] = "failing" -> 1

(* An attempt gets nearer to its end with every step, whatever it finds,     *)
(* fails or skips, and whatever other attempts do meanwhile: it never loads a *)
(* source or writes a document a second time.                                *)
StepsRunOut ==
  [][\A r \in Runners : pc[r] # "idle" /\ Attempt(r) => StepsLeft(r)' < StepsLeft(r)]_vars

(* An attempt at a failed run resumes from the documents that its earlier    *)
(* attempts have completed and checkpointed (the deployment guide's words).  *)
FailedRunResumes ==
  \A r \in Runners :
    pc[r] = "selecting" /\ run[r].found.status = "failed" => recorded \subseteq run[r].documents
=============================================================================
