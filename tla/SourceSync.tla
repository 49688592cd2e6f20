----------------------------- MODULE SourceSync -----------------------------
(***************************************************************************)
(* The source sync workflow: a connector lists what changed at a source,   *)
(* the sync runner compares the listing with the ledger of the last run,   *)
(* deletes are propagated to every index, changed records are ingested and *)
(* post-processed, and the new ledger is saved if all of that went well.   *)
(* Any step may fail and the process may die anywhere; syncs of one source *)
(* do not overlap, so the ledger a run has read is the ledger of the store.*)
(***************************************************************************)
EXTENDS Naturals, Sequences, FiniteSets

CONSTANTS
  Items,        \* source items, by number; item i is ingested as document i
  Derived,      \* the configured post-ingest stores, in the order they are filled
  Cascading,    \* stores whose rows go with the chunk or document they refer to
  Named,        \* items for which deletes and errors carry the record id
  Restricted,   \* items that the access filter of a request may shut out
  Filtered,     \* stores that delete only what the filter lets through
  Revisits,     \* may an item return to a content, or return at all?
  MaxChanges,   \* bound: changes at the source
  MaxFaults     \* bound: failures and crashes

ASSUME SyncAssumption ==
  /\ Items \subseteq Nat /\ IsFiniteSet(Items)
  /\ Derived \in Seq(STRING)
  /\ \A k \in DOMAIN Derived : Derived[k] \notin {"documents", "chunks"}
  /\ Cascading \in SUBSET STRING /\ "documents" \notin Cascading
  /\ Named \subseteq Items /\ Restricted \subseteq Items
  /\ Filtered \in SUBSET STRING /\ {"documents", "chunks"} \subseteq Filtered
  /\ Revisits \in BOOLEAN
  /\ MaxChanges \in Nat /\ MaxFaults \in Nat

Absent == 0                          \* an item that is not at the source
Contents == 1 .. MaxChanges
DerivedStores == {Derived[k] : k \in DOMAIN Derived}
Stores == {"documents", "chunks"} \cup DerivedStores

(* The order in which a deleted document leaves the stores.                  *)
DeleteOrder == Derived \o <<"chunks", "documents">>

VARIABLES
  origin,       \* the content of each item at the source
  history,      \* the contents it has had
  changed,      \* when it last changed
  clock,        \* the number of changes so far
  ledger,       \* the saved sync ledger
  index,        \* what each store holds for each item, as contents
  pc,           \* the step of the run
  next,         \* the ledger the run will save
  deletes,      \* items whose documents it has yet to delete
  hidden,       \* items shut out of their last delete by the filter of its run
  step,         \* where in DeleteOrder it is with the next of them
  records,      \* items whose records the listing returned as changed
  pending,      \* those it has yet to ingest
  writing,      \* the one whose document is written and whose chunks are not
  accepted,     \* those it has ingested
  stage,        \* the post-ingest store it fills next
  clean,        \* has every step so far succeeded?
  faults        \* the failures so far

source == <<origin, history, changed, clock>>
local == <<next, deletes, hidden, step, records, pending, writing, accepted, stage, clean>>
vars == <<source, ledger, index, pc, local, faults>>

NoCursor == MaxChanges + 1

NoEntry == [status |-> "none", content |-> Absent, record |-> FALSE]
EmptyLedger == [cursor |-> NoCursor, entries |-> [i \in Items |-> NoEntry]]

Entries == [status : {"none", "active", "deleted", "failed"},
            content : Contents \cup {Absent}, record : BOOLEAN]
Ledgers == [cursor : 0 .. NoCursor, entries : [Items -> Entries]]

TypeOK ==
  /\ origin \in [Items -> Contents \cup {Absent}]
  /\ history \in [Items -> SUBSET Contents]
  /\ changed \in [Items -> 0 .. MaxChanges]
  /\ clock \in 0 .. MaxChanges
  /\ ledger \in Ledgers /\ next \in Ledgers
  /\ index \in [Stores -> [Items -> SUBSET Contents]]
  /\ pc \in {"idle", "deleting", "ingesting", "chunking", "post", "saving"}
  /\ deletes \subseteq Items /\ hidden \subseteq Restricted /\ records \subseteq Items
  /\ pending \subseteq Items /\ writing \subseteq Items /\ accepted \subseteq Items
  /\ step \in DOMAIN DeleteOrder
  /\ stage \in 1 .. Len(Derived) + 1
  /\ clean \in BOOLEAN
  /\ faults \in 0 .. MaxFaults

Init ==
  /\ origin = [i \in Items |-> Absent]
  /\ history = [i \in Items |-> {}]
  /\ changed = [i \in Items |-> 0]
  /\ clock = 0
  /\ ledger = EmptyLedger
  /\ index = [s \in Stores |-> [i \in Items |-> {}]]
  /\ pc = "idle"
  /\ next = EmptyLedger
  /\ deletes = {} /\ hidden = {} /\ step = 1
  /\ records = {} /\ pending = {} /\ writing = {} /\ accepted = {}
  /\ stage = 1 /\ clean = TRUE
  /\ faults = 0
-----------------------------------------------------------------------------
(* The source, outside of the program.                                       *)

Touch(i) ==
  /\ clock < MaxChanges
  /\ clock' = clock + 1
  /\ changed' = [changed EXCEPT ![i] = clock + 1]
  /\ UNCHANGED <<ledger, index, pc, local, faults>>

Edit(i) ==
  /\ Touch(i)
  /\ Revisits \/ origin[i] # Absent \/ history[i] = {}
  /\ \E c \in {clock + 1} \cup (IF Revisits THEN history[i] \ {origin[i]} ELSE {}) :
       /\ origin' = [origin EXCEPT ![i] = c]
       /\ history' = [history EXCEPT ![i] = @ \cup {c}]

Remove(i) ==
  /\ Touch(i)
  /\ origin[i] # Absent
  /\ origin' = [origin EXCEPT ![i] = Absent]
  /\ UNCHANGED history
-----------------------------------------------------------------------------
(* What a listing makes of one item, given the entry of the last ledger.     *)

UpsertEntry(i) == [status |-> "active", content |-> origin[i], record |-> TRUE]

DeleteEntry(i, previous) ==
  [status |-> "deleted", content |-> previous.content,
   record |-> previous.record \/ i \in Named]

(* Mistake: a failed item keeps its entry, although the cursor moves on.     *)
ErrorEntry_Keeps(i, previous) == previous

ErrorEntry(i, previous) ==
  [status |-> "failed", content |-> previous.content,
   record |-> previous.record \/ i \in Named]

TombstoneEntry(previous) == [previous EXCEPT !.status = "deleted"]

(* Mistake: every listed item counts as changed.                             *)
UpsertChanged_Always(i, previous) == TRUE

UpsertChanged(i, previous) ==
  \/ previous.status # "active"
  \/ previous.content # origin[i]

(* With a cursor, a delta lists what changed after it.                       *)
Listed(mode) ==
  IF mode = "full" \/ ledger.cursor = NoCursor
    THEN {i \in Items : origin[i] # Absent}
    ELSE {i \in Items : changed[i] > ledger.cursor}

(* Mistake: items that failed last time are not tombstoned.                  *)
Missing_Active(mode, listed) ==
  {i \in Items \ listed : mode = "full" /\ ledger.entries[i].status = "active"}

(* On a complete full listing every other item of the ledger is gone.        *)
Missing(mode, listed) ==
  {i \in Items \ listed :
     mode = "full" /\ ledger.entries[i].status \notin {"none", "deleted"}}

NextEntry(i, mode, listed, errors) ==
  LET previous == ledger.entries[i]
  IN  IF i \in errors THEN ErrorEntry(i, previous)
      ELSE IF i \in listed
             THEN IF origin[i] # Absent THEN UpsertEntry(i) ELSE DeleteEntry(i, previous)
      ELSE IF i \in Missing(mode, listed) THEN TombstoneEntry(previous)
      ELSE previous

ReturnedRecords(listed) ==
  {i \in listed : origin[i] # Absent /\ UpsertChanged(i, ledger.entries[i])}

DeletedItems(mode, listed, errors) ==
  {i \in listed \ errors : origin[i] = Absent /\ ledger.entries[i].status # "deleted"}
    \cup Missing(mode, listed)

(* Mistake: the ledger is saved before the post-ingest stores are filled.    *)
After_SkipsPost(d, p, a) ==
  IF d # {} THEN "deleting" ELSE IF p # {} THEN "ingesting" ELSE "saving"

(* Which step comes once d is left to delete, p to ingest and a is accepted. *)
After(d, p, a) ==
  IF d # {} THEN "deleting"
  ELSE IF p # {} THEN "ingesting"
  ELSE IF a # {} /\ Derived # <<>> THEN "post"
  ELSE "saving"
-----------------------------------------------------------------------------
(* The run.  A failure counts against the bound.                             *)

Fault == faults < MaxFaults /\ faults' = faults + 1
NoFault == UNCHANGED faults

(* The connector's listing, and all that is computed from it.  An item may   *)
(* be listed with an error instead.  The filter comes with the request.      *)
Sync(mode) ==
  /\ pc = "idle"
  /\ LET listed == Listed(mode) IN
     \E errors \in SUBSET listed :
       LET gone == DeletedItems(mode, listed, errors)
           entries == [i \in Items |-> NextEntry(i, mode, listed, errors)]
           known == {i \in gone : entries[i].record}
           changes == ReturnedRecords(listed \ errors)
       IN  /\ IF errors = {} THEN NoFault ELSE Fault
           /\ next' = [cursor |-> clock, entries |-> entries]
           /\ deletes' = known
           /\ \E shut \in SUBSET (known \cap Restricted) : hidden' = (hidden \ known) \cup shut
           /\ records' = changes /\ pending' = changes
           /\ clean' = (gone = known)
           /\ pc' = After(known, changes, {})
  /\ writing' = {} /\ accepted' = {} /\ step' = 1 /\ stage' = 1
  /\ UNCHANGED <<source, ledger, index>>

(* The connector throws: the ledger is saved again, its cursor unchanged.    *)
ConnectorFails ==
  /\ pc = "idle" /\ Fault
  /\ next' = ledger
  /\ deletes' = {} /\ records' = {} /\ pending' = {} /\ writing' = {} /\ accepted' = {}
  /\ step' = 1 /\ stage' = 1 /\ clean' = TRUE
  /\ pc' = "saving"
  /\ UNCHANGED <<source, ledger, index, hidden>>

(* What removing an item from a store leaves in the others.                  *)
Without(s, i) ==
  LET removed == {s} \cup (IF s \in {"documents", "chunks"} THEN Cascading ELSE {})
  IN  [t \in Stores |-> IF t \in removed THEN [index[t] EXCEPT ![i] = {}] ELSE index[t]]

(* Documents are deleted in the order of their ids, each from one store      *)
(* after the other.                                                          *)
FirstOf(S) == CHOOSE i \in S : \A j \in S : i <= j

(* Mistake: the next document starts where the last one ended.               *)
NextDelete_NoReset ==
  LET left == IF step = Len(DeleteOrder) THEN deletes \ {FirstOf(deletes)} ELSE deletes
  IN  /\ deletes' = left
      /\ step' = step + 1
      /\ pc' = After(left, pending, accepted)
      /\ UNCHANGED <<source, ledger, next, hidden, records, pending, writing, accepted, stage>>

NextDelete ==
  LET left == IF step = Len(DeleteOrder) THEN deletes \ {FirstOf(deletes)} ELSE deletes
  IN  /\ deletes' = left
      /\ step' = IF step = Len(DeleteOrder) THEN 1 ELSE step + 1
      /\ pc' = After(left, pending, accepted)
      /\ UNCHANGED <<source, ledger, next, hidden, records, pending, writing, accepted, stage>>

(* A store that filters its deletes keeps what the filter shuts out.  Its    *)
(* result says so and nobody looks at it: the item counts as deleted.        *)
DeleteStep ==
  LET i == FirstOf(deletes)
      s == DeleteOrder[step]
  IN  /\ pc = "deleting"
      /\ index' = IF i \in hidden /\ s \in Filtered THEN index ELSE Without(s, i)
      /\ NextDelete
      /\ NoFault /\ UNCHANGED clean

(* A failed delete is noted and the next store is tried.                     *)
DeleteFails ==
  /\ pc = "deleting" /\ Fault
  /\ NextDelete
  /\ clean' = FALSE /\ UNCHANGED index

Content(i) == next.entries[i].content

(* A record is rejected before it reaches a store.                           *)
RejectRecord(i) ==
  /\ pc = "ingesting" /\ i \in pending /\ Fault
  /\ pending' = pending \ {i}
  /\ clean' = FALSE
  /\ pc' = After({}, pending \ {i}, accepted)
  /\ UNCHANGED <<source, ledger, index, next, deletes, hidden, step, records, writing, accepted,
                 stage>>

(* The document is written in one transaction, which drops the old chunks,   *)
(* and its chunks in another.                                                *)
WriteDocument(i) ==
  /\ pc = "ingesting" /\ i \in pending /\ NoFault
  /\ index' = [Without("chunks", i) EXCEPT !["documents"][i] = {Content(i)}]
  /\ pending' = pending \ {i} /\ writing' = {i}
  /\ pc' = "chunking"
  /\ UNCHANGED <<source, ledger, next, deletes, hidden, step, records, accepted, stage, clean>>

WriteChunks(i) ==
  /\ pc = "chunking" /\ i \in writing /\ NoFault
  /\ index' = [index EXCEPT !["chunks"][i] = {Content(i)}]
  /\ accepted' = accepted \cup {i} /\ writing' = {}
  /\ pc' = After({}, pending, accepted \cup {i})
  /\ UNCHANGED <<source, ledger, next, deletes, hidden, step, records, pending, stage, clean>>

(* Chunks that fail validation take the document with them, whether it is    *)
(* new or has replaced an older one.                                         *)
ChunksRejected(i) ==
  /\ pc = "chunking" /\ i \in writing /\ Fault
  /\ index' = Without("documents", i)
  /\ writing' = {} /\ clean' = FALSE
  /\ pc' = After({}, pending, accepted)
  /\ UNCHANGED <<source, ledger, next, deletes, hidden, step, records, pending, accepted, stage>>

(* An ingest that throws is given up where it is, post-ingest steps included. *)
IngestThrows ==
  /\ pc \in {"ingesting", "chunking"} /\ Fault
  /\ pending' = {} /\ writing' = {} /\ accepted' = {} /\ clean' = FALSE
  /\ pc' = "saving"
  /\ UNCHANGED <<source, ledger, index, next, deletes, hidden, step, records, stage>>

(* A post-ingest store takes all accepted documents or, with a warning, some. *)
Fill(done) ==
  LET s == Derived[stage]
  IN  /\ pc = "post"
      /\ index' = [index EXCEPT ![s] = [i \in Items |->
                     IF i \in done THEN index[s][i] \cup {Content(i)} ELSE index[s][i]]]
      /\ stage' = stage + 1
      /\ pc' = IF stage = Len(Derived) THEN "saving" ELSE "post"
      /\ UNCHANGED <<source, ledger, next, deletes, hidden, step, records, pending, writing,
                     accepted>>

FillStore == Fill(accepted) /\ NoFault /\ UNCHANGED clean

FillFails == \E done \in SUBSET accepted : Fill(done) /\ Fault /\ clean' = FALSE

(* Mistake: failed deletes and post-ingest steps do not count.               *)
ShouldSaveLedger_Ingested == records \subseteq accepted

ShouldSaveLedger == clean /\ records \subseteq accepted

Finish ==
  /\ pc = "saving" /\ pc' = "idle"
  /\ UNCHANGED <<source, index, local>>

SaveLedger == Finish /\ ShouldSaveLedger /\ ledger' = next /\ NoFault
SkipSave   == Finish /\ ~ ShouldSaveLedger /\ UNCHANGED ledger /\ NoFault
SaveFails  == Finish /\ ShouldSaveLedger /\ UNCHANGED ledger /\ Fault

(* The process dies, or a statement of the job store throws, which run does   *)
(* not catch.                                                                *)
Die ==
  /\ pc # "idle" /\ Fault
  /\ pc' = "idle"
  /\ UNCHANGED <<source, ledger, index, local>>

Advance ==
  \/ DeleteStep
  \/ \E i \in Items : WriteDocument(i) \/ WriteChunks(i)
  \/ FillStore \/ SaveLedger \/ SkipSave

Next ==
  \/ \E i \in Items : Edit(i) \/ Remove(i)
  \/ \E mode \in {"full", "delta"} : Sync(mode)
  \/ Advance
  \/ ConnectorFails \/ DeleteFails \/ IngestThrows \/ FillFails \/ SaveFails \/ Die
  \/ \E i \in Items : RejectRecord(i) \/ ChunksRejected(i)

Spec == Init /\ [][Next]_vars

(* A run that has started goes on, and full syncs are run again and again.   *)
FairSpec == Spec /\ WF_vars(Advance) /\ SF_vars(Sync("full"))
-----------------------------------------------------------------------------
(* Properties.                                                               *)

(* An item's copy: its content if every store holds that, Absent if none     *)
(* holds anything.                                                           *)
Partial == MaxChanges + 1
Complete(i, c) ==
  /\ index["documents"][i] = {c} /\ index["chunks"][i] = {c}
  /\ \A s \in DerivedStores : c \in index[s][i]
Gone(i) == \A s \in Stores : index[s][i] = {}
Copy(i) ==
  IF Gone(i) THEN Absent
  ELSE IF \E c \in Contents : Complete(i, c)
         THEN CHOOSE c \in Contents : Complete(i, c)
  ELSE Partial

(* Left to be removed is only what the filter of its delete has shut out.    *)
RemovedFrom(s, i) == index[s][i] = {} \/ (i \in hidden /\ s \in Filtered)
Removed(i) == \A s \in Stores : RemovedFrom(s, i)

(* What the saved ledger claims of an item.                                  *)
Unclaimed == MaxChanges + 2
Claimed(i) ==
  LET entry == ledger.entries[i]
  IN  CASE entry.status = "active" -> entry.content
        [] entry.status = "deleted" -> Absent
        [] OTHER -> Unclaimed

(* No change is silently skipped: an item that is at the source as the ledger *)
(* has it, so that every later sync will pass over it, is complete in every   *)
(* configured store, and one that the ledger and the source agree to be       *)
(* deleted has left all of them, whatever failed or died in earlier runs; but *)
(* for the stores that filter deletes, if it was shut out of its own.         *)
NothingSkipped ==
  \A i \in Items : Claimed(i) = origin[i] =>
    IF origin[i] = Absent THEN Removed(i) ELSE Copy(i) = origin[i]

(* What the reference says a skipped save is for: when deletes, ingest or a   *)
(* post-ingest step have failed, the old ledger makes later syncs take up     *)
(* again what did not reach every index.                                      *)
SkippedSaveSkipsNothing == [][SkipSave => NothingSkipped']_vars

(* The cursor is never ahead of the entries: a change it covers, which no     *)
(* later delta will list, has reached its entry, unless the entry asks for a  *)
(* retry.  An item that came and went in between needs no entry.              *)
CursorCovers ==
  ledger.cursor # NoCursor =>
    \A i \in Items :
      changed[i] <= ledger.cursor =>
        \/ ledger.entries[i].status = "failed"
        \/ Claimed(i) = origin[i]
        \/ ledger.entries[i].status = "none" /\ origin[i] = Absent

(* A ledger is only saved with claims its run has made true: one that is new  *)
(* is of a copy that every store has, or of an item that has left all those   *)
(* it was not shut out of, whatever happened to the source and to other items *)
(* since the listing.                                                         *)
ClaimsFollow ==
  \A i \in Items : Claimed(i)' # Claimed(i) =>
    \/ Claimed(i)' \in {Copy(i)', Unclaimed}
    \/ Claimed(i)' = Absent /\ Removed(i)'
SavedClaimsAreCopies == [][ClaimsFollow]_vars

(* The workflow implements the mirror: claims only follow finished copies and *)
(* removals, and no run touches the copy of an item whose claim is up to date. *)
Mirror == INSTANCE SourceMirror WITH
  seen <- [i \in Items |-> history[i] \cup {Absent}],
  copy <- [i \in Items |-> Copy(i)],
  claimed <- [i \in Items |-> Claimed(i)]
ImplementsMirror == Mirror!Spec

(* Once the source is quiet and nothing fails any more, full syncs bring      *)
(* every item it holds into every store, failed and rejected ones included,   *)
(* and whatever the ledger knows of that has left it out of those that it is  *)
(* not shut out of.                                                           *)
Converges ==
  \A i \in Items :
    <>[](IF origin[i] # Absent THEN Complete(i, origin[i])
         ELSE ledger.entries[i].status # "none" => Removed(i))
=============================================================================
