------------------------- MODULE IngestionRunProofs -------------------------
(***************************************************************************)
(* Proofs about an ingestion run, for any number of processes, sources,    *)
(* documents and vector stores, and any failures.  Whether or not attempts *)
(* contend for the row, none resumes and each comes to an end.  Unless     *)
(* they do, one at a time is at work, a run said to be completed is in the *)
(* index, and the run implements an exclusive task; and all of that is so  *)
(* again once an attempt takes the run with nobody else at it.             *)
(***************************************************************************)
EXTENDS IngestionRun, WellFoundedInduction, FiniteSetTheorems, TLAPS

(* Only one process is at the run.  While it is to take over the row, that   *)
(* is as it has met it and says that no attempt is under way; from then on   *)
(* the row says that one is.                                                 *)
Exclusive ==
  /\ \A r, q \in Runners : AtRun(r) /\ AtRun(q) => r = q
  /\ \A r \in Runners :
       /\ Claiming(r) => run[r].found = row /\ row.status \notin ActiveStatuses
       /\ pc[r] \in Inside => row.status \in ActiveStatuses

(* A row that lets an attempt in lists nothing to resume from, and so no     *)
(* attempt resumes.                                                          *)
NothingToResume ==
  /\ row.status \notin ActiveStatuses => row.sources = {} /\ row.documents = {}
  /\ \A r \in Runners : run[r].found.sources = {} /\ run[r].found.documents = {}

(* What an attempt knows of its documents: those it has written are in the   *)
(* index as it loaded them, and without a warning those it has loaded are    *)
(* written or in hand.                                                       *)
Progress(r) ==
  LET a == run[r]
      known == a.documents \cup a.batch
  IN  /\ a.documents \cap a.batch = {}
      /\ \A d \in known : a.loaded[d] # Absent
      /\ \A d \in Documents : a.loaded[d] # Absent => SourceOf[d] \in a.sources \cup {a.source}
      /\ ~ a.warned => \A d \in Documents : a.loaded[d] # Absent => d \in known
      /\ \A d \in a.documents :
           index["documents"][d] = a.loaded[d] /\ index["chunks"][d] = a.loaded[d]

(* Where it is, by its own state alone.                                      *)
Place(r) ==
  LET a == run[r]
  IN  /\ pc[r] \in {"idle", "starting", "selecting", "preparing"} =>
           /\ a.sources = {} /\ a.documents = {} /\ a.batch = {} /\ a.source = 0
           /\ a.loaded = NoVersions
      /\ pc[r] \in {"loading", "clearing", "filling", "finishing"} =>
           a.batch = {} /\ a.source \in a.sources \cup {0}
      /\ pc[r] \in {"writing", "chunking", "recording"} => a.source \in Sources \ a.sources
      /\ pc[r] = "chunking" => a.batch # {}
      /\ pc[r] \notin {"clearing", "filling", "finishing", "failing"} => a.stage = 1
      /\ pc[r] \in {"clearing", "filling"} => a.stage \in DOMAIN Derived
      /\ pc[r] = "finishing" => a.documents = {} \/ a.stage = Len(Derived) + 1

(* What holds of attempts that contend as well.                              *)
Placed == TypeOK /\ NothingToResume /\ \A r \in Runners : Place(r)

(* The document whose chunks are next has been written.                      *)
InHandWritten(r) ==
  pc[r] = "chunking" => index["documents"][InHand(r)] = run[r].loaded[InHand(r)]

(* Without a warning, the vector stores before the one in turn are filled.   *)
VectorsInPlace(r) ==
  pc[r] \in {"clearing", "filling", "finishing"} /\ ~ run[r].warned =>
    \A k \in DOMAIN Derived : k < run[r].stage =>
      \A d \in run[r].documents : index[Derived[k]][d] = run[r].loaded[d]

(* What holds unless they contend.                                           *)
Orderly ==
  /\ Placed /\ Exclusive
  /\ \A r \in Runners : Progress(r) /\ InHandWritten(r) /\ VectorsInPlace(r)
  /\ Borne

IInv == Placed /\ (~ contended => Orderly)
-----------------------------------------------------------------------------
LEMMA FirstOfIsIn ==
  ASSUME NEW S \in SUBSET Nat, S # {}
  PROVE  FirstOf(S) \in S
<1> DEFINE LessThan == {p \in Nat \X Nat : p[1] < p[2]}
<1>1. IsWellFoundedOn(LessThan, Nat)
  BY NatLessThanWellFounded, Zenon DEF OpToRel
<1>2. \A x, y \in S : <<y, x>> \notin LessThan => x <= y
  OBVIOUS
<1> HIDE DEF LessThan
<1>3. PICK x \in S : \A y \in S : <<y, x>> \notin LessThan
  BY <1>1, WFMin
<1>4. \A y \in S : x <= y
  BY <1>2, <1>3
<1>5. QED BY <1>4 DEF FirstOf

LEMMA NoAttemptTyped == NoAttempt \in Attempts
BY RunAssumption DEF NoAttempt, Attempts, NoRow, Row, Rows, Statuses, NoVersions

LEMMA NextSourceIsOne ==
  ASSUME TypeOK, NEW r \in Runners, run[r].sources # Sources
  PROVE  FirstOf(Sources \ run[r].sources) \in Sources \ run[r].sources
<1>1. run[r].sources \subseteq Sources
  BY DEF TypeOK, Attempts
<1>2. QED BY <1>1, FirstOfIsIn, RunAssumption

LEMMA InHandIsOne ==
  ASSUME TypeOK, NEW r \in Runners, run[r].batch # {}
  PROVE  InHand(r) \in run[r].batch /\ InHand(r) \in Documents
<1>1. run[r].batch \subseteq Documents
  BY DEF TypeOK, Attempts
<1>2. QED BY <1>1, FirstOfIsIn, RunAssumption DEF InHand
-----------------------------------------------------------------------------
(* Types.                                                                    *)

LEMMA RowsTyped ==
  ASSUME NEW s \in Statuses, NEW S \in SUBSET Sources, NEW D \in SUBSET Documents
  PROVE  Row(s, S, D) \in Rows
BY DEF Row, Rows

LEMMA ReplacedTyped ==
  ASSUME TypeOK, NEW d \in Documents, NEW v \in Versions \cup {Absent}
  PROVE  Replaced(d, v) \in [Stores -> [Documents -> Versions \cup {Absent}]]
BY DEF Replaced, TypeOK

LEMMA FilledTyped ==
  ASSUME TypeOK, NEW s \in Stores, NEW D,
         NEW value \in [Documents -> Versions \cup {Absent}]
  PROVE  Filled(s, D, value) \in [Stores -> [Documents -> Versions \cup {Absent}]]
BY DEF Filled, TypeOK

LEMMA TypedInit == Init => TypeOK
<1> SUFFICES ASSUME Init PROVE TypeOK
  OBVIOUS
<1>1. NoVersions \in [Documents -> Versions \cup {Absent}] /\ NoRow \in Rows
  BY DEF NoVersions, NoRow, Row, Rows, Statuses
<1>2. origin \in [Documents -> Versions \cup {Absent}]
  BY RunAssumption DEF Init, Versions
<1>3. /\ index \in [Stores -> [Documents -> Versions \cup {Absent}]]
      /\ pc \in [Runners -> {"idle", "starting"} \cup Inside] /\ run \in [Runners -> Attempts]
      /\ report \in [loaded : [Documents -> Versions \cup {Absent}], written : SUBSET Documents]
  BY <1>1, NoAttemptTyped DEF Init
<1>4. /\ edits \in 0 .. MaxEdits /\ attempts \in 0 .. MaxAttempts /\ faults \in 0 .. MaxFaults
      /\ row \in Rows /\ recorded \subseteq Documents /\ contended \in BOOLEAN
  <2>1. /\ edits = 0 /\ attempts = 0 /\ faults = 0 /\ row = NoRow /\ recorded = {}
        /\ contended = FALSE
    BY DEF Init
  <2>2. MaxEdits \in Nat /\ MaxAttempts \in Nat /\ MaxFaults \in Nat
    BY RunAssumption
  <2>3. contended \in BOOLEAN
    BY <2>1
  <2>4. QED BY <1>1, <2>1, <2>2, <2>3
<1>5. QED BY <1>2, <1>3, <1>4 DEF TypeOK

LEMMA TypedStep ==
  ASSUME TypeOK, NEW r \in Runners, Attempt(r), Place(r)
  PROVE  TypeOK'
<1> USE RunAssumption
<1>0. run \in [Runners -> Attempts] /\ run[r] \in Attempts
  BY DEF TypeOK
<1>1. CASE Begin(r)
  <2>1. PICK m \in OverwriteModes :
          run' = [run EXCEPT ![r] = [NoAttempt EXCEPT !.found = row, !.mode = m]]
    BY <1>1 DEF Begin
  <2>2. [NoAttempt EXCEPT !.found = row, !.mode = m] \in Attempts
    BY NoAttemptTyped DEF TypeOK, Attempts
  <2>3. QED BY <1>1, <2>1, <2>2 DEF Begin, Goto, TypeOK
<1>2. CASE Start(r)
  <2>1. run[r] \in Attempts /\ run[r].found \in Rows
    BY DEF TypeOK, Attempts
  <2>2. /\ ResumedSources(run[r].found) \in SUBSET Sources
        /\ ResumedDocuments(run[r].found) \in SUBSET Documents
    BY <2>1 DEF ResumedSources, ResumedDocuments, Rows
  <2>3. run' \in [Runners -> Attempts]
    BY <1>2, <2>1, <2>2 DEF Start, TypeOK, Attempts
  <2>4. row' \in Rows
    BY <1>2 DEF Start, Row, Rows, Statuses, ActiveStatuses
  <2>5. QED BY <1>2, <2>3, <2>4 DEF Start, Goto, NoFault, TypeOK, Inside
<1>3. CASE StartThrows(r)
  BY <1>3, NoAttemptTyped DEF StartThrows, Stop, Goto, Fault, NoFault, TypeOK
<1>4. CASE Select(r)
  <2>1. run[r].sources \in SUBSET Sources /\ run[r].documents \in SUBSET Documents
    BY DEF TypeOK, Attempts
  <2>2. row' \in Rows
    BY <1>4, <2>1 DEF Select, Resumed, Row, Rows, Statuses, ActiveStatuses
  <2>3. QED BY <1>4, <2>2 DEF Select, Goto, NoFault, TypeOK, Inside, Try
<1>5. CASE SelectThrows(r)
  <2>1. run[r].sources \in SUBSET Sources /\ run[r].documents \in SUBSET Documents
    BY DEF TypeOK, Attempts
  <2>2. row' \in Rows
    BY <1>5, <2>1 DEF SelectThrows, Resumed, Row, Rows, Statuses, ActiveStatuses, TypeOK
  <2>3. QED BY <1>5, <2>2, NoAttemptTyped DEF SelectThrows, Stop, Goto, Fault, TypeOK
<1>6. CASE Prepare(r)
  <2>1. row' \in Rows
    BY <1>6 DEF Prepare, Row, Rows, Statuses, ActiveStatuses
  <2>2. QED BY <1>6, <2>1 DEF Prepare, Goto, NoFault, TypeOK, Inside, Try
<1>7. CASE LoadSource(r)
  <2> DEFINE source == FirstOf(Sources \ run[r].sources)
             present == {d \in Documents : SourceOf[d] = source /\ origin[d] # Absent}
             loaded == [d \in Documents |-> IF d \in present THEN origin[d]
                                            ELSE run[r].loaded[d]]
  <2>1. source \in Sources
    BY <1>7, NextSourceIsOne DEF LoadSource
  <2>2. loaded \in [Documents -> Versions \cup {Absent}]
    BY DEF TypeOK, Attempts
  <2>3. PICK bad \in SUBSET present :
          /\ IF bad = {} THEN NoFault ELSE Fault
          /\ run' = [run EXCEPT
               ![r].source = source,
               ![r].batch = (present \ bad) \ run[r].documents,
               ![r].loaded = loaded,
               ![r].warned = run[r].warned \/ bad # {}]
    BY <1>7 DEF LoadSource
  <2>4. (present \ bad) \ run[r].documents \in SUBSET Documents
    OBVIOUS
  <2>5. (run[r].warned \/ bad # {}) \in BOOLEAN
    OBVIOUS
  <2> HIDE DEF source, present, loaded
  <2>6. run' \in [Runners -> Attempts]
    BY <1>0, <2>1, <2>2, <2>3, <2>4, <2>5 DEF Attempts
  <2>7. faults' \in 0 .. MaxFaults
    BY <2>3 DEF Fault, NoFault, TypeOK
  <2>8. QED BY <1>7, <2>6, <2>7 DEF LoadSource, Goto, TypeOK, Inside, Try
<1>8. CASE RejectDocument(r)
  <2>1. run' \in [Runners -> Attempts]
    BY <1>0, <1>8 DEF RejectDocument, Attempts
  <2>2. QED BY <1>8, <2>1 DEF RejectDocument, Fault, TypeOK
<1>9. CASE WriteDocument(r)
  <2>1. InHand(r) \in Documents
    BY <1>9, InHandIsOne DEF WriteDocument
  <2>2. run[r].loaded[InHand(r)] \in Versions \cup {Absent}
    BY <1>0, <2>1 DEF Attempts
  <2>3. QED
    BY <1>9, <2>1, <2>2, ReplacedTyped DEF WriteDocument, Goto, NoFault, TypeOK, Inside, Try
<1>10. CASE WriteChunks(r)
  <2>1. InHand(r) \in Documents
    BY <1>10, InHandIsOne DEF WriteChunks, Place
  <2>2. run[r].loaded[InHand(r)] \in Versions \cup {Absent}
    BY <1>0, <2>1 DEF Attempts
  <2>3. index' \in [Stores -> [Documents -> Versions \cup {Absent}]]
    BY <1>10, <2>1, <2>2 DEF WriteChunks, TypeOK, Stores
  <2>4. run' \in [Runners -> Attempts]
    BY <1>0, <1>10, <2>1 DEF WriteChunks, Attempts
  <2>5. QED BY <1>10, <2>3, <2>4 DEF WriteChunks, Goto, NoFault, TypeOK, Inside, Try
<1>11. CASE ChunksRejected(r)
  <2>1. InHand(r) \in Documents
    BY <1>11, InHandIsOne DEF ChunksRejected, Place
  <2>2. run' \in [Runners -> Attempts]
    BY <1>0, <1>11 DEF ChunksRejected, Attempts
  <2>3. index' \in [Stores -> [Documents -> Versions \cup {Absent}]]
    BY <1>11, <2>1, ReplacedTyped DEF ChunksRejected
  <2>4. QED BY <1>11, <2>2, <2>3 DEF ChunksRejected, Goto, Fault, TypeOK, Inside, Try
<1>12. CASE RecordDocument(r)
  <2>1. run[r].sources \in SUBSET Sources /\ run[r].documents \in SUBSET Documents
    BY DEF TypeOK, Attempts
  <2>2. row' \in Rows
    BY <1>12, <2>1 DEF RecordDocument, Row, Rows, Statuses, ActiveStatuses
  <2>3. QED BY <1>12, <2>1, <2>2 DEF RecordDocument, Goto, NoFault, TypeOK, Inside, Try
<1>13. CASE RecordSource(r)
  <2>1. run[r].sources \in SUBSET Sources /\ run[r].documents \in SUBSET Documents
    BY DEF TypeOK, Attempts
  <2>2. run[r].sources \cup {run[r].source} \in SUBSET Sources
    BY <1>0, <1>13, <2>1 DEF RecordSource, Place, Attempts
  <2>3. row' \in Rows
    BY <1>13, <2>1, <2>2 DEF RecordSource, Row, Rows, Statuses, ActiveStatuses
  <2>4. run' \in [Runners -> Attempts]
    BY <1>0, <1>13, <2>2 DEF RecordSource, Attempts
  <2>5. QED BY <1>13, <2>3, <2>4 DEF RecordSource, Goto, NoFault, TypeOK, Inside, Try
<1>14. CASE EndPipeline(r)
  <2>1. row' \in Rows
    BY <1>14 DEF EndPipeline, Row, Rows, Statuses, ActiveStatuses
  <2>2. QED BY <1>14, <2>1 DEF EndPipeline, Goto, NoFault, TypeOK, Inside, Try
<1>15. CASE ClearStore(r)
  <2>1. Store(r) \in Stores
    BY <1>15 DEF ClearStore, Place, Store, Stores, DerivedStores
  <2>2. NoVersions \in [Documents -> Versions \cup {Absent}]
    BY DEF NoVersions
  <2>3. index' \in [Stores -> [Documents -> Versions \cup {Absent}]]
    BY <1>15, <2>1, <2>2, FilledTyped DEF ClearStore, TypeOK
  <2>4. QED BY <1>15, <2>3 DEF ClearStore, Goto, NoFault, TypeOK, Inside, Try
<1>16. ASSUME NEW D \in SUBSET Written(r), Fill(r, D)
       PROVE  /\ index' \in [Stores -> [Documents -> Versions \cup {Absent}]]
              /\ pc' \in [Runners -> {"idle", "starting"} \cup Inside]
              /\ run[r].stage + 1 \in 1 .. Len(Derived) + 1
  <2>1. run[r].stage \in DOMAIN Derived
    BY <1>16 DEF Fill, Place
  <2>2. Store(r) \in Stores
    BY <2>1 DEF Store, Stores, DerivedStores
  <2>3. run[r].loaded \in [Documents -> Versions \cup {Absent}]
    BY DEF TypeOK, Attempts
  <2>4. QED
    BY <1>16, <2>1, <2>2, <2>3, FilledTyped DEF Fill, Goto, TypeOK, Inside, Try
<1>17. CASE FillStore(r)
  <2>1. run' \in [Runners -> Attempts]
    BY <1>0, <1>16, <1>17 DEF FillStore, Attempts
  <2>2. QED BY <1>16, <1>17, <2>1 DEF FillStore, Fill, NoFault, TypeOK
<1>18. CASE FillPartly(r)
  <2>1. run' \in [Runners -> Attempts]
    BY <1>0, <1>16, <1>18 DEF FillPartly, Attempts
  <2>2. QED BY <1>16, <1>18, <2>1 DEF FillPartly, Fill, Fault, TypeOK
<1>19. CASE Finish(r)
  <2>1. row' \in Rows
    BY <1>19 DEF Finish, Row, Rows, Statuses, Done
  <2>2. run[r].loaded \in [Documents -> Versions \cup {Absent}] /\ Written(r) \subseteq Documents
    BY DEF TypeOK, Attempts, Written
  <2>3. QED BY <1>19, <2>1, <2>2, NoAttemptTyped DEF Finish, Stop, Goto, NoFault, TypeOK
<1>20. CASE Throw(r)
  BY <1>20 DEF Throw, Goto, NoFault, Fault, TypeOK, Inside
<1>21. CASE Fail(r)
  <2>1. row' \in Rows
    BY <1>21 DEF Fail, FailedRow, Row, Rows, Statuses
  <2>2. QED BY <1>21, <2>1, NoAttemptTyped DEF Fail, Stop, Goto, NoFault, TypeOK
<1>22. CASE Die(r)
  BY <1>22, NoAttemptTyped DEF Die, Stop, Goto, Fault, TypeOK
<1>23. QED
  BY <1>1, <1>2, <1>3, <1>4, <1>5, <1>6, <1>7, <1>8, <1>9, <1>10, <1>11, <1>12, <1>13,
     <1>14, <1>15, <1>17, <1>18, <1>19, <1>20, <1>21, <1>22 DEF Attempt

-----------------------------------------------------------------------------
(* What holds however many attempts there are at once.                       *)

(* An attempt's steps touch its own state only.                              *)
LEMMA OwnStep ==
  ASSUME TypeOK, NEW r \in Runners, Attempt(r)
  PROVE  pc' = [pc EXCEPT ![r] = pc'[r]] /\ run' = [run EXCEPT ![r] = run'[r]]
<1>1. pc \in [Runners -> {"idle", "starting"} \cup Inside] /\ run \in [Runners -> Attempts]
  BY DEF TypeOK
<1>2. pc' = [pc EXCEPT ![r] = pc'[r]]
  BY <1>1 DEF Attempt, Begin, Start, StartThrows, Select, SelectThrows, Prepare, LoadSource,
     RejectDocument, WriteDocument, WriteChunks, ChunksRejected, RecordDocument, RecordSource,
     EndPipeline, ClearStore, FillStore, FillPartly, Fill, Finish, Throw, Fail, Die, Stop, Goto
<1>3. run' = [run EXCEPT ![r] = run'[r]]
  BY <1>1 DEF Attempt, Begin, Start, StartThrows, Select, SelectThrows, Prepare, LoadSource,
     RejectDocument, WriteDocument, WriteChunks, ChunksRejected, RecordDocument, RecordSource,
     EndPipeline, ClearStore, FillStore, FillPartly, Fill, Finish, Throw, Fail, Die, Stop
<1>4. QED BY <1>2, <1>3

(* The steps of an attempt, as far as they decide where it is.               *)
From(r, steps) == <<pc[r], pc'[r]>> \in steps
SameLoad(r) ==
  /\ run'[r].sources = run[r].sources /\ run'[r].source = run[r].source
  /\ run'[r].stage = run[r].stage
SameWork(r) ==
  SameLoad(r) /\ run'[r].documents = run[r].documents /\ run'[r].batch = run[r].batch

Sets(r) ==
  /\ pc[r] = "idle" /\ pc'[r] = "starting"
  /\ run'[r].sources = {} /\ run'[r].documents = {} /\ run'[r].batch = {}
  /\ run'[r].source = 0 /\ run'[r].loaded = NoVersions /\ run'[r].stage = 1
Ends(r) == pc[r] # "idle" /\ pc'[r] = "idle" /\ run'[r] = NoAttempt
Throws(r) == pc[r] \in Try /\ pc'[r] = "failing" /\ SameWork(r)
Takes(r) ==
  /\ From(r, {<<"starting", "selecting">>, <<"selecting", "preparing">>,
              <<"preparing", "loading">>})
  /\ SameWork(r) /\ run'[r].loaded = run[r].loaded
Loads(r) ==
  /\ From(r, {<<"loading", "writing">>})
  /\ run'[r].sources = run[r].sources /\ run'[r].stage = run[r].stage
  /\ run'[r].source \in Sources \ run[r].sources
Writes(r) == From(r, {<<"writing", "chunking">>}) /\ run[r].batch # {} /\ SameWork(r)
TakesOff(r) ==
  /\ From(r, {<<"writing", "writing">>, <<"chunking", "writing">>, <<"chunking", "recording">>})
  /\ run[r].batch # {} /\ run'[r].batch = run[r].batch \ {InHand(r)} /\ SameLoad(r)
Records(r) == From(r, {<<"recording", "writing">>}) /\ SameWork(r)
Completes(r) ==
  /\ From(r, {<<"writing", "loading">>}) /\ run[r].batch = {} /\ run'[r].batch = {}
  /\ run'[r].sources = run[r].sources \cup {run[r].source}
  /\ run'[r].source = run[r].source /\ run'[r].stage = run[r].stage
Leaves(r) ==
  /\ pc[r] = "loading" /\ run[r].sources = Sources /\ SameWork(r)
  /\ \/ pc'[r] = "finishing" /\ (run[r].documents = {} \/ Derived = <<>>)
     \/ pc'[r] = "clearing" /\ Derived # <<>>
Clears(r) == From(r, {<<"clearing", "filling">>}) /\ SameWork(r)
Fills(r) ==
  /\ pc[r] = "filling"
  /\ pc'[r] = IF run[r].stage = Len(Derived) THEN "finishing" ELSE "clearing"
  /\ run'[r].sources = run[r].sources /\ run'[r].source = run[r].source
  /\ run'[r].batch = run[r].batch /\ run'[r].stage = run[r].stage + 1

Moves(r) ==
  \/ Sets(r) \/ Ends(r) \/ Throws(r) \/ Takes(r) \/ Loads(r) \/ Writes(r) \/ TakesOff(r)
  \/ Records(r) \/ Completes(r) \/ Leaves(r) \/ Clears(r) \/ Fills(r)

LEMMA AttemptMoves ==
  ASSUME Placed, NEW r \in Runners, Attempt(r)
  PROVE  Moves(r)
<1>1. /\ pc \in [Runners -> {"idle", "starting"} \cup Inside] /\ run \in [Runners -> Attempts]
      /\ run[r] \in Attempts /\ TypeOK /\ Place(r)
  BY DEF Placed, TypeOK
<1>2. CASE Begin(r)
  <2>1. PICK m \in OverwriteModes :
          run' = [run EXCEPT ![r] = [NoAttempt EXCEPT !.found = row, !.mode = m]]
    BY <1>2 DEF Begin
  <2>2. Sets(r)
    BY <1>1, <1>2, <2>1 DEF Begin, Goto, Sets, NoAttempt
  <2>3. QED BY <2>2 DEF Moves
<1>3. CASE Start(r)
  <2>1. ResumedSources(run[r].found) = {} /\ ResumedDocuments(run[r].found) = {}
    BY DEF Placed, NothingToResume, ResumedSources, ResumedDocuments
  <2>2. run[r].sources = {} /\ run[r].documents = {}
    BY <1>1, <1>3 DEF Start, Place
  <2>3. Takes(r)
    BY <1>1, <1>3, <2>1, <2>2 DEF Start, Goto, Takes, From, SameWork, SameLoad, Attempts
  <2>4. QED BY <2>3 DEF Moves
<1>4. CASE Select(r) \/ Prepare(r)
  <2>1. Takes(r)
    BY <1>1, <1>4 DEF Select, Prepare, Goto, Takes, From, SameWork, SameLoad
  <2>2. QED BY <2>1 DEF Moves
<1>5. CASE StartThrows(r) \/ SelectThrows(r) \/ Finish(r) \/ Fail(r) \/ Die(r)
  <2>1. Ends(r)
    BY <1>1, <1>5 DEF StartThrows, SelectThrows, Finish, Fail, Die, Stop, Goto, Ends
  <2>2. QED BY <2>1 DEF Moves
<1>6. CASE LoadSource(r)
  <2> DEFINE source == FirstOf(Sources \ run[r].sources)
             present == {d \in Documents : SourceOf[d] = source /\ origin[d] # Absent}
             loaded == [d \in Documents |-> IF d \in present THEN origin[d]
                                            ELSE run[r].loaded[d]]
  <2>1. source \in Sources \ run[r].sources
    BY <1>1, <1>6, NextSourceIsOne DEF LoadSource
  <2>2. PICK bad \in SUBSET present :
          run' = [run EXCEPT
            ![r].source = source,
            ![r].batch = (present \ bad) \ run[r].documents,
            ![r].loaded = loaded,
            ![r].warned = run[r].warned \/ bad # {}]
    BY <1>6 DEF LoadSource
  <2>3. pc[r] = "loading" /\ pc'[r] = "writing"
    BY <1>1, <1>6 DEF LoadSource, Goto
  <2> HIDE DEF source, present, loaded
  <2>4. Loads(r)
    BY <1>1, <2>1, <2>2, <2>3 DEF Loads, From, Attempts
  <2>5. QED BY <2>4 DEF Moves
<1>7. CASE WriteDocument(r)
  <2>1. Writes(r)
    BY <1>1, <1>7 DEF WriteDocument, Goto, Writes, From, SameWork, SameLoad
  <2>2. QED BY <2>1 DEF Moves
<1>8. CASE RejectDocument(r) \/ WriteChunks(r) \/ ChunksRejected(r)
  <2>1. run[r].batch # {}
    BY <1>1, <1>8 DEF RejectDocument, WriteChunks, ChunksRejected, Place
  <2>2. /\ run'[r].batch = run[r].batch \ {InHand(r)}
        /\ SameLoad(r)
    BY <1>1, <1>8 DEF RejectDocument, WriteChunks, ChunksRejected, SameLoad, Attempts
  <2>3. From(r, {<<"writing", "writing">>, <<"chunking", "writing">>,
                 <<"chunking", "recording">>})
    BY <1>1, <1>8 DEF RejectDocument, WriteChunks, ChunksRejected, Goto, From
  <2>4. QED BY <2>1, <2>2, <2>3 DEF Moves, TakesOff
<1>9. CASE RecordDocument(r)
  <2>1. Records(r)
    BY <1>1, <1>9 DEF RecordDocument, Goto, Records, From, SameWork, SameLoad
  <2>2. QED BY <2>1 DEF Moves
<1>10. CASE RecordSource(r)
  <2>1. Completes(r)
    BY <1>1, <1>10 DEF RecordSource, Goto, Completes, From, Attempts
  <2>2. QED BY <2>1 DEF Moves
<1>11. CASE EndPipeline(r)
  <2>1. Written(r) = run[r].documents
    BY DEF Placed, NothingToResume, Written, ResumedDocuments
  <2>2. Leaves(r)
    BY <1>1, <1>11, <2>1 DEF EndPipeline, Goto, Leaves, SameWork, SameLoad
  <2>3. QED BY <2>2 DEF Moves
<1>12. CASE ClearStore(r)
  <2>1. Clears(r)
    BY <1>1, <1>12 DEF ClearStore, Goto, Clears, From, SameWork, SameLoad
  <2>2. QED BY <2>1 DEF Moves
<1>13. CASE FillStore(r) \/ FillPartly(r)
  <2>1. Fills(r)
    BY <1>1, <1>13 DEF FillStore, FillPartly, Fill, Goto, Fills, Attempts
  <2>2. QED BY <2>1 DEF Moves
<1>14. CASE Throw(r)
  <2>1. Throws(r)
    BY <1>1, <1>14 DEF Throw, Goto, Throws, SameWork, SameLoad
  <2>2. QED BY <2>1 DEF Moves
<1>15. QED
  BY <1>2, <1>3, <1>4, <1>5, <1>6, <1>7, <1>8, <1>9, <1>10, <1>11, <1>12, <1>13, <1>14
     DEF Attempt

LEMMA PlaceStep ==
  ASSUME Placed, TypeOK', NEW r \in Runners, Attempt(r)
  PROVE  Place(r)'
<1>1. Place(r) /\ run[r] \in Attempts /\ run'[r] \in Attempts
  BY DEF Placed, TypeOK
<1>2. Moves(r)
  BY AttemptMoves
<1>3. CASE Sets(r) \/ Takes(r)
  BY <1>1, <1>3 DEF Place, Sets, Takes, From, SameWork, SameLoad
<1>4. CASE Ends(r)
  BY <1>4 DEF Place, Ends, NoAttempt
<1>5. CASE Throws(r)
  BY <1>5 DEF Place, Throws
<1>6. CASE Loads(r) \/ Writes(r) \/ TakesOff(r) \/ Records(r)
  BY <1>1, <1>6 DEF Place, Loads, Writes, TakesOff, Records, From, SameWork, SameLoad
<1>7. CASE Completes(r)
  BY <1>1, <1>7 DEF Place, Completes, From
<1>8. CASE Leaves(r)
  <2>1. /\ Derived \in Seq(STRING) /\ (Derived = <<>> => Len(Derived) = 0)
        /\ (Derived # <<>> => 1 \in DOMAIN Derived)
    BY RunAssumption
  <2>2. QED BY <1>1, <1>8, <2>1 DEF Place, Leaves, SameWork, SameLoad
<1>9. CASE Clears(r)
  BY <1>1, <1>9 DEF Place, Clears, From, SameWork, SameLoad
<1>10. CASE Fills(r)
  <2>1. DOMAIN Derived = 1 .. Len(Derived) /\ Len(Derived) \in Nat
    BY RunAssumption
  <2>2. QED BY <1>1, <1>10, <2>1 DEF Place, Fills
<1>11. QED BY <1>2, <1>3, <1>4, <1>5, <1>6, <1>7, <1>8, <1>9, <1>10 DEF Moves

-----------------------------------------------------------------------------
(* The row and those who are at it.                                          *)

(* An attempt that comes to the row, takes it or is at it is alone at it.     *)
LEMMA Alone ==
  ASSUME Orderly, ~ contended', NEW r \in Runners, AtRun(r) \/ Begin(r) \/ Start(r)
  PROVE  \A q \in Runners \ {r} : ~ AtRun(q)
<1>1. CASE AtRun(r)
  BY <1>1 DEF Orderly, Exclusive
<1>2. CASE Begin(r)
  <2>1. \A q \in Runners : ~ Claiming(q)
    BY <1>2 DEF Begin
  <2>2. \A q \in Runners : pc[q] \notin Inside
    BY <1>2 DEF Begin, Orderly, Exclusive
  <2>3. QED BY <2>1, <2>2 DEF AtRun
<1>3. CASE Start(r) /\ ~ AtRun(r)
  <2>1. row.status = "none"
    BY <1>3 DEF Start, AtRun, Claiming
  <2>2. row.status \notin ActiveStatuses
    BY <2>1 DEF ActiveStatuses
  <2>3. ASSUME NEW q \in Runners, Claiming(q)
        PROVE  FALSE
    <3>1. run[q].found = row /\ run[q].found.status # "none"
      BY <2>3 DEF Orderly, Exclusive, Claiming
    <3>2. QED BY <2>1, <3>1
  <2>4. \A q \in Runners : pc[q] \notin Inside
    BY <2>2 DEF Orderly, Exclusive
  <2>5. QED BY <2>3, <2>4 DEF AtRun
<1>4. QED BY <1>1, <1>2, <1>3

(* One that has found no row may give up beside another that is at work.      *)
LEMMA GivesUp ==
  ASSUME NEW r \in Runners, Attempt(r), ~ AtRun(r), ~ Begin(r), ~ Start(r)
  PROVE  /\ Stop(r) /\ pc[r] \notin Inside
         /\ UNCHANGED <<row, index, recorded, report, contended>>
<1>1. StartThrows(r) \/ Die(r)
  BY DEF AtRun, Attempt, Select, SelectThrows, Prepare, LoadSource, RejectDocument,
     WriteDocument, WriteChunks, ChunksRejected, RecordDocument, RecordSource, EndPipeline,
     ClearStore, FillStore, FillPartly, Fill, Finish, Throw, Fail, Inside, Try
<1>2. QED BY <1>1 DEF AtRun, StartThrows, Die

(* A contention ends only when an attempt takes the row with nobody else at  *)
(* it, and arises only where attempts look at a row that lets them in.       *)
LEMMA ContendedStep ==
  ASSUME TypeOK, NEW r \in Runners, Attempt(r)
  PROVE  /\ contended /\ ~ contended' =>
              Start(r) /\ \A q \in Runners \ {r} : ~ AtRun(q)
         /\ ~ contended /\ contended' => Begin(r) /\ \E q \in Runners : Claiming(q)
<1>1. CASE Begin(r) \/ Start(r)
  BY <1>1 DEF TypeOK, Begin, Start
<1>2. CASE ~ (Begin(r) \/ Start(r))
  <2>1. contended' = contended
    BY <1>2 DEF Attempt, StartThrows, Select, SelectThrows, Prepare, LoadSource, RejectDocument,
       WriteDocument, WriteChunks, ChunksRejected, RecordDocument, RecordSource, EndPipeline,
       ClearStore, FillStore, FillPartly, Fill, Finish, Throw, Fail, Die
  <2>2. QED BY <2>1
<1>3. QED BY <1>1, <1>2

(* The others stay where they are.                                           *)
LEMMA Others ==
  ASSUME TypeOK, NEW r \in Runners, Attempt(r), NEW q \in Runners \ {r}
  PROVE  /\ pc'[q] = pc[q] /\ run'[q] = run[q]
         /\ (AtRun(q)' <=> AtRun(q)) /\ (Claiming(q)' <=> Claiming(q))
<1>1. pc'[q] = pc[q] /\ run'[q] = run[q]
  BY OwnStep DEF TypeOK
<1>2. QED BY <1>1 DEF AtRun, Claiming

(* Attempts take the row when it lets them in, leave it in an active status  *)
(* while they are at work, and leave nothing to resume when they stop.       *)
LEMMA RowStep ==
  ASSUME TypeOK, NEW r \in Runners, Attempt(r)
  PROVE  \/ /\ pc'[r] = "starting" /\ row' = row /\ row.status \notin ActiveStatuses
            /\ run'[r].found = row
         \/ /\ pc'[r] \in Inside /\ run'[r].found = run[r].found
            /\ row'.status \in ActiveStatuses \/ (row' = row /\ pc[r] \in Inside)
         \/ /\ pc'[r] = "idle" /\ run'[r] = NoAttempt
            /\ \/ row' = row
               \/ row'.status \in ActiveStatuses
               \/ row'.sources = {} /\ row'.documents = {}
<1>1. /\ pc \in [Runners -> {"idle", "starting"} \cup Inside] /\ run \in [Runners -> Attempts]
      /\ run[r] \in Attempts
  BY DEF TypeOK
<1>2. CASE Begin(r)
  <2>1. PICK m \in OverwriteModes :
          run' = [run EXCEPT ![r] = [NoAttempt EXCEPT !.found = row, !.mode = m]]
    BY <1>2 DEF Begin
  <2>2. run'[r].found = row
    BY <1>1, <2>1 DEF NoAttempt
  <2>3. QED BY <1>1, <1>2, <2>2 DEF Begin, Goto
<1>3. CASE Start(r)
  <2>1. pc'[r] \in Inside /\ row'.status \in ActiveStatuses
    BY <1>1, <1>3 DEF Start, Goto, Row, ActiveStatuses, Inside
  <2>2. run'[r].found = run[r].found
    BY <1>1, <1>3 DEF Start, Attempts
  <2>3. QED BY <2>1, <2>2
<1>4. CASE Select(r) \/ Prepare(r) \/ EndPipeline(r) \/ RecordDocument(r)
  BY <1>1, <1>4 DEF Select, Prepare, EndPipeline, RecordDocument, Goto, Resumed, Row,
     ActiveStatuses, Inside, Try
<1>5. CASE RecordSource(r)
  BY <1>1, <1>5 DEF RecordSource, Goto, Row, ActiveStatuses, Inside, Try, Attempts
<1>6. CASE WriteDocument(r) \/ ClearStore(r) \/ Throw(r)
  <2>1. pc[r] \in Inside /\ pc'[r] \in Inside /\ run' = run /\ row' = row
    BY <1>1, <1>6 DEF WriteDocument, ClearStore, Throw, Goto, Inside, Try
  <2>2. QED BY <2>1
<1>7. CASE LoadSource(r) \/ RejectDocument(r) \/ WriteChunks(r) \/ ChunksRejected(r)
           \/ FillStore(r) \/ FillPartly(r)
  <2>1. pc[r] \in Inside /\ pc'[r] \in Inside /\ row' = row
    BY <1>1, <1>7 DEF LoadSource, RejectDocument, WriteChunks, ChunksRejected, FillStore,
       FillPartly, Fill, Goto, Inside, Try
  <2>2. run'[r].found = run[r].found
    <3>1. CASE LoadSource(r)
      <4> DEFINE source == FirstOf(Sources \ run[r].sources)
                 present == {d \in Documents : SourceOf[d] = source /\ origin[d] # Absent}
                 loaded == [d \in Documents |-> IF d \in present THEN origin[d]
                                                ELSE run[r].loaded[d]]
      <4>1. PICK bad \in SUBSET present :
              run' = [run EXCEPT
                ![r].source = source,
                ![r].batch = (present \ bad) \ run[r].documents,
                ![r].loaded = loaded,
                ![r].warned = run[r].warned \/ bad # {}]
        BY <3>1 DEF LoadSource
      <4> HIDE DEF source, present, loaded
      <4>2. QED BY <1>1, <4>1 DEF Attempts
    <3>2. CASE RejectDocument(r) \/ ChunksRejected(r)
      BY <1>1, <3>2 DEF RejectDocument, ChunksRejected, Attempts
    <3>3. CASE WriteChunks(r)
      BY <1>1, <3>3 DEF WriteChunks, Attempts
    <3>4. CASE FillStore(r) \/ FillPartly(r)
      BY <1>1, <3>4 DEF FillStore, FillPartly, Attempts
    <3>5. QED BY <1>7, <3>1, <3>2, <3>3, <3>4
  <2>3. QED BY <2>1, <2>2
<1>8. CASE Finish(r) \/ Fail(r)
  BY <1>1, <1>8 DEF Finish, Fail, FailedRow, Stop, Goto, Row
<1>9. CASE StartThrows(r) \/ Die(r)
  BY <1>1, <1>9 DEF StartThrows, Die, Stop, Goto
<1>10. CASE SelectThrows(r)
  BY <1>1, <1>10 DEF SelectThrows, Resumed, Row, ActiveStatuses, Stop, Goto
<1>11. QED
  BY <1>2, <1>3, <1>4, <1>5, <1>6, <1>7, <1>8, <1>9, <1>10 DEF Attempt

LEMMA NothingToResumeStep ==
  ASSUME Placed, TypeOK', NEW r \in Runners, Attempt(r)
  PROVE  NothingToResume'
<1>1. /\ pc \in [Runners -> {"idle", "starting"} \cup Inside] /\ run \in [Runners -> Attempts]
      /\ TypeOK
  BY DEF Placed, TypeOK
<1>2. \A q \in Runners \ {r} : run'[q] = run[q]
  BY <1>1, OwnStep
<1>3. NoAttempt.found = NoRow /\ NoRow.sources = {} /\ NoRow.documents = {}
  BY DEF NoAttempt, NoRow, Row
<1>4. QED BY <1>1, <1>2, <1>3, RowStep DEF Placed, NothingToResume

LEMMA PlacedStep == Placed /\ [Next]_vars => Placed'
<1> SUFFICES ASSUME Placed, [Next]_vars PROVE Placed'
  OBVIOUS
<1>1. ASSUME NEW d \in Documents, Change(d)
      PROVE  Placed'
  <2>1. UNCHANGED <<row, recorded, index, pc, run, report, attempts, faults>>
    BY <1>1 DEF Change
  <2>2. TypeOK'
    BY <1>1, <2>1, RunAssumption DEF Change, Placed, TypeOK, Versions
  <2>3. QED BY <2>1, <2>2 DEF Placed, NothingToResume, Place
<1>2. ASSUME NEW r \in Runners, Attempt(r)
      PROVE  Placed'
  <2>1. TypeOK /\ Place(r)
    BY DEF Placed
  <2>2. TypeOK'
    BY <1>2, <2>1, TypedStep
  <2>3. NothingToResume' /\ Place(r)'
    BY <1>2, <2>2, NothingToResumeStep, PlaceStep
  <2>4. ASSUME NEW q \in Runners \ {r}
        PROVE  Place(q)'
    <3>1. pc'[q] = pc[q] /\ run'[q] = run[q]
      BY <1>2, <2>1, OwnStep DEF TypeOK
    <3>2. QED BY <3>1 DEF Placed, Place
  <2>5. QED BY <2>2, <2>3, <2>4 DEF Placed
<1>3. CASE UNCHANGED vars
  BY <1>3 DEF vars, Placed, TypeOK, NothingToResume, Place
<1>4. QED BY <1>1, <1>2, <1>3 DEF Next

LEMMA ExclusiveStep ==
  ASSUME Placed, NEW r \in Runners, Attempt(r), \A q \in Runners \ {r} : ~ AtRun(q),
         pc[r] \in Inside => row.status \in ActiveStatuses
  PROVE  Exclusive'
<1>1. pc \in [Runners -> {"idle", "starting"} \cup Inside] /\ TypeOK
  BY DEF Placed, TypeOK
<1>2. \A q \in Runners \ {r} : ~ AtRun(q)'
  BY <1>1, Others
<1>3. "idle" \notin Inside /\ "starting" \notin Inside
  BY DEF Inside, Try
<1>4. /\ Claiming(r)' => run'[r].found = row' /\ row'.status \notin ActiveStatuses
      /\ pc'[r] \in Inside => row'.status \in ActiveStatuses
  BY <1>1, <1>3, RowStep DEF Claiming
<1>5. QED BY <1>2, <1>4 DEF Exclusive, AtRun

-----------------------------------------------------------------------------
(* The work of an attempt.                                                   *)

LEMMA AtStart ==
  ASSUME NEW r \in Runners, TypeOK',
         run'[r].documents = {}, run'[r].batch = {}, run'[r].loaded = NoVersions
  PROVE  Progress(r)'
BY DEF Progress, NoVersions

LEMMA Stopped ==
  ASSUME TypeOK, NEW r \in Runners, Stop(r), TypeOK'
  PROVE  Progress(r)' /\ InHandWritten(r)' /\ VectorsInPlace(r)'
<1>1. pc'[r] = "idle" /\ run'[r] = NoAttempt
  BY DEF Stop, Goto, TypeOK
<1>2. Progress(r)'
  BY <1>1, AtStart DEF NoAttempt
<1>3. QED BY <1>1, <1>2 DEF InHandWritten, VectorsInPlace, NoAttempt

(* Steps before anything is loaded.                                          *)
LEMMA TakingStep ==
  ASSUME Orderly, TypeOK', NEW r \in Runners,
         Begin(r) \/ Start(r) \/ Select(r) \/ Prepare(r)
  PROVE  Progress(r)' /\ InHandWritten(r)' /\ VectorsInPlace(r)'
<1>1. /\ pc \in [Runners -> {"idle", "starting"} \cup Inside] /\ run \in [Runners -> Attempts]
      /\ run[r] \in Attempts
  BY DEF Orderly, Placed, TypeOK
<1>2. CASE Begin(r)
  <2>1. PICK m \in OverwriteModes :
          run' = [run EXCEPT ![r] = [NoAttempt EXCEPT !.found = row, !.mode = m]]
    BY <1>2 DEF Begin
  <2>2. /\ run'[r].sources = {} /\ run'[r].documents = {} /\ run'[r].batch = {}
        /\ run'[r].source = 0 /\ run'[r].loaded = NoVersions /\ run'[r].stage = 1
    BY <1>1, <2>1 DEF NoAttempt
  <2>3. pc'[r] = "starting"
    BY <1>1, <1>2 DEF Begin, Goto
  <2>4. QED BY <2>2, <2>3, AtStart DEF InHandWritten, VectorsInPlace
<1>3. CASE Start(r)
  <2>1. ResumedSources(run[r].found) = {} /\ ResumedDocuments(run[r].found) = {}
    BY DEF Orderly, Placed, NothingToResume, ResumedSources, ResumedDocuments
  <2>2. pc[r] = "starting" /\ pc'[r] = "selecting"
    BY <1>1, <1>3 DEF Start, Goto
  <2>3. /\ run[r].batch = {} /\ run[r].source = 0 /\ run[r].loaded = NoVersions
        /\ run[r].stage = 1
    BY <2>2 DEF Orderly, Placed, Place
  <2>4. /\ run'[r].sources = {} /\ run'[r].documents = {} /\ run'[r].batch = {}
        /\ run'[r].source = 0 /\ run'[r].loaded = NoVersions /\ run'[r].stage = 1
    BY <1>1, <1>3, <2>1, <2>3 DEF Start, Attempts
  <2>5. QED BY <2>2, <2>4, AtStart DEF InHandWritten, VectorsInPlace
<1>4. CASE Select(r) \/ Prepare(r)
  <2>1. /\ pc[r] \in {"selecting", "preparing"} /\ pc'[r] \in {"preparing", "loading"}
        /\ run' = run
    BY <1>1, <1>4 DEF Select, Prepare, Goto
  <2>2. /\ run[r].sources = {} /\ run[r].documents = {} /\ run[r].batch = {}
        /\ run[r].source = 0 /\ run[r].loaded = NoVersions /\ run[r].stage = 1
    BY <2>1 DEF Orderly, Placed, Place
  <2>3. QED BY <2>1, <2>2, AtStart DEF InHandWritten, VectorsInPlace
<1>5. QED BY <1>2, <1>3, <1>4

LEMMA LoadStep ==
  ASSUME Orderly, TypeOK', NEW r \in Runners, LoadSource(r)
  PROVE  Progress(r)' /\ InHandWritten(r)' /\ VectorsInPlace(r)'
<1>1. /\ pc \in [Runners -> {"idle", "starting"} \cup Inside] /\ run \in [Runners -> Attempts]
      /\ run[r] \in Attempts
  BY DEF Orderly, Placed, TypeOK
<1> DEFINE source == FirstOf(Sources \ run[r].sources)
           present == {d \in Documents : SourceOf[d] = source /\ origin[d] # Absent}
           loaded == [d \in Documents |-> IF d \in present THEN origin[d]
                                          ELSE run[r].loaded[d]]
<1>2. source \in Sources \ run[r].sources
  BY NextSourceIsOne DEF LoadSource, Orderly, Placed
<1>3. PICK bad \in SUBSET present :
        run' = [run EXCEPT
          ![r].source = source,
          ![r].batch = (present \ bad) \ run[r].documents,
          ![r].loaded = loaded,
          ![r].warned = run[r].warned \/ bad # {}]
  BY DEF LoadSource
<1>4. \A d \in Documents : d \in present => SourceOf[d] = source /\ origin[d] # Absent
  OBVIOUS
<1>5. \A d \in Documents :
        loaded[d] = IF d \in present THEN origin[d] ELSE run[r].loaded[d]
  OBVIOUS
<1>6. present \subseteq Documents
  OBVIOUS
<1> HIDE DEF source, present, loaded
<1>7. /\ run'[r].source = source /\ run'[r].batch = (present \ bad) \ run[r].documents
      /\ run'[r].loaded = loaded /\ run'[r].warned = (run[r].warned \/ bad # {})
      /\ run'[r].documents = run[r].documents /\ run'[r].sources = run[r].sources
      /\ run'[r].stage = run[r].stage
  BY <1>1, <1>3 DEF Attempts
<1>8. /\ pc[r] = "loading" /\ pc'[r] = "writing" /\ index' = index
  BY <1>1 DEF LoadSource, Goto
<1>9. run[r].batch = {} /\ run[r].source \in run[r].sources \cup {0} /\ run[r].stage = 1
  BY <1>8 DEF Orderly, Placed, Place
<1>10. \A d \in Documents : run[r].loaded[d] # Absent => SourceOf[d] \in run[r].sources
  BY <1>9, RunAssumption DEF Orderly, Progress
<1>11. run[r].documents \subseteq Documents
  BY <1>1 DEF Attempts
<1>12. \A d \in run[r].documents : d \notin present /\ loaded[d] = run[r].loaded[d]
  BY <1>2, <1>4, <1>5, <1>10, <1>11 DEF Orderly, Progress
<1>13. Progress(r)'
  <2>1. (run[r].documents \cap run[r].batch = {})'
    BY <1>7
  <2>2. (\A d \in run[r].documents \cup run[r].batch : run[r].loaded[d] # Absent)'
    BY <1>4, <1>5, <1>6, <1>7, <1>9, <1>12 DEF Orderly, Progress
  <2>3. (\A d \in Documents : run[r].loaded[d] # Absent =>
           SourceOf[d] \in run[r].sources \cup {run[r].source})'
    BY <1>4, <1>5, <1>7, <1>10
  <2>4. (~ run[r].warned => \A d \in Documents : run[r].loaded[d] # Absent =>
           d \in run[r].documents \cup run[r].batch)'
    BY <1>5, <1>7, <1>9 DEF Orderly, Progress
  <2>5. (\A d \in run[r].documents : /\ index["documents"][d] = run[r].loaded[d]
                                     /\ index["chunks"][d] = run[r].loaded[d])'
    BY <1>7, <1>8, <1>12 DEF Orderly, Progress
  <2>6. QED BY <2>1, <2>2, <2>3, <2>4, <2>5 DEF Progress
<1>14. InHandWritten(r)'
  BY <1>8 DEF InHandWritten
<1>15. VectorsInPlace(r)'
  BY <1>8 DEF VectorsInPlace
<1>16. QED BY <1>13, <1>14, <1>15

(* Documents one by one.                                                     *)
LEMMA WriteStep ==
  ASSUME Orderly, TypeOK', NEW r \in Runners,
         RejectDocument(r) \/ WriteDocument(r) \/ WriteChunks(r) \/ ChunksRejected(r)
  PROVE  Progress(r)' /\ InHandWritten(r)' /\ VectorsInPlace(r)'
<1>1. /\ pc \in [Runners -> {"idle", "starting"} \cup Inside] /\ run \in [Runners -> Attempts]
      /\ run[r] \in Attempts
      /\ index \in [Stores -> [Documents -> Versions \cup {Absent}]]
      /\ "documents" \in Stores /\ "chunks" \in Stores
  BY DEF Orderly, Placed, TypeOK, Stores
<1> DEFINE d == InHand(r)
<1>2. pc[r] \in {"writing", "chunking"} /\ run[r].batch # {}
  BY DEF RejectDocument, WriteDocument, WriteChunks, ChunksRejected, Orderly, Placed, Place
<1>3. d \in run[r].batch /\ d \in Documents
  BY <1>2, InHandIsOne DEF Orderly, Placed
<1>4. run[r].documents \subseteq Documents
  BY <1>1 DEF Attempts
<1>5. d \notin run[r].documents
  BY <1>3 DEF Orderly, Progress
<1>6. CASE RejectDocument(r) \/ ChunksRejected(r)
  <2>1. /\ run'[r].batch = run[r].batch \ {d} /\ run'[r].warned = TRUE
        /\ run'[r].source = run[r].source /\ run'[r].loaded = run[r].loaded
        /\ run'[r].documents = run[r].documents /\ run'[r].sources = run[r].sources
        /\ run'[r].stage = run[r].stage
    BY <1>1, <1>6 DEF RejectDocument, ChunksRejected, Attempts
  <2>2. pc'[r] = "writing"
    BY <1>1, <1>6 DEF RejectDocument, ChunksRejected, Goto
  <2>3. \A e \in Documents \ {d} : /\ index'["documents"][e] = index["documents"][e]
                                   /\ index'["chunks"][e] = index["chunks"][e]
    BY <1>1, <1>3, <1>6 DEF RejectDocument, ChunksRejected, Replaced
  <2> HIDE DEF d
  <2>4. Progress(r)'
    BY <1>3, <1>4, <1>5, <2>1, <2>3 DEF Orderly, Progress
  <2>5. QED BY <2>2, <2>4 DEF InHandWritten, VectorsInPlace
<1>7. CASE WriteDocument(r)
  <2>1. run' = run /\ pc'[r] = "chunking" /\ index' = Replaced(d, run[r].loaded[d])
    BY <1>1, <1>7 DEF WriteDocument, Goto
  <2>2. \A e \in Documents \ {d} : /\ index'["documents"][e] = index["documents"][e]
                                   /\ index'["chunks"][e] = index["chunks"][e]
    BY <1>1, <1>3, <2>1 DEF Replaced
  <2>3. index'["documents"][d] = run[r].loaded[d]
    BY <1>1, <1>3, <2>1 DEF Replaced
  <2>4. InHandWritten(r)'
    BY <2>1, <2>3 DEF InHandWritten, InHand
  <2> HIDE DEF d
  <2>5. Progress(r)'
    BY <1>3, <1>4, <1>5, <2>1, <2>2 DEF Orderly, Progress
  <2>6. QED BY <2>1, <2>4, <2>5 DEF VectorsInPlace
<1>8. CASE WriteChunks(r)
  <2>1. /\ run'[r].batch = run[r].batch \ {d} /\ run'[r].documents = run[r].documents \cup {d}
        /\ run'[r].source = run[r].source /\ run'[r].loaded = run[r].loaded
        /\ run'[r].warned = run[r].warned /\ run'[r].sources = run[r].sources
        /\ run'[r].stage = run[r].stage
    BY <1>1, <1>8 DEF WriteChunks, Attempts
  <2>2. pc[r] = "chunking" /\ pc'[r] = "recording"
    BY <1>1, <1>8 DEF WriteChunks, Goto
  <2>3. /\ index'["documents"] = index["documents"]
        /\ index'["chunks"] = [index["chunks"] EXCEPT ![d] = run[r].loaded[d]]
    BY <1>1, <1>8 DEF WriteChunks
  <2>4. /\ \A e \in Documents \ {d} : index'["chunks"][e] = index["chunks"][e]
        /\ index'["chunks"][d] = run[r].loaded[d]
    BY <1>1, <1>3, <2>3
  <2>5. index["documents"][d] = run[r].loaded[d]
    BY <2>2 DEF Orderly, InHandWritten
  <2> HIDE DEF d
  <2>6. Progress(r)'
    BY <1>3, <1>4, <1>5, <2>1, <2>3, <2>4, <2>5 DEF Orderly, Progress
  <2>7. QED BY <2>2, <2>6 DEF InHandWritten, VectorsInPlace
<1>9. QED BY <1>6, <1>7, <1>8

LEMMA RecordStep ==
  ASSUME Orderly, TypeOK', NEW r \in Runners, RecordDocument(r) \/ RecordSource(r) \/ EndPipeline(r)
  PROVE  Progress(r)' /\ InHandWritten(r)' /\ VectorsInPlace(r)'
<1>1. /\ pc \in [Runners -> {"idle", "starting"} \cup Inside] /\ run \in [Runners -> Attempts]
      /\ run[r] \in Attempts
  BY DEF Orderly, Placed, TypeOK
<1>2. index' = index
  BY DEF RecordDocument, RecordSource, EndPipeline
<1>3. run[r].stage = 1
  BY DEF RecordDocument, RecordSource, EndPipeline, Orderly, Placed, Place
<1>4. CASE RecordDocument(r)
  <2>1. run' = run /\ pc[r] = "recording" /\ pc'[r] = "writing"
    BY <1>1, <1>4 DEF RecordDocument, Goto
  <2>2. QED BY <1>2, <2>1 DEF Orderly, Progress, InHandWritten, VectorsInPlace
<1>5. CASE RecordSource(r)
  <2>1. /\ run'[r].sources = run[r].sources \cup {run[r].source}
        /\ run'[r].source = run[r].source /\ run'[r].loaded = run[r].loaded
        /\ run'[r].warned = run[r].warned /\ run'[r].documents = run[r].documents
        /\ run'[r].batch = run[r].batch /\ run'[r].stage = run[r].stage
    BY <1>1, <1>5 DEF RecordSource, Attempts
  <2>2. pc[r] = "writing" /\ pc'[r] = "loading" /\ run[r].batch = {}
    BY <1>1, <1>5 DEF RecordSource, Goto
  <2>3. Progress(r)'
    BY <1>2, <2>1 DEF Orderly, Progress
  <2>4. QED BY <2>2, <2>3 DEF InHandWritten, VectorsInPlace
<1>6. CASE EndPipeline(r)
  <2>1. run' = run /\ pc[r] = "loading"
    BY <1>6 DEF EndPipeline
  <2>2. run[r].batch = {} /\ run[r].source \in run[r].sources \cup {0}
    BY <2>1 DEF Orderly, Placed, Place
  <2>3. Written(r) = run[r].documents
    BY DEF Orderly, Placed, NothingToResume, Written, ResumedDocuments
  <2>4. pc'[r] = IF run[r].documents = {} \/ Derived = <<>> THEN "finishing" ELSE "clearing"
    BY <1>1, <1>6, <2>3 DEF EndPipeline, Goto
  <2>5. Derived \in Seq(STRING) /\ (Derived = <<>> => Len(Derived) = 0)
        /\ (Derived # <<>> => 1 \in DOMAIN Derived)
    BY RunAssumption
  <2>6. InHandWritten(r)'
    BY <2>4 DEF InHandWritten
  <2>7. \A k \in DOMAIN Derived : ~ (k < 1)
    BY <2>5
  <2>8. QED BY <1>2, <1>3, <2>1, <2>6, <2>7 DEF Orderly, Progress, VectorsInPlace
<1>7. QED BY <1>4, <1>5, <1>6

(* The vector stores.                                                        *)
LEMMA FilledIs ==
  ASSUME TypeOK, NEW s \in Stores, NEW D \in SUBSET Documents, NEW value,
         index' = Filled(s, D, value)
  PROVE  /\ \A t \in Stores \ {s} : index'[t] = index[t]
         /\ \A d \in D : index'[s][d] = value[d]
BY DEF Filled, TypeOK

LEMMA VectorStep ==
  ASSUME Orderly, TypeOK', NEW r \in Runners, ClearStore(r) \/ FillStore(r) \/ FillPartly(r)
  PROVE  Progress(r)' /\ InHandWritten(r)' /\ VectorsInPlace(r)'
<1>1. /\ pc \in [Runners -> {"idle", "starting"} \cup Inside] /\ run \in [Runners -> Attempts]
      /\ run[r] \in Attempts /\ TypeOK
      /\ "documents" \in Stores /\ "chunks" \in Stores
      /\ \A k \in DOMAIN Derived : Derived[k] \in Stores
  BY DEF Orderly, Placed, TypeOK, Stores, DerivedStores
<1>2. pc[r] \in {"clearing", "filling"}
  BY DEF ClearStore, FillStore, FillPartly, Fill
<1> DEFINE n == run[r].stage
<1>3. /\ run[r].batch = {} /\ run[r].source \in run[r].sources \cup {0}
      /\ n \in DOMAIN Derived /\ Store(r) = Derived[n] /\ n \in Nat
  BY <1>1, <1>2, RunAssumption DEF Orderly, Placed, Place, Store
<1>4. Written(r) = run[r].documents /\ run[r].documents \in SUBSET Documents
  BY <1>1 DEF Orderly, Placed, NothingToResume, Written, ResumedDocuments, Attempts
<1>5. /\ run'[r].sources = run[r].sources /\ run'[r].source = run[r].source
      /\ run'[r].loaded = run[r].loaded /\ run'[r].documents = run[r].documents
      /\ run'[r].batch = run[r].batch
  BY <1>1 DEF ClearStore, FillStore, FillPartly, Attempts
<1>6. PICK D \in SUBSET run[r].documents, value \in {run[r].loaded, NoVersions} :
        \/ index' = Filled(Store(r), D, value)
        \/ index' = index
  BY <1>4 DEF ClearStore, FillStore, FillPartly, Fill
<1>7. \A t \in Stores \ {Derived[n]} : index'[t] = index[t]
  <2>1. D \in SUBSET Documents
    BY <1>4
  <2>2. Store(r) \in Stores
    BY <1>1, <1>3
  <2>3. CASE index' = Filled(Store(r), D, value)
    BY <1>1, <1>3, <2>1, <2>2, <2>3, FilledIs
  <2>4. QED BY <1>6, <2>3
<1>8. /\ \A k \in DOMAIN Derived : k # n => index'[Derived[k]] = index[Derived[k]]
      /\ index'["documents"] = index["documents"] /\ index'["chunks"] = index["chunks"]
  BY <1>1, <1>3, <1>7, RunAssumption
<1>9. Progress(r)'
  <2>1. run'[r].warned = run[r].warned \/ run'[r].warned
    BY <1>1 DEF ClearStore, FillStore, FillPartly, Attempts
  <2>2. QED BY <1>5, <1>8, <2>1 DEF Orderly, Progress
<1>10. CASE ClearStore(r)
  <2>1. run' = run /\ pc'[r] = "filling"
    BY <1>1, <1>10 DEF ClearStore, Goto
  <2>2. InHandWritten(r)'
    BY <2>1 DEF InHandWritten
  <2>3. VectorsInPlace(r)'
    BY <1>2, <1>3, <1>8, <2>1 DEF Orderly, VectorsInPlace
  <2>4. QED BY <1>9, <2>2, <2>3
<1>11. CASE FillStore(r) \/ FillPartly(r)
  <2>1. /\ run'[r].stage = n + 1
        /\ pc'[r] = IF n = Len(Derived) THEN "finishing" ELSE "clearing"
    BY <1>1, <1>11 DEF FillStore, FillPartly, Fill, Goto, Attempts
  <2>2. n \in 1 .. Len(Derived) /\ DOMAIN Derived = 1 .. Len(Derived) /\ Len(Derived) \in Nat
    BY <1>3, RunAssumption
  <2>3. InHandWritten(r)'
    BY <2>1 DEF InHandWritten
  <2>4. ASSUME ~ run'[r].warned
        PROVE  /\ ~ run[r].warned
               /\ \A d \in run[r].documents : index'[Derived[n]][d] = run[r].loaded[d]
    <3>1. FillStore(r)
      BY <1>1, <1>11, <2>4 DEF FillPartly, Attempts
    <3>2. index' = Filled(Derived[n], run[r].documents, run[r].loaded)
      BY <1>3, <1>4, <3>1 DEF FillStore, Fill
    <3>3. run'[r].warned = run[r].warned
      BY <1>1, <3>1 DEF FillStore, Attempts
    <3>4. Derived[n] \in Stores
      BY <1>1, <1>3
    <3> HIDE DEF n
    <3>5. \A d \in run[r].documents : index'[Derived[n]][d] = run[r].loaded[d]
      <4>1. TypeOK /\ run[r].documents \in SUBSET Documents
        BY <1>1, <1>4
      <4>2. QED BY <3>2, <3>4, <4>1, FilledIs
    <3>6. QED BY <2>4, <3>3, <3>5
  <2>5. VectorsInPlace(r)'
    <3> HIDE DEF n
    <3>1. SUFFICES ASSUME ~ run'[r].warned, NEW k \in DOMAIN Derived, k < n + 1,
                          NEW d \in run[r].documents
                   PROVE  index'[Derived[k]][d] = run[r].loaded[d]
      BY <1>5, <2>1 DEF VectorsInPlace
    <3>2. CASE k = n
      BY <2>4, <3>1, <3>2
    <3>3. CASE k # n
      <4>1. k < n
        BY <2>2, <3>1, <3>3
      <4>2. index[Derived[k]][d] = run[r].loaded[d]
        BY <1>2, <2>4, <3>1, <4>1 DEF Orderly, VectorsInPlace, n
      <4>3. QED BY <1>8, <3>3, <4>2
    <3>4. QED BY <3>2, <3>3
  <2>6. QED BY <1>9, <2>3, <2>5
<1>12. QED BY <1>10, <1>11
-----------------------------------------------------------------------------
LEMMA ThrowStep ==
  ASSUME Orderly, TypeOK', NEW r \in Runners, Throw(r)
  PROVE  Progress(r)' /\ InHandWritten(r)' /\ VectorsInPlace(r)'
<1>1. run' = run /\ index' = index /\ pc'[r] = "failing"
  BY DEF Throw, Goto, Orderly, TypeOK
<1>2. QED BY <1>1 DEF Orderly, Progress, InHandWritten, VectorsInPlace

LEMMA WorkStep ==
  ASSUME Orderly, TypeOK', NEW r \in Runners, Attempt(r)
  PROVE  Progress(r)' /\ InHandWritten(r)' /\ VectorsInPlace(r)'
<1>1. CASE Stop(r)
  BY <1>1, Stopped DEF Orderly, Placed
<1>2. CASE ~ Stop(r)
  BY <1>2, TakingStep, LoadStep, WriteStep, RecordStep, VectorStep, ThrowStep
     DEF Attempt, StartThrows, SelectThrows, Finish, Fail, Die
<1>3. QED BY <1>1, <1>2

(* The index is as the last attempt to finish has left it until another one  *)
(* takes the row.                                                            *)
LEMMA BorneStep ==
  ASSUME Orderly, TypeOK', NEW r \in Runners, Attempt(r)
  PROVE  Borne'
<1>1. CASE Finish(r)
  <2>1. /\ row' = Row(IF run[r].warned THEN "completed_with_warnings" ELSE "completed", {}, {})
        /\ report' = [loaded |-> run[r].loaded, written |-> Written(r)]
        /\ index' = index /\ pc[r] = "finishing"
    BY <1>1 DEF Finish
  <2>2. /\ report'.loaded = run[r].loaded /\ report'.written = run[r].documents
        /\ row'.status = "completed" => ~ run[r].warned
    BY <2>1 DEF Orderly, Placed, NothingToResume, Written, ResumedDocuments, Row
  <2>3. run[r].batch = {} /\ (run[r].documents = {} \/ run[r].stage = Len(Derived) + 1)
    BY <2>1 DEF Orderly, Placed, Place
  <2>4. \A d \in run[r].documents : /\ index["documents"][d] = run[r].loaded[d]
                                    /\ index["chunks"][d] = run[r].loaded[d]
    BY DEF Orderly, Progress
  <2>5. ASSUME row'.status = "completed", NEW d \in Documents, report'.loaded[d] # Absent
        PROVE  \A s \in Stores : index'[s][d] = report'.loaded[d]
    <3>1. d \in run[r].documents
      BY <2>2, <2>3, <2>5 DEF Orderly, Progress
    <3>2. \A k \in DOMAIN Derived : k < Len(Derived) + 1
      BY RunAssumption
    <3>3. \A k \in DOMAIN Derived : index[Derived[k]][d] = run[r].loaded[d]
      BY <2>1, <2>2, <2>3, <2>5, <3>1, <3>2 DEF Orderly, VectorsInPlace
    <3>4. QED BY <2>1, <2>2, <2>4, <3>1, <3>3 DEF Stores, DerivedStores
  <2>6. \A d \in report'.written : \A s \in {"documents", "chunks"} :
          index'[s][d] = report'.loaded[d]
    BY <2>1, <2>2, <2>4
  <2>7. QED BY <2>5, <2>6 DEF Borne, Complete
<1>2. CASE ~ Finish(r)
  <2>1. \/ row'.status \notin Done
        \/ row' = row /\ index' = index /\ report' = report
    <3>1. pc[r] \in Inside => row.status \notin Done
      BY DEF Orderly, Exclusive, ActiveStatuses, Done
    <3>2. CASE row' = row /\ pc[r] \in Inside
      BY <3>1, <3>2
    <3>3. CASE Begin(r) \/ StartThrows(r) \/ Die(r) \/ SelectThrows(r)
      <4>1. index' = index /\ report' = report
        BY <3>3 DEF Begin, StartThrows, Die, SelectThrows
      <4>2. row' = row \/ row' = Row("loading_source", run[r].sources, run[r].documents)
        BY <3>3 DEF Begin, StartThrows, Die, SelectThrows, Resumed
      <4>3. QED BY <4>1, <4>2 DEF Row, Done
    <3>4. CASE \/ Start(r) \/ Select(r) \/ Prepare(r) \/ RecordDocument(r) \/ RecordSource(r)
               \/ EndPipeline(r) \/ Fail(r)
      BY <3>4 DEF Start, Select, Resumed, Prepare, RecordDocument, RecordSource, EndPipeline,
         Fail, FailedRow, Row, Done
    <3>5. CASE \/ LoadSource(r) \/ RejectDocument(r) \/ WriteDocument(r) \/ WriteChunks(r)
               \/ ChunksRejected(r) \/ ClearStore(r) \/ FillStore(r) \/ FillPartly(r) \/ Throw(r)
      BY <3>2, <3>5 DEF LoadSource, RejectDocument, WriteDocument, WriteChunks, ChunksRejected,
         ClearStore, FillStore, FillPartly, Fill, Throw, Inside, Try
    <3>6. QED BY <1>2, <3>3, <3>4, <3>5 DEF Attempt
  <2>2. "completed" \in Done
    BY DEF Done
  <2>3. QED BY <2>1, <2>2 DEF Orderly, Borne, Complete
<1>3. QED BY <1>1, <1>2
-----------------------------------------------------------------------------
LEMMA PlacedInit == Init => Placed
<1> SUFFICES ASSUME Init PROVE Placed
  OBVIOUS
<1>1. TypeOK /\ NothingToResume
  BY TypedInit DEF Init, NothingToResume, NoRow, Row, NoAttempt
<1>2. ASSUME NEW r \in Runners
      PROVE  Place(r)
  <2>1. pc[r] = "idle" /\ run[r] = NoAttempt
    BY DEF Init
  <2>2. QED BY <2>1 DEF Place, NoAttempt
<1>3. QED BY <1>1, <1>2 DEF Placed

LEMMA InvInit == Init => IInv
<1> SUFFICES ASSUME Init PROVE IInv
  OBVIOUS
<1>1. Placed
  BY PlacedInit
<1>2. Exclusive
  BY DEF Init, Exclusive, AtRun, Claiming, Inside, Try
<1>3. ASSUME NEW r \in Runners
      PROVE  Progress(r) /\ InHandWritten(r) /\ VectorsInPlace(r)
  <2>1. pc[r] = "idle" /\ run[r] = NoAttempt
    BY DEF Init
  <2>2. QED BY <2>1 DEF Progress, InHandWritten, VectorsInPlace, NoAttempt, NoVersions
<1>4. Borne
  BY DEF Init, Borne, NoRow, Row, Done
<1>5. QED BY <1>1, <1>2, <1>3, <1>4 DEF IInv, Orderly

(* Who has loaded nothing yet has nothing to keep in the index.              *)
LEMMA NothingInHand ==
  ASSUME Placed', NEW q \in Runners, pc'[q] \in {"idle", "starting", "selecting"}
  PROVE  Progress(q)' /\ InHandWritten(q)' /\ VectorsInPlace(q)'
<1>1. TypeOK' /\ Place(q)'
  BY DEF Placed
<1>2. run'[q].documents = {} /\ run'[q].batch = {} /\ run'[q].loaded = NoVersions
  BY <1>1 DEF Place
<1>3. Progress(q)'
  BY <1>1, <1>2, AtStart
<1>4. QED BY <1>3 DEF InHandWritten, VectorsInPlace

LEMMA NotAtRun ==
  ASSUME TypeOK, NEW q \in Runners, ~ AtRun(q)
  PROVE  pc[q] \in {"idle", "starting"}
BY DEF TypeOK, AtRun

(* An attempt that takes the row with nobody else at it sets things right,   *)
(* whatever contending attempts have left behind.                            *)
LEMMA TakenAlone ==
  ASSUME Placed, Placed', NEW r \in Runners, Start(r), \A q \in Runners \ {r} : ~ AtRun(q)
  PROVE  Orderly'
<1>1. TypeOK /\ Attempt(r) /\ pc[r] = "starting" /\ "starting" \notin Inside
  BY DEF Placed, Start, Attempt, Inside, Try
<1>2. Exclusive'
  BY <1>1, ExclusiveStep
<1>3. pc'[r] = "selecting"
  BY <1>1 DEF Start, Goto, TypeOK
<1>4. ASSUME NEW q \in Runners
      PROVE  pc'[q] \in {"idle", "starting", "selecting"}
  BY <1>1, <1>3, Others, NotAtRun
<1>5. \A q \in Runners : Progress(q)' /\ InHandWritten(q)' /\ VectorsInPlace(q)'
  BY <1>4, NothingInHand
<1>6. row'.status = "queued"
  BY DEF Start, Row
<1>7. Borne'
  BY <1>6 DEF Borne, Done
<1>8. QED BY <1>2, <1>5, <1>7 DEF Orderly

LEMMA OrderlyStep ==
  ASSUME Orderly, Placed', ~ contended', NEW r \in Runners, Attempt(r)
  PROVE  Orderly'
<1>1. TypeOK /\ Placed /\ TypeOK'
  BY DEF Orderly, Placed
<1>2. Progress(r)' /\ InHandWritten(r)' /\ VectorsInPlace(r)'
  BY <1>1, WorkStep
<1>3. Borne'
  BY <1>1, BorneStep
<1>4. CASE AtRun(r) \/ Begin(r) \/ Start(r)
  <2>1. \A q \in Runners \ {r} : ~ AtRun(q)
    BY <1>4, Alone
  <2>2. pc[r] \in Inside => row.status \in ActiveStatuses
    BY DEF Orderly, Exclusive
  <2>3. Exclusive'
    BY <1>1, <2>1, <2>2, ExclusiveStep
  <2>4. ASSUME NEW q \in Runners \ {r}
        PROVE  pc'[q] \in {"idle", "starting", "selecting"}
    BY <1>1, <2>1, Others, NotAtRun
  <2>5. \A q \in Runners \ {r} : Progress(q)' /\ InHandWritten(q)' /\ VectorsInPlace(q)'
    BY <2>4, NothingInHand
  <2>6. QED BY <1>2, <1>3, <2>3, <2>5 DEF Orderly
<1>5. CASE ~ (AtRun(r) \/ Begin(r) \/ Start(r))
  <2>1. Stop(r) /\ row' = row /\ index' = index
    BY <1>5, GivesUp
  <2>2. pc'[r] = "idle" /\ ~ AtRun(r)'
    BY <1>1, <2>1 DEF Stop, Goto, TypeOK, AtRun, Claiming, Inside, Try
  <2>3. \A q \in Runners \ {r} : /\ pc'[q] = pc[q] /\ run'[q] = run[q]
                                  /\ (AtRun(q)' <=> AtRun(q)) /\ (Claiming(q)' <=> Claiming(q))
    BY <1>1, Others
  <2>4. Exclusive'
    <3>1. \A p, q \in Runners : AtRun(p)' /\ AtRun(q)' => p = q
      BY <2>2, <2>3 DEF Orderly, Exclusive
    <3>2. ASSUME NEW q \in Runners
          PROVE  /\ Claiming(q)' => run'[q].found = row' /\ row'.status \notin ActiveStatuses
                 /\ pc'[q] \in Inside => row'.status \in ActiveStatuses
      <4>1. CASE q = r
        BY <2>2, <4>1 DEF AtRun
      <4>2. CASE q # r
        BY <2>1, <2>3, <4>2 DEF Orderly, Exclusive
      <4>3. QED BY <4>1, <4>2
    <3>3. QED BY <3>1, <3>2 DEF Exclusive
  <2>5. ASSUME NEW q \in Runners \ {r}
        PROVE  Progress(q)' /\ InHandWritten(q)' /\ VectorsInPlace(q)'
    BY <2>1, <2>3 DEF Orderly, Progress, InHandWritten, InHand, VectorsInPlace
  <2>6. QED BY <1>2, <1>3, <2>4, <2>5 DEF Orderly
<1>6. QED BY <1>4, <1>5

LEMMA InvStep == IInv /\ [Next]_vars => IInv'
<1> SUFFICES ASSUME IInv, [Next]_vars PROVE IInv'
  OBVIOUS
<1>1. Placed /\ Placed'
  BY PlacedStep DEF IInv
<1>2. ASSUME NEW d \in Documents, Change(d), ~ contended'
      PROVE  Orderly'
  <2>1. UNCHANGED <<row, recorded, index, pc, run, report, attempts, faults, contended>>
    BY <1>2 DEF Change
  <2>2. QED
    BY <1>1, <1>2, <2>1 DEF IInv, Orderly, Exclusive, AtRun, Claiming, Progress, InHandWritten,
       InHand, VectorsInPlace, Borne, Complete
<1>3. ASSUME NEW r \in Runners, Attempt(r), ~ contended'
      PROVE  Orderly'
  <2>1. CASE contended
    <3>1. Start(r) /\ \A q \in Runners \ {r} : ~ AtRun(q)
      BY <1>1, <1>3, <2>1, ContendedStep DEF Placed
    <3>2. QED BY <1>1, <3>1, TakenAlone
  <2>2. CASE ~ contended
    BY <1>1, <1>3, <2>2, OrderlyStep DEF IInv
  <2>3. QED BY <2>1, <2>2
<1>4. ASSUME UNCHANGED vars, ~ contended'
      PROVE  Orderly'
  BY <1>1, <1>4 DEF vars, IInv, Orderly, Exclusive, AtRun, Claiming, Progress, InHandWritten,
     InHand, VectorsInPlace, Borne, Complete
<1>5. QED BY <1>1, <1>2, <1>3, <1>4 DEF Next, IInv
-----------------------------------------------------------------------------
(* The run as a task.                                                        *)

TaskState ==
  CASE row.status = "none" -> "open"
    [] row.status \in ActiveStatuses -> "taken"
    [] row.status = "completed_with_warnings" -> "warned"
    [] OTHER -> row.status
AtWork == {r \in Runners : pc[r] \in Inside}

LEMMA TaskStateIs ==
  ASSUME TypeOK
  PROVE  /\ row.status = "none" => TaskState = "open"
         /\ row.status \in ActiveStatuses <=> TaskState = "taken"
<1>1. row.status \in Statuses
  BY DEF TypeOK, Rows
<1>2. QED BY <1>1 DEF TaskState, Statuses, ActiveStatuses, Done

LEMMA TaskInit == Init => Task!Init
<1> SUFFICES ASSUME Init PROVE Task!Init
  OBVIOUS
<1>1. TaskState = "open"
  BY TypedInit, TaskStateIs DEF Init, NoRow, Row
<1>2. AtWork = {} /\ contended = FALSE
  BY DEF Init, AtWork, Inside, Try
<1>3. QED BY <1>1, <1>2 DEF Task!Init, TaskState, AtWork

(* An attempt that has taken the row and not given it up yet works, and the  *)
(* row says so.                                                              *)
LEMMA InsideStep ==
  ASSUME Orderly, Orderly', NEW r \in Runners, Attempt(r), pc[r] \in Inside, pc'[r] \in Inside
  PROVE  TaskState' = TaskState /\ report' = report
<1>1. row.status \in ActiveStatuses /\ row'.status \in ActiveStatuses
  BY DEF Orderly, Exclusive
<1>2. TaskState = "taken"
  BY <1>1, TaskStateIs DEF Orderly, Placed
<1>3. TaskState' = "taken"
  BY <1>1 DEF TaskState, ActiveStatuses
<1>4. pc'[r] # "idle"
  BY DEF Inside, Try
<1>5. pc \in [Runners -> {"idle", "starting"} \cup Inside]
  BY DEF Orderly, Placed, TypeOK
<1>6. ~ Finish(r)
  BY <1>4, <1>5 DEF Finish, Stop, Goto
<1>7. report' = report
  BY <1>6 DEF Attempt, Begin, Start, StartThrows, Select, SelectThrows, Prepare, LoadSource,
     RejectDocument, WriteDocument, WriteChunks, ChunksRejected, RecordDocument, RecordSource,
     EndPipeline, ClearStore, FillStore, FillPartly, Fill, Throw, Fail, Die
<1>8. QED BY <1>2, <1>3, <1>7

LEMMA OrderlyTaskStep ==
  ASSUME Orderly, Orderly', ~ contended, ~ contended', NEW r \in Runners, Attempt(r),
         AtRun(r) \/ Begin(r) \/ Start(r)
  PROVE  Task!Next \/ UNCHANGED Task!vars
<1>1. /\ pc \in [Runners -> {"idle", "starting"} \cup Inside] /\ contended' = contended
      /\ pc' = [pc EXCEPT ![r] = pc'[r]] /\ \A q \in Runners \ {r} : pc[q] \notin Inside
  BY Alone, OwnStep DEF Orderly, Placed, TypeOK, AtRun
<1>2. "idle" \notin Inside /\ "starting" \notin Inside
  BY DEF Inside, Try
<1>3. /\ AtWork = IF pc[r] \in Inside THEN {r} ELSE {}
      /\ AtWork' = IF pc'[r] \in Inside THEN {r} ELSE {}
  BY <1>1, <1>2 DEF AtWork
<1>4. CASE pc[r] \notin Inside /\ pc'[r] \notin Inside
  <2>1. Begin(r) \/ StartThrows(r) \/ Die(r)
    BY <1>1, <1>4 DEF Attempt, Start, Select, SelectThrows, Prepare, LoadSource,
       RejectDocument, WriteDocument, WriteChunks, ChunksRejected, RecordDocument, RecordSource,
       EndPipeline, ClearStore, FillStore, FillPartly, Fill, Finish, Throw, Fail, Goto,
       Inside, Try
  <2>2. row' = row /\ index' = index /\ report' = report
    BY <2>1 DEF Begin, StartThrows, Die
  <2>3. TaskState' = TaskState /\ AtWork' = AtWork
    BY <1>3, <1>4, <2>2 DEF TaskState
  <2>4. QED BY <1>1, <2>2, <2>3 DEF Task!vars, TaskState, AtWork
<1>5. CASE pc[r] \notin Inside /\ pc'[r] \in Inside
  <2>1. Start(r)
    BY <1>1, <1>2, <1>5 DEF Attempt, Begin, StartThrows, Select, SelectThrows, Prepare,
       LoadSource, RejectDocument, WriteDocument, WriteChunks, ChunksRejected, RecordDocument,
       RecordSource, EndPipeline, ClearStore, FillStore, FillPartly, Fill, Finish, Throw, Fail,
       Die, Stop, Goto, Inside, Try
  <2>2. row.status \notin ActiveStatuses
    BY <2>1 DEF Start, Claiming, Orderly, Exclusive, ActiveStatuses
  <2>3. TaskState # "taken"
    BY <2>2, TaskStateIs DEF Orderly, Placed
  <2>4. TaskState' = "taken"
    BY <2>1 DEF Start, Row, TaskState, ActiveStatuses
  <2>5. index' = index /\ report' = report
    BY <2>1 DEF Start
  <2>6. Task!Take(r)
    BY <1>1, <1>3, <1>5, <2>3, <2>4, <2>5 DEF Task!Take, TaskState, AtWork
  <2>7. QED BY <2>6 DEF Task!Next
<1>6. CASE pc[r] \in Inside /\ pc'[r] \in Inside
  <2>1. TaskState' = TaskState /\ report' = report
    BY <1>6, InsideStep
  <2>2. AtWork' = AtWork /\ AtWork # {}
    BY <1>3, <1>6
  <2>3. Task!Work
    BY <1>1, <2>1, <2>2 DEF Task!Work, TaskState, AtWork
  <2>4. QED BY <2>3 DEF Task!Next
<1>7. CASE pc[r] \in Inside /\ pc'[r] \notin Inside
  <2>1. AtWork # {} /\ AtWork' = {}
    BY <1>3, <1>7
  <2>2. CASE Finish(r)
    <3>1. index' = index
      BY <2>2 DEF Finish
    <3>2. /\ row'.status \in Done
          /\ \/ row'.status = "completed" /\ TaskState' = "completed"
             \/ row'.status = "completed_with_warnings" /\ TaskState' = "warned"
      BY <2>2 DEF Finish, Row, Done, TaskState, ActiveStatuses
    <3>3. /\ row'.status = "completed" => \A d \in Documents : report'.loaded[d] # Absent =>
               \A s \in Stores : index[s][d] = report'.loaded[d]
          /\ \A d \in report'.written : \A s \in {"documents", "chunks"} :
               index[s][d] = report'.loaded[d]
      BY <3>1, <3>2 DEF Orderly, Borne, Complete
    <3>4. Task!Finish
      BY <1>1, <2>1, <3>1, <3>2, <3>3 DEF Task!Finish, Task!Has, TaskState, AtWork
    <3>5. QED BY <3>4 DEF Task!Next
  <2>3. CASE Fail(r)
    <3>1. TaskState' = "failed" /\ index' = index /\ report' = report
      BY <2>3 DEF Fail, FailedRow, Row, TaskState, ActiveStatuses
    <3>2. Task!Fail
      BY <1>1, <2>1, <3>1 DEF Task!Fail, TaskState, AtWork
    <3>3. QED BY <3>2 DEF Task!Next
  <2>4. CASE SelectThrows(r) \/ Die(r)
    <3>1. row.status \in ActiveStatuses
      BY <1>7 DEF Orderly, Exclusive
    <3>2. /\ row' = row \/ row'.status = "loading_source"
          /\ index' = index /\ report' = report
      BY <2>4 DEF SelectThrows, Die, Resumed, Row
    <3>3. row'.status \in ActiveStatuses
      BY <3>1, <3>2 DEF ActiveStatuses
    <3>4. TaskState' = TaskState
      BY <3>1, <3>3 DEF TaskState, ActiveStatuses
    <3>5. Task!Vanish
      BY <1>1, <2>1, <3>2, <3>4 DEF Task!Vanish, TaskState, AtWork
    <3>6. QED BY <3>5 DEF Task!Next
  <2>5. QED
    BY <1>1, <1>7, <2>2, <2>3, <2>4 DEF Attempt, Begin, Start, StartThrows, Select, Prepare,
       LoadSource, RejectDocument, WriteDocument, WriteChunks, ChunksRejected, RecordDocument,
       RecordSource, EndPipeline, ClearStore, FillStore, FillPartly, Fill, Throw, Goto,
       Inside, Try
<1>8. QED BY <1>4, <1>5, <1>6, <1>7

LEMMA TaskStep ==
  ASSUME IInv, IInv', NEW r \in Runners, Attempt(r)
  PROVE  Task!Next \/ UNCHANGED Task!vars
<1>1. TypeOK /\ TypeOK' /\ contended \in BOOLEAN /\ contended' \in BOOLEAN
  BY DEF IInv, Placed, TypeOK
<1>2. CASE contended /\ contended'
  BY <1>2 DEF Task!Next, Task!Contend
<1>3. CASE ~ contended /\ contended'
  <2>1. Orderly /\ Begin(r)
    BY <1>1, <1>3, ContendedStep DEF IInv
  <2>2. PICK q \in Runners : Claiming(q)
    BY <1>1, <1>3, ContendedStep
  <2>3. row.status # "none" /\ row.status \notin ActiveStatuses /\ row.status \in Statuses
    BY <1>1, <2>1, <2>2 DEF Orderly, Exclusive, Claiming, TypeOK, Rows
  <2>4. TaskState \in {"failed", "warned", "completed"}
    BY <2>3 DEF TaskState, Statuses, Done
  <2>5. AtWork = {}
    BY <2>1, <2>3 DEF Orderly, Exclusive, AtWork
  <2>6. AtWork' = {}
    BY <1>1, <2>1, <2>5 DEF Begin, Goto, TypeOK, AtWork, Inside, Try
  <2>7. row' = row /\ index' = index /\ report' = report
    BY <2>1 DEF Begin
  <2>8. TaskState' = TaskState
    BY <2>7 DEF TaskState
  <2>9. Task!Collide
    BY <1>1, <1>3, <2>4, <2>5, <2>6, <2>7, <2>8 DEF Task!Collide, TaskState, AtWork
  <2>10. QED BY <2>9 DEF Task!Next
<1>4. CASE contended /\ ~ contended'
  <2>1. Start(r) /\ \A q \in Runners \ {r} : ~ AtRun(q)
    BY <1>1, <1>4, ContendedStep
  <2>2. pc[r] = "starting" /\ pc'[r] = "selecting" /\ index' = index /\ report' = report
    BY <1>1, <2>1 DEF Start, Goto, TypeOK
  <2>3. \A q \in Runners \ {r} : pc[q] \notin Inside /\ pc'[q] \notin Inside
    BY <1>1, <2>1, Others DEF AtRun
  <2>4. AtWork = {} /\ AtWork' = {r}
    BY <2>2, <2>3 DEF AtWork, Inside, Try
  <2>5. TaskState' = "taken"
    BY <2>1 DEF Start, Row, TaskState, ActiveStatuses
  <2>6. Task!Take(r)
    BY <1>1, <1>4, <2>2, <2>4, <2>5 DEF Task!Take, TaskState, AtWork
  <2>7. QED BY <2>6 DEF Task!Next
<1>5. CASE ~ contended /\ ~ contended'
  <2>1. Orderly /\ Orderly' /\ contended' = contended
    BY <1>1, <1>5 DEF IInv
  <2>2. CASE AtRun(r) \/ Begin(r) \/ Start(r)
    BY <1>5, <2>1, <2>2, OrderlyTaskStep
  <2>3. CASE ~ (AtRun(r) \/ Begin(r) \/ Start(r))
    <3>1. Stop(r) /\ pc[r] \notin Inside /\ UNCHANGED <<row, index, report>>
      BY <2>3, GivesUp
    <3>2. AtWork' = AtWork
      BY <1>1, <3>1 DEF Stop, Goto, TypeOK, AtWork, Inside, Try
    <3>3. TaskState' = TaskState
      BY <3>1 DEF TaskState
    <3>4. QED BY <2>1, <3>1, <3>2, <3>3 DEF Task!vars, TaskState, AtWork
  <2>4. QED BY <2>2, <2>3
<1>6. QED BY <1>1, <1>2, <1>3, <1>4, <1>5

-----------------------------------------------------------------------------
(* The steps that an attempt has left.                                       *)

LEMMA OneSourceLess ==
  ASSUME NEW n \in Nat
  PROVE  /\ ToLoad(n) \in Nat /\ ToLoad(n) >= 3
         /\ ToLoad(0) = 2 * Len(Derived) + 3
         /\ n # 0 => /\ ToLoad(n - 1) \in Nat /\ ToLoad(n - 1) >= 3
                    /\ ToLoad(n) = ToLoad(n - 1) + 3 * Cardinality(Documents) + 2
         /\ \A k \in 0 .. n : ToLoad(k) <= ToLoad(n)
<1> DEFINE c == PerSource
           L == 2 * Len(Derived) + 3
<1>1. Cardinality(Documents) \in Nat /\ Len(Derived) \in Nat
  BY RunAssumption, FS_CardinalityType
<1>2. c \in Nat /\ c = 3 * Cardinality(Documents) + 2 /\ L \in Nat /\ L >= 3
  BY <1>1 DEF PerSource
<1>3. /\ ToLoad(n) = L + c * n /\ ToLoad(0) = L + c * 0 /\ ToLoad(n - 1) = L + c * (n - 1)
      /\ \A k \in 0 .. n : ToLoad(k) = L + c * k
  BY DEF ToLoad
<1> HIDE DEF c, L
<1>4. c * n \in Nat /\ c * 0 = 0
  BY <1>2
<1>5. n # 0 => c * n = c * (n - 1) + c /\ c * (n - 1) \in Nat
  BY <1>2
<1>6. \A k \in 0 .. n : c * k \in Nat /\ c * k <= c * n
  <2>1. TAKE k \in 0 .. n
  <2>2. c * n = c * k + c * (n - k) /\ c * k \in Nat /\ c * (n - k) \in Nat
    BY <1>2
  <2>3. QED BY <1>4, <2>2
<1>7. ToLoad(n) \in Nat /\ ToLoad(n) >= 3 /\ ToLoad(0) = L
  BY <1>2, <1>3, <1>4
<1>8. n # 0 => /\ ToLoad(n - 1) \in Nat /\ ToLoad(n - 1) >= 3
              /\ ToLoad(n) = ToLoad(n - 1) + 3 * Cardinality(Documents) + 2
  <2> DEFINE x == c * n
             y == c * (n - 1)
  <2>1. n # 0 => x = y + c /\ y \in Nat
    BY <1>5
  <2>2. ToLoad(n) = L + x /\ ToLoad(n - 1) = L + y
    BY <1>3
  <2> HIDE DEF x, y
  <2>3. QED BY <1>1, <1>2, <2>1, <2>2
<1>9. \A k \in 0 .. n : ToLoad(k) <= ToLoad(n)
  BY <1>2, <1>3, <1>4, <1>6
<1>10. QED BY <1>7, <1>8, <1>9 DEF L

LEMMA Counted ==
  ASSUME NEW S \in SUBSET Sources, NEW D \in SUBSET Documents
  PROVE  /\ Cardinality(Sources \ S) \in Nat
         /\ Cardinality(Sources \ S) <= Cardinality(Sources)
         /\ Cardinality(D) \in Nat /\ Cardinality(D) <= Cardinality(Documents)
         /\ \A x \in Sources \ S : Cardinality(Sources \ S) # 0
              /\ Cardinality(Sources \ (S \cup {x})) = Cardinality(Sources \ S) - 1
         /\ \A d \in D : Cardinality(D \ {d}) = Cardinality(D) - 1 /\ Cardinality(D) # 0
<1>1. /\ IsFiniteSet(Sources \ S) /\ Cardinality(Sources \ S) <= Cardinality(Sources)
      /\ IsFiniteSet(D) /\ Cardinality(D) <= Cardinality(Documents)
  BY FS_Subset, RunAssumption
<1>2. Cardinality(Sources \ S) \in Nat /\ Cardinality(D) \in Nat
  BY <1>1, FS_CardinalityType
<1>3. ASSUME NEW x \in Sources \ S
      PROVE  /\ Cardinality(Sources \ S) # 0
             /\ Cardinality(Sources \ (S \cup {x})) = Cardinality(Sources \ S) - 1
  <2>1. Sources \ (S \cup {x}) = (Sources \ S) \ {x}
    OBVIOUS
  <2>2. Cardinality(Sources \ S) # 0
    BY <1>1, FS_EmptySet
  <2>3. Cardinality((Sources \ S) \ {x}) = Cardinality(Sources \ S) - 1
    BY <1>1, FS_RemoveElement
  <2>4. QED BY <2>1, <2>2, <2>3
<1>4. ASSUME NEW d \in D
      PROVE  Cardinality(D \ {d}) = Cardinality(D) - 1 /\ Cardinality(D) # 0
  BY <1>1, FS_RemoveElement, FS_EmptySet
<1>5. QED BY <1>1, <1>2, <1>3, <1>4

(* How many they are at most, and that there are some until it ends.         *)
LEMMA StepsCounted ==
  ASSUME Placed, NEW r \in Runners
  PROVE  /\ StepsLeft(r) \in 0 .. ToLoad(Cardinality(Sources)) + 3
         /\ pc[r] # "idle" => StepsLeft(r) >= 1
         /\ pc[r] \in Try => StepsLeft(r) >= 2
<1> DEFINE N == Cardinality(Sources)
           n == Cardinality(Sources \ run[r].sources)
           m == Cardinality(run[r].batch)
<1>1. /\ run[r].sources \in SUBSET Sources /\ run[r].batch \in SUBSET Documents
      /\ run[r].stage \in 1 .. Len(Derived) + 1 /\ Len(Derived) \in Nat
      /\ DOMAIN Derived = 1 .. Len(Derived)
      /\ pc[r] \in {"idle", "starting"} \cup Inside /\ Place(r)
  BY RunAssumption DEF Placed, TypeOK, Attempts
<1>2. /\ n \in Nat /\ m \in Nat /\ m <= Cardinality(Documents) /\ Cardinality(Documents) \in Nat
      /\ N \in Nat /\ n <= N
  BY <1>1, Counted, FS_CardinalityType, RunAssumption
<1>3. /\ ToLoad(n) \in Nat /\ ToLoad(n) >= 3 /\ ToLoad(N) \in Nat /\ ToLoad(n) <= ToLoad(N)
      /\ n # 0 => /\ ToLoad(n) = ToLoad(n - 1) + 3 * Cardinality(Documents) + 2
                  /\ ToLoad(n - 1) \in Nat /\ ToLoad(n - 1) >= 3
  <2>1. /\ ToLoad(n) \in Nat /\ ToLoad(n) >= 3
        /\ n # 0 => /\ ToLoad(n) = ToLoad(n - 1) + 3 * Cardinality(Documents) + 2
                    /\ ToLoad(n - 1) \in Nat /\ ToLoad(n - 1) >= 3
    BY <1>2, OneSourceLess
  <2>2. ToLoad(N) \in Nat /\ \A k \in 0 .. N : ToLoad(k) <= ToLoad(N)
    BY <1>2, OneSourceLess
  <2>3. n \in 0 .. N
    BY <1>2
  <2>4. QED BY <2>1, <2>2, <2>3
<1>4. ToLoad(N) >= 2 * Len(Derived) + 3
  <2>1. ToLoad(0) = 2 * Len(Derived) + 3 /\ ToLoad(0) <= ToLoad(N)
    BY <1>2, OneSourceLess
  <2>2. QED BY <2>1
<1>5. CASE pc[r] \in {"idle", "starting", "selecting", "preparing", "loading", "failing"}
  <2>1. /\ pc[r] = "idle" => StepsLeft(r) = 0
        /\ pc[r] = "failing" => StepsLeft(r) = 1
        /\ pc[r] = "starting" => StepsLeft(r) = ToLoad(n) + 3
        /\ pc[r] = "selecting" => StepsLeft(r) = ToLoad(n) + 2
        /\ pc[r] = "preparing" => StepsLeft(r) = ToLoad(n) + 1
        /\ pc[r] = "loading" => StepsLeft(r) = ToLoad(n)
    BY DEF StepsLeft
  <2>2. "failing" \notin Try /\ "idle" \notin Try
    BY DEF Try
  <2> HIDE DEF N, n
  <2>3. StepsLeft(r) \in 0 .. ToLoad(N) + 3
    BY <1>3, <1>5, <2>1
  <2>4. /\ pc[r] # "idle" => StepsLeft(r) >= 1
        /\ pc[r] \in Try => StepsLeft(r) >= 2
    BY <1>3, <1>5, <2>1, <2>2
  <2>5. QED BY <2>3, <2>4 DEF N
<1>6. CASE pc[r] \in {"writing", "chunking", "recording"}
  <2>1. n # 0
    BY <1>1, <1>6, Counted DEF Place
  <2>2. StepsLeft(r) \in {ToLoad(n - 1) + 3 * m + 1, ToLoad(n - 1) + 3 * m,
                         ToLoad(n - 1) + 3 * m + 2}
    BY <1>6 DEF StepsLeft
  <2>3. QED BY <1>2, <1>3, <1>6, <2>1, <2>2
<1>7. CASE pc[r] \in {"clearing", "filling", "finishing"}
  <2> DEFINE j == run[r].stage
             stores == 2 * (Len(Derived) + 1 - j)
  <2>1. /\ pc[r] = "clearing" => StepsLeft(r) = stores + 2
        /\ pc[r] = "filling" => StepsLeft(r) = stores + 1
        /\ pc[r] = "finishing" => StepsLeft(r) = 2
    BY DEF StepsLeft
  <2>2. pc[r] \in {"clearing", "filling"} => j \in 1 .. Len(Derived)
    BY <1>1 DEF Place
  <2>3. pc[r] \in {"clearing", "filling"} => stores \in Nat /\ stores >= 2
                                            /\ stores <= 2 * Len(Derived)
    BY <1>1, <2>2
  <2> HIDE DEF N, stores
  <2>4. StepsLeft(r) >= 2 /\ StepsLeft(r) \in 0 .. ToLoad(N) + 3
    BY <1>1, <1>3, <1>4, <1>7, <2>1, <2>3
  <2>5. QED BY <2>4 DEF N
<1>8. QED BY <1>1, <1>5, <1>6, <1>7 DEF Inside, Try

LEMMA StepsDown ==
  ASSUME Placed, Placed', NEW r \in Runners, pc[r] # "idle", Attempt(r)
  PROVE  StepsLeft(r)' < StepsLeft(r)
<1> DEFINE n == Cardinality(Sources \ run[r].sources)
           m == Cardinality(run[r].batch)
<1>1. /\ run[r].sources \in SUBSET Sources /\ run[r].batch \in SUBSET Documents
      /\ run'[r].sources \in SUBSET Sources /\ run'[r].batch \in SUBSET Documents
      /\ run[r].stage \in Nat /\ Len(Derived) \in Nat
      /\ Place(r)
  BY RunAssumption DEF Placed, TypeOK, Attempts
<1>2. n \in Nat /\ m \in Nat /\ m <= Cardinality(Documents) /\ Cardinality(Documents) \in Nat
  BY <1>1, Counted, FS_CardinalityType, RunAssumption
<1>3. /\ ToLoad(n) \in Nat /\ ToLoad(n) >= 3
      /\ n # 0 => /\ ToLoad(n) = ToLoad(n - 1) + 3 * Cardinality(Documents) + 2
                  /\ ToLoad(n - 1) \in Nat
  BY <1>2, OneSourceLess
<1>4. Moves(r)
  BY AttemptMoves
<1>5. CASE Ends(r)
  <2>1. StepsLeft(r)' = 0
    BY <1>5 DEF Ends, StepsLeft
  <2>2. QED BY <2>1, StepsCounted
<1>6. CASE Throws(r)
  <2>1. StepsLeft(r)' = 1
    BY <1>6 DEF Throws, StepsLeft
  <2>2. QED BY <1>6, <2>1, StepsCounted DEF Throws
<1>7. CASE Takes(r)
  BY <1>3, <1>7 DEF Takes, From, SameWork, SameLoad, StepsLeft
<1>8. CASE Loads(r)
  <2>1. n # 0 /\ Cardinality(run'[r].batch) \in Nat
        /\ Cardinality(run'[r].batch) <= Cardinality(Documents)
    BY <1>1, <1>8, Counted DEF Loads
  <2>2. QED BY <1>2, <1>3, <1>8, <2>1 DEF Loads, From, StepsLeft
<1>9. CASE Writes(r) \/ Records(r) \/ TakesOff(r)
  <2>1. n # 0
    BY <1>1, <1>9, Counted DEF Writes, Records, TakesOff, From, Place
  <2>2. n - 1 \in Nat /\ ToLoad(n - 1) \in Nat
    BY <1>2, <1>3, <2>1
  <2>3. Cardinality(Sources \ run'[r].sources) = n
    BY <1>9 DEF Writes, Records, TakesOff, SameWork, SameLoad
  <2>4. CASE Writes(r) \/ Records(r)
    <3>1. Cardinality(run'[r].batch) = m
      BY <2>4 DEF Writes, Records, SameWork
    <3>2. \/ /\ StepsLeft(r) = ToLoad(n - 1) + 3 * m + 1
             /\ StepsLeft(r)' = ToLoad(n - 1) + 3 * m
          \/ /\ StepsLeft(r) = ToLoad(n - 1) + 3 * m + 2
             /\ StepsLeft(r)' = ToLoad(n - 1) + 3 * m + 1
      BY <2>3, <2>4, <3>1 DEF Writes, Records, From, StepsLeft
    <3> HIDE DEF n, m
    <3>3. QED BY <1>2, <2>2, <3>2
  <2>5. CASE TakesOff(r)
    <3>1. InHand(r) \in run[r].batch
      BY <2>5, InHandIsOne DEF TakesOff, Placed
    <3>2. Cardinality(run'[r].batch) = m - 1
      BY <1>1, <2>5, <3>1, Counted DEF TakesOff
    <3>3. /\ StepsLeft(r) \in {ToLoad(n - 1) + 3 * m + 1, ToLoad(n - 1) + 3 * m}
          /\ StepsLeft(r)' \in {ToLoad(n - 1) + 3 * (m - 1) + 1,
                               ToLoad(n - 1) + 3 * (m - 1) + 2}
      BY <2>3, <2>5, <3>2 DEF TakesOff, From, StepsLeft
    <3> HIDE DEF n, m
    <3>4. QED BY <1>2, <2>2, <3>3
  <2>6. QED BY <1>9, <2>4, <2>5
<1>10. CASE Completes(r)
  <2>1. n # 0 /\ Cardinality(Sources \ run'[r].sources) = n - 1
    BY <1>1, <1>10, Counted DEF Completes, From, Place
  <2>2. QED BY <1>2, <1>3, <1>10, <2>1 DEF Completes, From, StepsLeft
<1>11. CASE Leaves(r)
  <2>1. n = 0
    BY <1>11, FS_EmptySet DEF Leaves
  <2>2. ToLoad(n) = 2 * Len(Derived) + 3
    BY <2>1, OneSourceLess
  <2>3. run[r].stage = 1
    BY <1>1, <1>11 DEF Leaves, Place
  <2>4. QED BY <1>1, <1>11, <2>2, <2>3 DEF Leaves, SameWork, SameLoad, StepsLeft
<1>12. CASE Clears(r)
  BY <1>1, <1>12 DEF Clears, From, SameWork, SameLoad, StepsLeft
<1>13. CASE Fills(r)
  BY <1>1, <1>13 DEF Fills, StepsLeft
<1>14. QED
  BY <1>4, <1>5, <1>6, <1>7, <1>8, <1>9, <1>10, <1>11, <1>12, <1>13 DEF Moves, Sets

-----------------------------------------------------------------------------
(* The theorems.                                                             *)

LEMMA PlacedInvariance == Spec => []Placed
BY PlacedInit, PlacedStep, PTL DEF Spec

LEMMA Invariance == Spec => []IInv
BY InvInit, InvStep, PTL DEF Spec

(* The variables of a run, its row and its attempts keep their types, also   *)
(* when several attempts have taken the row.                                 *)
THEOREM TypeCorrect == Spec => []TypeOK
<1>1. Placed => TypeOK
  BY DEF Placed
<1>2. QED BY <1>1, PlacedInvariance, PTL

(* No attempt resumes: whatever row it meets, it starts from no source and   *)
(* no document, since rows that let an attempt in have lost their lists.     *)
THEOREM AttemptsNeverResume ==
  Spec => [](\A r \in Runners : /\ ResumedSources(run[r].found) = {}
                               /\ ResumedDocuments(run[r].found) = {})
<1>1. Placed => \A r \in Runners : /\ ResumedSources(run[r].found) = {}
                                  /\ ResumedDocuments(run[r].found) = {}
  BY DEF Placed, NothingToResume, ResumedSources, ResumedDocuments
<1>2. QED BY <1>1, PlacedInvariance, PTL

(* Every step of an attempt brings it nearer to its end, alone or not ...    *)
THEOREM AttemptsRunOut == Spec => StepsRunOut
<1>1. Placed /\ Placed' /\ [Next]_vars =>
        [\A r \in Runners : pc[r] # "idle" /\ Attempt(r) => StepsLeft(r)' < StepsLeft(r)]_vars
  BY StepsDown
<1>2. QED BY <1>1, PlacedInvariance, PTL DEF Spec, StepsRunOut

(* ... and it has no more to go than the sources, their documents and the    *)
(* vector stores call for.                                                   *)
THEOREM AttemptsBounded ==
  Spec => [](\A r \in Runners : StepsLeft(r) \in 0 .. ToLoad(Cardinality(Sources)) + 3)
<1>1. Placed => \A r \in Runners : StepsLeft(r) \in 0 .. ToLoad(Cardinality(Sources)) + 3
  BY StepsCounted
<1>2. QED BY <1>1, PlacedInvariance, PTL

(* No two attempts of the run are at work at once, whatever fails or dies,   *)
(* until several have looked at an existing row before one has taken it; and *)
(* not again once an attempt takes the row with nobody else at it.           *)
THEOREM NoTwoAttempts == Spec => []OneAttempt
<1>1. IInv => OneAttempt
  <2>1. "idle" \notin Inside
    BY DEF Inside, Try
  <2>2. QED BY <2>1 DEF IInv, Orderly, Exclusive, AtRun, OneAttempt
<1>2. QED BY <1>1, Invariance, PTL

(* A run that is said to be completed is in the index, in every store, in    *)
(* the versions that its last attempt has loaded: no failed, rejected or     *)
(* interrupted attempt before it leaves a gap that it does not fill, and no  *)
(* contention that was over when it took the row.                            *)
THEOREM CompletedRunsAreIndexed == Spec => []CompletedIsIndexed
<1>1. IInv => CompletedIsIndexed
  BY DEF IInv, Orderly, CompletedIsIndexed
<1>2. QED BY <1>1, Invariance, PTL

(* While the row names no attempt under way and attempts have not come to it *)
(* together, nothing that an attempt may write changes, but for the row when *)
(* the next attempt takes it.                                                *)
THEOREM QuietAtRest == Spec => QuietUnlessActive
<1> DEFINE Quiet ==
      /\ UNCHANGED <<index, recorded, report>>
      /\ row' \in {row, Row("queued", {}, {})}
<1>1. ASSUME IInv, [Next]_vars, ~ contended, row.status \notin ActiveStatuses
      PROVE  Quiet
  <2>1. CASE \E d \in Documents : Change(d)
    BY <2>1 DEF Change
  <2>2. ASSUME NEW r \in Runners, Attempt(r)
        PROVE  Quiet
    <3>1. pc[r] \notin Inside
      BY <1>1 DEF IInv, Orderly, Exclusive
    <3>2. CASE Begin(r) \/ Start(r) \/ StartThrows(r) \/ Die(r)
      BY <3>2 DEF Begin, Start, StartThrows, Die
    <3>3. CASE \/ Select(r) \/ SelectThrows(r) \/ Prepare(r) \/ LoadSource(r)
               \/ RejectDocument(r) \/ WriteDocument(r) \/ WriteChunks(r) \/ ChunksRejected(r)
               \/ RecordDocument(r) \/ RecordSource(r) \/ EndPipeline(r) \/ ClearStore(r)
               \/ FillStore(r) \/ FillPartly(r) \/ Finish(r) \/ Throw(r) \/ Fail(r)
      BY <3>1, <3>3 DEF Select, SelectThrows, Prepare, LoadSource, RejectDocument,
         WriteDocument, WriteChunks, ChunksRejected, RecordDocument, RecordSource, EndPipeline,
         ClearStore, FillStore, FillPartly, Fill, Finish, Throw, Fail, Inside, Try
    <3>4. QED BY <2>2, <3>2, <3>3 DEF Attempt
  <2>3. CASE UNCHANGED vars
    BY <2>3 DEF vars
  <2>4. QED BY <1>1, <2>1, <2>2, <2>3 DEF Next
<1>2. IInv /\ [Next]_vars =>
        [~ contended /\ row.status \notin ActiveStatuses =>
           /\ UNCHANGED <<index, recorded, report>>
           /\ row' \in {row, Row("queued", {}, {})}]_vars
  BY <1>1
<1>3. QED BY <1>2, Invariance, PTL DEF Spec, QuietUnlessActive

(* The run is an exclusive task: one attempt at a time takes it, works and   *)
(* finishes, fails or vanishes, and it is said to be completed only by an    *)
(* attempt whose report the index bears out, but for the time from a         *)
(* collision at an existing row until an attempt takes it alone.             *)
THEOREM ImplementsTheTask == Spec => ImplementsExclusiveRun
<1>1. IInv /\ IInv' /\ [Next]_vars => [Task!Next]_Task!vars
  <2> SUFFICES ASSUME IInv, IInv', [Next]_vars
               PROVE  Task!Next \/ UNCHANGED Task!vars
    OBVIOUS
  <2>1. ASSUME NEW d \in Documents, Change(d)
        PROVE  UNCHANGED Task!vars
    BY <2>1 DEF Change, Task!vars
  <2>2. ASSUME NEW r \in Runners, Attempt(r)
        PROVE  Task!Next \/ UNCHANGED Task!vars
    BY <2>2, TaskStep
  <2>3. CASE UNCHANGED vars
    BY <2>3 DEF vars, Task!vars
  <2>4. QED BY <2>1, <2>2, <2>3 DEF Next
<1>2. QED
  BY <1>1, TaskInit, Invariance, PTL DEF Spec, ImplementsExclusiveRun, Task!Spec
=============================================================================
