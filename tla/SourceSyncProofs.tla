-------------------------- MODULE SourceSyncProofs ---------------------------
(***************************************************************************)
(* Proofs about the source sync workflow: that the cursor of the ledger    *)
(* never passes a change that the entries miss, that a ledger is saved     *)
(* with claims its run has made true, and that every run ends; and, for    *)
(* sources that do not return to an earlier content, that no change is     *)
(* silently skipped, that a ledger which has caught up with the source     *)
(* speaks for the stores, and that the workflow implements SourceMirror;   *)
(* for any items, stores, access filters, failures and crashes.            *)
(***************************************************************************)
EXTENDS SourceSync, SequenceTheorems, FiniteSetTheorems, WellFoundedInduction, TLAPS

(* What a ledger l claims of item i.                                         *)
ClaimOf(l, i) ==
  CASE l.entries[i].status = "active" -> l.entries[i].content
    [] l.entries[i].status = "deleted" -> Absent
    [] OTHER -> Unclaimed

(* CursorCovers, of any ledger, and what makes it last: the cursor is not    *)
(* ahead of the clock, and without a cursor there are no entries.            *)
Covers(l) ==
  /\ l.cursor = NoCursor => \A i \in Items : l.entries[i].status = "none"
  /\ l.cursor # NoCursor =>
       /\ l.cursor <= clock
       /\ \A i \in Items : changed[i] <= l.cursor =>
            \/ l.entries[i].status = "failed"
            \/ ClaimOf(l, i) = origin[i]
            \/ l.entries[i].status = "none" /\ origin[i] = Absent

ActiveHaveContent(l) ==
  \A i \in Items : l.entries[i].status = "active" => l.entries[i].content # Absent

(* Where a run is.                                                           *)
Working ==
  /\ pc # "idle" =>
       /\ pending \cup writing \cup accepted \subseteq records
       /\ pending \cap accepted = {} /\ writing \cap (pending \cup accepted) = {}
       /\ \A i \in records : next.entries[i].status = "active"
       /\ \A i \in deletes : next.entries[i].status = "deleted"
  /\ pc = "deleting" => deletes # {} /\ accepted = {} /\ writing = {}
  /\ pc \in {"ingesting", "chunking", "post", "saving"} => deletes = {}
  /\ pc = "ingesting" => pending # {}
  /\ pc = "chunking" => \E i \in Items : writing = {i}
  /\ pc \in {"ingesting", "post", "saving"} => writing = {}
  /\ pc \in {"deleting", "ingesting", "chunking"} => stage = 1
  /\ pc = "post" => stage \in DOMAIN Derived

CInv ==
  /\ TypeOK /\ Working
  /\ Covers(ledger) /\ ActiveHaveContent(ledger)
  /\ pc # "idle" => Covers(next) /\ ActiveHaveContent(next)
-----------------------------------------------------------------------------
(* What a run knows, whatever the source does.                               *)

(* It is content with the claims on the items it does not ingest.            *)
ClaimsKept ==
  pc # "idle" =>
    \A i \in Items \ records :
      next.entries[i].status = "active" => Claimed(i) = next.entries[i].content

(* What it has written is in place ...                                       *)
InPlace ==
  pc # "idle" =>
    /\ \A i \in writing : index["documents"][i] = {Content(i)}
    /\ \A i \in accepted :
         index["documents"][i] = {Content(i)} /\ index["chunks"][i] = {Content(i)}

(* ... and while nothing has failed, so is what it has derived from that,    *)
(* and what it has deleted is gone from where it was not shut out.           *)
DerivedInPlace ==
  pc \in {"post", "saving"} /\ clean =>
    /\ \A k \in DOMAIN Derived : k < stage =>
         \A i \in accepted : Content(i) \in index[Derived[k]][i]
    /\ pc = "saving" /\ accepted # {} => stage = Len(Derived) + 1

DeletedGone ==
  pc # "idle" /\ clean =>
    /\ \A i \in Items \ deletes :
         next.entries[i].status = "deleted" => Removed(i) \/ Claimed(i) = Absent
    /\ deletes # {} =>
         \A k \in DOMAIN DeleteOrder : k < step =>
           RemovedFrom(DeleteOrder[k], FirstOf(deletes))

RunInv == CInv /\ ClaimsKept /\ InPlace /\ DerivedInPlace /\ DeletedGone
-----------------------------------------------------------------------------
(* Sources that do not return to an earlier content.                         *)

(* Contents are as old as the clock says; what has changed has been there.   *)
Dated ==
  \A i \in Items :
    /\ origin[i] \in history[i] \cup {Absent}
    /\ history[i] \subseteq 1 .. clock
    /\ changed[i] > 0 => history[i] # {}

(* An entry is of an item that has been there, an active one has one of its  *)
(* contents, and one that is deleted stays so.                               *)
Truthful(l) ==
  \A i \in Items :
    /\ l.entries[i].status # "none" => history[i] # {}
    /\ l.entries[i].status = "active" => l.entries[i].content \in history[i]
    /\ l.entries[i].status = "deleted" => origin[i] = Absent

IndexDated == \A s \in Stores, i \in Items : index[s][i] \subseteq history[i]

(* A run only works on items whose claim is out of date.                     *)
OutOfDate == pc # "idle" => \A i \in records \cup deletes : Claimed(i) # origin[i]

IInv ==
  /\ RunInv /\ Dated /\ IndexDated
  /\ Truthful(ledger) /\ (pc # "idle" => Truthful(next))
  /\ OutOfDate /\ NothingSkipped

-----------------------------------------------------------------------------
LEMMA FirstOfIsIn ==
  ASSUME NEW S \in SUBSET Nat, S # {}
  PROVE  FirstOf(S) \in S
<1> DEFINE LessThan == {p \in Nat \X Nat : p[1] < p[2]}
<1>1. IsWellFoundedOn(LessThan, Nat)
  BY NatLessThanWellFounded, Zenon DEF OpToRel
<1>2. \A x, y \in S : <<y, x>> \notin LessThan => x <= y
  OBVIOUS
<1> HIDE DEF LessThan
<1>3. PICK x \in S : \A y \in S : <<y, x>> \notin LessThan
  BY <1>1, WFMin
<1>4. \A y \in S : x <= y
  BY <1>2, <1>3
<1>5. QED BY <1>4 DEF FirstOf

(* A document is deleted from every store, and from no other.                *)
LEMMA DeleteOrderIs ==
  /\ Len(DeleteOrder) = Len(Derived) + 2
  /\ DOMAIN DeleteOrder = 1 .. Len(Derived) + 2
  /\ DOMAIN Derived = 1 .. Len(Derived) /\ Len(Derived) \in Nat
  /\ \A k \in DOMAIN DeleteOrder : DeleteOrder[k] \in Stores
  /\ \A s \in Stores : \E k \in DOMAIN DeleteOrder : DeleteOrder[k] = s
<1>1. /\ Derived \in Seq(STRING) /\ Len(Derived) \in Nat /\ DOMAIN Derived = 1 .. Len(Derived)
  BY SyncAssumption
<1>2. /\ DeleteOrder \in Seq(Stores) /\ Len(DeleteOrder) = Len(Derived) + 2
      /\ \A k \in 1 .. Len(Derived) : DeleteOrder[k] = Derived[k]
      /\ DeleteOrder[Len(Derived) + 1] = "chunks"
      /\ DeleteOrder[Len(Derived) + 2] = "documents"
  <2> DEFINE last == <<"chunks", "documents">>
  <2>1. Derived \in Seq(Stores)
    <3>1. Derived \in [1 .. Len(Derived) -> Stores]
      BY <1>1 DEF Stores, DerivedStores
    <3>2. QED BY <1>1, <3>1, SeqDef
  <2>2. last \in Seq(Stores)
    BY DEF Stores
  <2>3. Len(last) = 2 /\ last[1] = "chunks" /\ last[2] = "documents"
    OBVIOUS
  <2>4. DeleteOrder = Derived \o last
    BY DEF DeleteOrder
  <2> HIDE DEF last
  <2>5. /\ DeleteOrder \in Seq(Stores) /\ Len(DeleteOrder) = Len(Derived) + 2
        /\ \A k \in 1 .. Len(Derived) + 2 :
             DeleteOrder[k] = IF k <= Len(Derived) THEN Derived[k] ELSE last[k - Len(Derived)]
    <3>1. /\ Derived \o last \in Seq(Stores) /\ Len(Derived \o last) = Len(Derived) + Len(last)
          /\ \A k \in 1 .. Len(Derived) + Len(last) :
               (Derived \o last)[k] = IF k <= Len(Derived) THEN Derived[k] ELSE last[k - Len(Derived)]
      BY <2>1, <2>2, ConcatProperties, Zenon
    <3>2. QED BY <2>3, <2>4, <3>1, Zenon
  <2>6. /\ DeleteOrder[Len(Derived) + 1] = last[1] /\ DeleteOrder[Len(Derived) + 2] = last[2]
        /\ \A k \in 1 .. Len(Derived) : DeleteOrder[k] = Derived[k]
    <3>1. /\ Len(Derived) + 1 \in 1 .. Len(Derived) + 2 /\ ~ (Len(Derived) + 1 <= Len(Derived))
          /\ Len(Derived) + 2 \in 1 .. Len(Derived) + 2 /\ ~ (Len(Derived) + 2 <= Len(Derived))
          /\ (Len(Derived) + 1) - Len(Derived) = 1 /\ (Len(Derived) + 2) - Len(Derived) = 2
      BY <1>1
    <3>2. \A k \in 1 .. Len(Derived) : k \in 1 .. Len(Derived) + 2 /\ k <= Len(Derived)
      BY <1>1
    <3>3. QED BY <2>5, <3>1, <3>2
  <2>7. QED BY <2>3, <2>5, <2>6
<1>3. DOMAIN DeleteOrder = 1 .. Len(Derived) + 2
  BY <1>2
<1> HIDE DEF DeleteOrder
<1>4. \A k \in DOMAIN DeleteOrder :
        k \in DOMAIN Derived \/ k = Len(Derived) + 1 \/ k = Len(Derived) + 2
  BY <1>1, <1>3
<1>5. \A k \in DOMAIN DeleteOrder : DeleteOrder[k] \in Stores
  BY <1>1, <1>2, <1>4 DEF Stores, DerivedStores
<1>6. \A s \in Stores : \E k \in DOMAIN DeleteOrder : DeleteOrder[k] = s
  <2>1. /\ \A k \in DOMAIN Derived : k \in DOMAIN DeleteOrder
        /\ Len(Derived) + 1 \in DOMAIN DeleteOrder /\ Len(Derived) + 2 \in DOMAIN DeleteOrder
    BY <1>1, <1>3
  <2>2. QED BY <1>1, <1>2, <2>1 DEF Stores, DerivedStores
<1>7. QED BY <1>1, <1>2, <1>3, <1>5, <1>6
-----------------------------------------------------------------------------
(* What a listing makes of one item: it was in error, is up to date, is      *)
(* gone, or has nothing new.                                                 *)
SyncedItem(i) ==
  LET old == ledger.entries[i]
      new == next'.entries[i]
  IN  \/ /\ new.status = "failed" /\ new.content = old.content
         /\ i \notin records' /\ i \notin deletes'
         /\ origin[i] # Absent \/ changed[i] > 0
      \/ /\ new.status = "active" /\ new.content = origin[i] /\ origin[i] # Absent
         /\ i \notin deletes'
         /\ i \in records' <=> old.status # "active" \/ old.content # origin[i]
      \/ /\ new.status = "deleted" /\ origin[i] = Absent /\ i \notin records'
         /\ old.status # "none" \/ changed[i] > 0
         /\ old.status = "deleted" => i \notin deletes'
         /\ old.status # "deleted" /\ clean' => i \in deletes'
      \/ /\ new.status = old.status /\ new.content = old.content
         /\ i \notin records' /\ i \notin deletes'
         /\ \/ ledger.cursor # NoCursor /\ changed[i] <= ledger.cursor
            \/ origin[i] = Absent /\ old.status \in {"none", "deleted"}
            \/ origin[i] = Absent /\ ledger.cursor = NoCursor

Synced ==
  /\ pc = "idle" /\ pc' = After(deletes', records', {})
  /\ next' \in Ledgers /\ next'.cursor = clock
  /\ deletes' \subseteq Items /\ records' \subseteq Items /\ pending' = records'
  /\ hidden' \subseteq Restricted
  /\ \A i \in Items \ deletes' : i \in hidden' <=> i \in hidden
  /\ writing' = {} /\ accepted' = {} /\ step' = 1 /\ stage' = 1
  /\ clean' \in BOOLEAN /\ faults' \in 0 .. MaxFaults
  /\ UNCHANGED <<source, ledger, index>>
  /\ \A i \in Items : SyncedItem(i)

LEMMA SyncIs ==
  ASSUME TypeOK, NEW mode \in {"full", "delta"}, Sync(mode)
  PROVE  Synced
<1> DEFINE listed == Listed(mode)
<1>1. PICK errors \in SUBSET listed :
        LET gone == DeletedItems(mode, listed, errors)
            entries == [i \in Items |-> NextEntry(i, mode, listed, errors)]
            known == {i \in gone : entries[i].record}
            changes == ReturnedRecords(listed \ errors)
        IN  /\ IF errors = {} THEN NoFault ELSE Fault
            /\ next' = [cursor |-> clock, entries |-> entries]
            /\ deletes' = known
            /\ \E shut \in SUBSET (known \cap Restricted) : hidden' = (hidden \ known) \cup shut
            /\ records' = changes /\ pending' = changes
            /\ clean' = (gone = known)
            /\ pc' = After(known, changes, {})
  BY DEF Sync
<1> DEFINE gone == DeletedItems(mode, listed, errors)
           entry(i) == NextEntry(i, mode, listed, errors)
<1>2. /\ next'.cursor = clock /\ next' = [cursor |-> clock, entries |-> [i \in Items |-> entry(i)]]
      /\ deletes' = {i \in gone : next'.entries[i].record}
      /\ records' = ReturnedRecords(listed \ errors) /\ pending' = records'
      /\ clean' = (gone = deletes') /\ pc' = After(deletes', records', {})
      /\ \E shut \in SUBSET (deletes' \cap Restricted) : hidden' = (hidden \ deletes') \cup shut
  BY <1>1
<1>3. \A i \in Items : next'.entries[i] = entry(i)
  BY <1>2
<1>4. /\ listed \subseteq Items /\ errors \subseteq listed
      /\ \A i \in listed : origin[i] # Absent \/ changed[i] > ledger.cursor
      /\ \A i \in listed : mode = "full" => origin[i] # Absent
      /\ \A i \in listed : ledger.cursor = NoCursor => origin[i] # Absent
      /\ \A i \in Items \ listed :
           \/ origin[i] = Absent /\ mode = "full"
           \/ origin[i] = Absent /\ ledger.cursor = NoCursor
           \/ mode # "full" /\ ledger.cursor # NoCursor /\ ~ (changed[i] > ledger.cursor)
  BY DEF Listed
<1>5. /\ gone \subseteq Items
      /\ \A i \in Items : i \in gone <=>
           \/ i \in listed \ errors /\ origin[i] = Absent /\ ledger.entries[i].status # "deleted"
           \/ i \notin listed /\ mode = "full" /\ ledger.entries[i].status \notin {"none", "deleted"}
  BY <1>4 DEF DeletedItems, Missing
<1>6. /\ records' \subseteq Items
      /\ \A i \in Items : i \in records' <=>
           /\ i \in listed \ errors /\ origin[i] # Absent
           /\ ledger.entries[i].status # "active" \/ ledger.entries[i].content # origin[i]
  BY <1>2, <1>4 DEF ReturnedRecords, UpsertChanged
<1>7. /\ ledger.cursor \in 0 .. NoCursor /\ clock \in 0 .. MaxChanges /\ NoCursor \in Nat
      /\ \A i \in Items : ledger.entries[i] \in Entries
      /\ \A i \in Items : changed[i] \in Nat /\ origin[i] \in Contents \cup {Absent}
  BY SyncAssumption DEF TypeOK, Ledgers, NoCursor
<1>8. \A i \in Items : entry(i) =
        IF i \in errors
          THEN [status |-> "failed", content |-> ledger.entries[i].content,
                record |-> ledger.entries[i].record \/ i \in Named]
        ELSE IF i \in listed
          THEN IF origin[i] # Absent
                 THEN [status |-> "active", content |-> origin[i], record |-> TRUE]
                 ELSE [status |-> "deleted", content |-> ledger.entries[i].content,
                       record |-> ledger.entries[i].record \/ i \in Named]
        ELSE IF mode = "full" /\ ledger.entries[i].status \notin {"none", "deleted"}
          THEN [ledger.entries[i] EXCEPT !.status = "deleted"]
        ELSE ledger.entries[i]
  BY DEF NextEntry, ErrorEntry, UpsertEntry, DeleteEntry, TombstoneEntry, Missing
<1> HIDE DEF listed, gone, entry
<1>9. ASSUME NEW i \in Items
      PROVE  entry(i) \in Entries /\ SyncedItem(i)
  <2> DEFINE old == ledger.entries[i]
             new == next'.entries[i]
  <2>1. /\ old \in Entries /\ new = entry(i)
        /\ old.status \in {"none", "active", "deleted", "failed"}
        /\ old.content \in Contents \cup {Absent} /\ old.record \in BOOLEAN
        /\ origin[i] \in Contents \cup {Absent} /\ changed[i] \in Nat
    BY <1>3, <1>7 DEF Entries
  <2>2. /\ i \in deletes' => i \in gone
        /\ clean' => (i \in gone => i \in deletes')
    BY <1>2
  <2>3. CASE i \in errors
    <3>1. /\ new = [status |-> "failed", content |-> old.content,
                    record |-> old.record \/ i \in Named]
          /\ (old.record \/ i \in Named) \in BOOLEAN
      BY <1>8, <2>1, <2>3
    <3>2. new \in Entries /\ new.status = "failed" /\ new.content = old.content
      BY <2>1, <3>1 DEF Entries
    <3>3. i \notin records' /\ i \notin deletes' /\ (origin[i] # Absent \/ changed[i] > 0)
      BY <1>4, <1>5, <1>6, <1>7, <2>1, <2>2, <2>3
    <3>4. QED BY <2>1, <3>2, <3>3 DEF SyncedItem
  <2>4. CASE i \in listed \ errors /\ origin[i] # Absent
    <3>1. new = [status |-> "active", content |-> origin[i], record |-> TRUE]
      BY <1>8, <2>1, <2>4
    <3>2. new \in Entries /\ new.status = "active" /\ new.content = origin[i]
      BY <2>1, <3>1 DEF Entries
    <3>3. i \notin deletes' /\ (i \in records' <=> old.status # "active" \/ old.content # origin[i])
      BY <1>5, <1>6, <2>2, <2>4
    <3>4. QED BY <2>1, <2>4, <3>2, <3>3 DEF SyncedItem
  <2>5. CASE i \in listed \ errors /\ origin[i] = Absent
    <3>1. /\ new = [status |-> "deleted", content |-> old.content,
                    record |-> old.record \/ i \in Named]
          /\ (old.record \/ i \in Named) \in BOOLEAN
      BY <1>8, <2>1, <2>5
    <3>2. new \in Entries /\ new.status = "deleted"
      BY <2>1, <3>1 DEF Entries
    <3>3. /\ i \notin records' /\ changed[i] > 0
          /\ old.status = "deleted" => i \notin deletes'
          /\ old.status # "deleted" /\ clean' => i \in deletes'
      BY <1>4, <1>5, <1>6, <1>7, <2>1, <2>2, <2>5
    <3>4. QED BY <2>1, <2>5, <3>2, <3>3 DEF SyncedItem
  <2>6. CASE i \notin listed /\ mode = "full" /\ old.status \notin {"none", "deleted"}
    <3>1. new = [old EXCEPT !.status = "deleted"]
      BY <1>4, <1>8, <2>1, <2>6
    <3>2. new \in Entries /\ new.status = "deleted"
      BY <2>1, <3>1 DEF Entries
    <3>3. /\ i \notin records' /\ origin[i] = Absent
          /\ clean' => i \in deletes'
      BY <1>4, <1>5, <1>6, <1>7, <2>1, <2>2, <2>6
    <3>4. QED BY <2>1, <2>6, <3>2, <3>3 DEF SyncedItem
  <2>7. CASE i \notin listed /\ ~ (mode = "full" /\ old.status \notin {"none", "deleted"})
    <3>1. new = old
      BY <1>4, <1>8, <2>1, <2>7
    <3>2. /\ i \notin records' /\ i \notin deletes'
          /\ \/ ledger.cursor # NoCursor /\ changed[i] <= ledger.cursor
             \/ origin[i] = Absent /\ old.status \in {"none", "deleted"}
             \/ origin[i] = Absent /\ ledger.cursor = NoCursor
      BY <1>4, <1>5, <1>6, <1>7, <2>1, <2>2, <2>7
    <3>3. QED BY <2>1, <3>1, <3>2 DEF SyncedItem
  <2>8. QED BY <1>4, <2>3, <2>4, <2>5, <2>6, <2>7
<1>10. next' \in Ledgers
  BY <1>2, <1>7, <1>9, SyncAssumption DEF Ledgers, NoCursor
<1>11. faults' \in 0 .. MaxFaults
  <2>1. Fault \/ NoFault
    BY <1>1
  <2>2. QED BY <2>1, SyncAssumption DEF Fault, NoFault, TypeOK
<1>12. clean' \in BOOLEAN
  BY <1>2
<1>13. /\ hidden' \subseteq Restricted
       /\ \A i \in Items \ deletes' : i \in hidden' <=> i \in hidden
  BY <1>2 DEF TypeOK
<1>14. QED BY <1>2, <1>5, <1>6, <1>9, <1>10, <1>11, <1>12, <1>13 DEF Sync, Synced

-----------------------------------------------------------------------------
(* Types, and where a run is.                                                *)

LEMMA WithoutTyped ==
  ASSUME TypeOK, NEW s, NEW i
  PROVE  /\ Without(s, i) \in [Stores -> [Items -> SUBSET Contents]]
         /\ \A t \in Stores, j \in Items : j # i => Without(s, i)[t][j] = index[t][j]
         /\ \A t \in Stores, j \in Items : Without(s, i)[t][j] \subseteq index[t][j]
         /\ i \in Items => Without(s, i)[s][i] = {} \/ s \notin Stores
BY DEF Without, TypeOK

LEMMA CInvInit == Init => CInv
<1> SUFFICES ASSUME Init PROVE CInv
  OBVIOUS
<1>1. EmptyLedger \in Ledgers /\ NoCursor = MaxChanges + 1
  BY SyncAssumption DEF EmptyLedger, NoEntry, Ledgers, Entries, NoCursor
<1>2. \A i \in Items : EmptyLedger.entries[i].status = "none"
  BY DEF EmptyLedger, NoEntry
<1>3. EmptyLedger.cursor = NoCursor
  BY DEF EmptyLedger
<1>4. TypeOK
  BY <1>1, DeleteOrderIs, SyncAssumption DEF Init, TypeOK
<1>5. QED BY <1>2, <1>3, <1>4 DEF Init, CInv, Working, Covers, ActiveHaveContent

(* A change at the source.                                                   *)
Changed(i) ==
  /\ i \in Items /\ clock < MaxChanges /\ clock' = clock + 1
  /\ changed' = [changed EXCEPT ![i] = clock + 1]
  /\ origin' = [origin EXCEPT ![i] = origin'[i]] /\ origin'[i] \in Contents \cup {Absent}
  /\ history' \in [Items -> SUBSET Contents]
  /\ UNCHANGED <<ledger, index, pc, next, deletes, hidden, step, records, pending, writing, accepted,
                 stage, clean, faults>>

LEMMA ChangedIs ==
  ASSUME TypeOK, NEW i \in Items, Edit(i) \/ Remove(i)
  PROVE  Changed(i)
<1>1. clock \in 0 .. MaxChanges /\ MaxChanges \in Nat /\ clock < MaxChanges
  BY SyncAssumption DEF TypeOK, Edit, Remove, Touch
<1>2. clock + 1 \in Contents
  BY <1>1 DEF Contents
<1>3. CASE Edit(i)
  <2>1. PICK c \in {clock + 1} \cup (IF Revisits THEN history[i] \ {origin[i]} ELSE {}) :
          /\ origin' = [origin EXCEPT ![i] = c]
          /\ history' = [history EXCEPT ![i] = @ \cup {c}]
    BY <1>3 DEF Edit
  <2>2. c \in Contents
    BY <1>2, <2>1 DEF TypeOK
  <2>3. history' \in [Items -> SUBSET Contents]
    BY <2>1, <2>2 DEF TypeOK
  <2>4. origin'[i] = c
    BY <2>1 DEF TypeOK
  <2>5. QED BY <1>3, <2>1, <2>2, <2>3, <2>4 DEF Edit, Touch, Changed, local
<1>4. CASE Remove(i)
  BY <1>4 DEF Remove, Touch, Changed, local, TypeOK
<1>5. QED BY <1>3, <1>4

LEMMA ChangedKeepsCInv ==
  ASSUME CInv, NEW i \in Items, Changed(i)
  PROVE  CInv'
<1>1. /\ clock \in 0 .. MaxChanges /\ MaxChanges \in Nat /\ clock' = clock + 1 /\ clock < MaxChanges
      /\ changed \in [Items -> 0 .. MaxChanges] /\ origin \in [Items -> Contents \cup {Absent}]
      /\ ledger.cursor \in 0 .. NoCursor /\ next.cursor \in 0 .. NoCursor
      /\ NoCursor = MaxChanges + 1
  BY SyncAssumption DEF CInv, TypeOK, Changed, Ledgers, NoCursor
<1>2. TypeOK'
  <2>1. /\ origin' \in [Items -> Contents \cup {Absent}]
        /\ changed' \in [Items -> 0 .. MaxChanges] /\ clock' \in 0 .. MaxChanges
    BY <1>1 DEF Changed
  <2>2. QED BY <2>1 DEF CInv, TypeOK, Changed
<1>3. Working'
  BY DEF CInv, Working, Changed
<1>4. ASSUME NEW l \in Ledgers, Covers(l), UNCHANGED l
      PROVE  Covers(l)'
  <2>1. l.cursor \in 0 .. NoCursor
    BY <1>4 DEF Ledgers
  <2>2. /\ \A j \in Items \ {i} : changed'[j] = changed[j] /\ origin'[j] = origin[j]
        /\ changed'[i] = clock + 1
    BY <1>1 DEF Changed
  <2>3. l.cursor # NoCursor => l.cursor <= clock /\ ~ (changed'[i] <= l.cursor)
    BY <1>1, <1>4, <2>1, <2>2 DEF Covers
  <2>4. QED BY <1>1, <1>4, <2>1, <2>2, <2>3 DEF Covers, ClaimOf
<1>5. ledger \in Ledgers /\ next \in Ledgers /\ UNCHANGED <<ledger, next, pc>>
  BY DEF CInv, TypeOK, Changed
<1>6. QED BY <1>2, <1>3, <1>4, <1>5 DEF CInv, ActiveHaveContent

LEMMA SyncedKeepsCInv ==
  ASSUME CInv, Synced
  PROVE  CInv'
<1>1. /\ ledger \in Ledgers /\ next' \in Ledgers /\ UNCHANGED <<origin, changed, clock, ledger>>
      /\ clock \in 0 .. MaxChanges /\ MaxChanges \in Nat /\ NoCursor = MaxChanges + 1
      /\ origin \in [Items -> Contents \cup {Absent}] /\ changed \in [Items -> 0 .. MaxChanges]
  BY SyncAssumption DEF CInv, TypeOK, Synced, source, NoCursor
<1>2. TypeOK'
  <2>1. 1 \in DOMAIN DeleteOrder /\ 1 \in 1 .. Len(Derived) + 1
    BY DeleteOrderIs
  <2>2. pc' \in {"idle", "deleting", "ingesting", "chunking", "post", "saving"}
    BY DEF Synced, After
  <2>3. QED BY <2>1, <2>2 DEF CInv, TypeOK, Synced, source
<1>3. Working'
  <2>1. \A i \in Items : /\ i \in records' => next'.entries[i].status = "active"
                         /\ i \in deletes' => next'.entries[i].status = "deleted"
    BY DEF Synced, SyncedItem
  <2>2. pc' = IF deletes' # {} THEN "deleting" ELSE IF records' # {} THEN "ingesting" ELSE "saving"
    BY DEF Synced, After
  <2>3. QED BY <2>1, <2>2 DEF Synced, Working
<1>4. Covers(next)'
  <2>1. next'.cursor = clock /\ clock # NoCursor /\ clock' = clock
    BY <1>1 DEF Synced
  <2>2. ASSUME NEW i \in Items
        PROVE  \/ next'.entries[i].status = "failed"
               \/ next'.entries[i].status = "active" /\ next'.entries[i].content = origin[i]
               \/ next'.entries[i].status = "deleted" /\ origin[i] = Absent
               \/ next'.entries[i].status = "none" /\ origin[i] = Absent
    <3>1. SyncedItem(i)
      BY DEF Synced
    <3>2. ledger.cursor # NoCursor /\ changed[i] <= ledger.cursor =>
            \/ ledger.entries[i].status = "failed"
            \/ ClaimOf(ledger, i) = origin[i]
            \/ ledger.entries[i].status = "none" /\ origin[i] = Absent
      BY DEF CInv, Covers
    <3>3. ledger.cursor = NoCursor => ledger.entries[i].status = "none"
      BY DEF CInv, Covers
    <3>4. Unclaimed # origin[i]
      BY <1>1 DEF Unclaimed, Contents, Absent
    <3>5. QED BY <3>1, <3>2, <3>3, <3>4 DEF SyncedItem, ClaimOf
  <2>3. QED BY <1>1, <2>1, <2>2 DEF Covers, ClaimOf
<1>5. ActiveHaveContent(next)'
  <2>1. ASSUME NEW i \in Items, next'.entries[i].status = "active"
        PROVE  next'.entries[i].content # Absent
    BY <2>1 DEF Synced, SyncedItem, CInv, ActiveHaveContent
  <2>2. QED BY <2>1 DEF ActiveHaveContent
<1>6. Covers(ledger)' /\ ActiveHaveContent(ledger)'
  BY <1>1 DEF CInv, Covers, ClaimOf, ActiveHaveContent
<1>7. QED BY <1>2, <1>3, <1>4, <1>5, <1>6 DEF CInv

(* A step of the work of a run.                                              *)
Worked ==
  /\ pc # "idle" /\ pc' # "idle"
  /\ UNCHANGED <<source, ledger, next, hidden, records>>
  /\ deletes' \subseteq deletes /\ (clean' => clean)
  /\ \A i \in Items, s \in Stores :
       \/ index'[s][i] \subseteq index[s][i]
       \/ i \in records /\ index'[s][i] \subseteq index[s][i] \cup {Content(i)}
  /\ \A i \in Items \ (records \cup deletes), s \in Stores : index'[s][i] = index[s][i]

Work ==
  \/ DeleteStep \/ DeleteFails \/ IngestThrows \/ FillStore \/ FillFails
  \/ \E i \in Items : WriteDocument(i) \/ WriteChunks(i) \/ RejectRecord(i) \/ ChunksRejected(i)

LEMMA ContentTyped ==
  ASSUME CInv, NEW i \in records, pc # "idle"
  PROVE  Content(i) \in Contents /\ i \in Items
<1>1. i \in Items /\ next.entries[i] \in Entries
  BY DEF CInv, TypeOK, Ledgers
<1>2. QED BY <1>1 DEF CInv, Working, ActiveHaveContent, Content, Entries

LEMMA FirstIsDeleted ==
  ASSUME CInv, pc = "deleting"
  PROVE  FirstOf(deletes) \in deletes
<1>1. deletes \in SUBSET Nat /\ deletes # {}
  BY SyncAssumption DEF CInv, TypeOK, Working
<1>2. QED BY <1>1, FirstOfIsIn

LEMMA NextDeleteIs ==
  ASSUME CInv, pc = "deleting", NextDelete
  PROVE  /\ pc' # "idle" /\ Working' /\ deletes' \subseteq deletes
         /\ step' \in DOMAIN DeleteOrder
         /\ pc' \in {"deleting", "ingesting", "saving"}
         /\ \/ step' = step + 1 /\ deletes' = deletes
            \/ step = Len(DeleteOrder) /\ step' = 1 /\ deletes' = deletes \ {FirstOf(deletes)}
<1>1. step \in DOMAIN DeleteOrder /\ accepted = {} /\ writing = {} /\ stage = 1
  BY DEF CInv, TypeOK, Working
<1>2. /\ step' \in DOMAIN DeleteOrder
      /\ \/ step' = step + 1 /\ deletes' = deletes
         \/ step = Len(DeleteOrder) /\ step' = 1 /\ deletes' = deletes \ {FirstOf(deletes)}
  BY <1>1, DeleteOrderIs DEF NextDelete
<1>3. pc' = IF deletes' # {} THEN "deleting" ELSE IF pending # {} THEN "ingesting" ELSE "saving"
  BY <1>1 DEF NextDelete, After
<1>4. UNCHANGED <<next, records, pending, writing, accepted, stage>>
  BY DEF NextDelete
<1>5. Working'
  BY <1>1, <1>2, <1>3, <1>4 DEF CInv, Working
<1>6. QED BY <1>2, <1>3, <1>5

LEMMA FaultTyped ==
  ASSUME TypeOK, Fault \/ NoFault
  PROVE  faults' \in 0 .. MaxFaults
BY SyncAssumption DEF TypeOK, Fault, NoFault

LEMMA DeleteIs ==
  ASSUME CInv, DeleteStep \/ DeleteFails
  PROVE  TypeOK' /\ Working' /\ Worked
<1>1. pc = "deleting" /\ NextDelete /\ (Fault \/ NoFault) /\ clean' \in {clean, FALSE}
  BY DEF DeleteStep, DeleteFails
<1> DEFINE i == FirstOf(deletes)
<1>2. i \in deletes /\ i \in Items
  BY <1>1, FirstIsDeleted DEF CInv, TypeOK
<1> HIDE DEF i
<1>3. index' = index \/ index' = Without(DeleteOrder[step], i)
  BY DEF DeleteStep, DeleteFails, i
<1>4. /\ index' \in [Stores -> [Items -> SUBSET Contents]]
      /\ \A t \in Stores, j \in Items : j # i => index'[t][j] = index[t][j]
      /\ \A t \in Stores, j \in Items : index'[t][j] \subseteq index[t][j]
  BY <1>3, WithoutTyped DEF CInv, TypeOK
<1>5. /\ UNCHANGED <<source, ledger, next, hidden, records, pending, writing, accepted, stage>>
  BY <1>1 DEF NextDelete
<1>6. TypeOK'
  <2>1. deletes' \subseteq Items /\ step' \in DOMAIN DeleteOrder
    BY <1>1, NextDeleteIs DEF CInv, TypeOK
  <2>2. pc' \in {"idle", "deleting", "ingesting", "chunking", "post", "saving"}
    BY <1>1, NextDeleteIs
  <2>3. faults' \in 0 .. MaxFaults /\ clean' \in BOOLEAN
    BY <1>1, FaultTyped DEF CInv, TypeOK
  <2>4. QED BY <1>4, <1>5, <2>1, <2>2, <2>3 DEF CInv, TypeOK, source
<1>7. Worked
  <2>1. clean' => clean
    BY <1>1, Zenon
  <2>2. pc # "idle" /\ pc' # "idle" /\ deletes' \subseteq deletes
    BY <1>1, NextDeleteIs
  <2>3. /\ \A j \in Items, s \in Stores : index'[s][j] \subseteq index[s][j]
        /\ \A j \in Items \ (records \cup deletes), s \in Stores : index'[s][j] = index[s][j]
    BY <1>2, <1>4
  <2>4. QED BY <1>5, <2>1, <2>2, <2>3 DEF Worked
<1>8. QED BY <1>1, <1>6, <1>7, NextDeleteIs

LEMMA IngestIs ==
  ASSUME CInv, NEW i \in Items,
         WriteDocument(i) \/ WriteChunks(i) \/ RejectRecord(i) \/ ChunksRejected(i)
  PROVE  TypeOK' /\ Working' /\ Worked
<1>1. /\ pc \in {"ingesting", "chunking"} /\ i \in pending \cup writing
      /\ deletes = {} /\ stage = 1 /\ (pc = "ingesting" => writing = {})
      /\ pc = "chunking" => writing = {i}
  BY DEF WriteDocument, WriteChunks, RejectRecord, ChunksRejected, CInv, Working
<1>2. i \in records /\ Content(i) \in Contents /\ records \subseteq Items
  BY <1>1, ContentTyped DEF CInv, Working, TypeOK
<1>3. UNCHANGED <<source, ledger, next, deletes, hidden, step, records, stage>>
  BY DEF WriteDocument, WriteChunks, RejectRecord, ChunksRejected
<1>4. Fault \/ NoFault
  BY DEF WriteDocument, WriteChunks, RejectRecord, ChunksRejected
<1>5. (clean' => clean) /\ clean' \in BOOLEAN
  <2>1. clean \in BOOLEAN
    BY DEF CInv, TypeOK
  <2>2. clean' = clean \/ clean' = FALSE
    BY DEF WriteDocument, WriteChunks, RejectRecord, ChunksRejected
  <2>3. CASE clean' = clean
    BY <2>1, <2>3
  <2>4. CASE clean' = FALSE
    BY <2>4
  <2>5. QED BY <2>2, <2>3, <2>4
<1>6. /\ index' \in [Stores -> [Items -> SUBSET Contents]]
      /\ \A s \in Stores, j \in Items : j # i => index'[s][j] = index[s][j]
      /\ \A s \in Stores : index'[s][i] \subseteq index[s][i] \cup {Content(i)}
  <2>1. "documents" \in Stores /\ "chunks" \in Stores
    BY DEF Stores
  <2>2. index \in [Stores -> [Items -> SUBSET Contents]]
    BY DEF CInv, TypeOK
  <2>3. TypeOK
    BY DEF CInv
  <2>4. CASE RejectRecord(i)
    BY <2>2, <2>4 DEF RejectRecord
  <2>5. CASE ChunksRejected(i)
    BY <2>2, <2>3, <2>5, WithoutTyped DEF ChunksRejected
  <2>6. CASE WriteChunks(i)
    BY <1>2, <2>1, <2>2, <2>6 DEF WriteChunks
  <2>7. CASE WriteDocument(i)
    <3> DEFINE W == Without("chunks", i)
    <3>1. /\ W \in [Stores -> [Items -> SUBSET Contents]]
          /\ \A t \in Stores, j \in Items : j # i => W[t][j] = index[t][j]
          /\ \A t \in Stores, j \in Items : W[t][j] \subseteq index[t][j]
      BY <2>3, WithoutTyped
    <3>2. index' = [W EXCEPT !["documents"] = [W["documents"] EXCEPT ![i] = {Content(i)}]]
      BY <2>7 DEF WriteDocument
    <3> HIDE DEF W
    <3>3. QED BY <1>2, <2>1, <3>1, <3>2
  <2>8. QED BY <2>4, <2>5, <2>6, <2>7
<1>7. Working' /\ pc' \in {"deleting", "ingesting", "chunking", "post", "saving"}
      /\ pending' \subseteq pending /\ writing' \subseteq Items
      /\ accepted' \subseteq accepted \cup {i}
  <2>1. 1 \in DOMAIN Derived <=> Derived # <<>>
    BY SyncAssumption
  <2>2. CASE WriteDocument(i)
    BY <1>1, <1>2, <1>3, <2>2 DEF WriteDocument, CInv, Working
  <2>3. CASE WriteChunks(i)
    <3>1. /\ pc' \in {"ingesting", "post", "saving"} /\ (pc' = "post" => 1 \in DOMAIN Derived)
          /\ pc' = "ingesting" => pending' # {}
      BY <2>1, <2>3 DEF WriteChunks, After
    <3>2. QED BY <1>1, <1>2, <1>3, <2>3, <3>1 DEF WriteChunks, CInv, Working
  <2>4. CASE RejectRecord(i)
    <3>1. /\ pc' \in {"ingesting", "post", "saving"} /\ (pc' = "post" => 1 \in DOMAIN Derived)
          /\ pc' = "ingesting" => pending' # {}
      BY <2>1, <2>4 DEF RejectRecord, After
    <3>2. QED BY <1>1, <1>2, <1>3, <2>4, <3>1 DEF RejectRecord, CInv, Working
  <2>5. CASE ChunksRejected(i)
    <3>1. /\ pc' \in {"ingesting", "post", "saving"} /\ (pc' = "post" => 1 \in DOMAIN Derived)
          /\ pc' = "ingesting" => pending' # {}
      BY <2>1, <2>5 DEF ChunksRejected, After
    <3>2. QED BY <1>1, <1>2, <1>3, <2>5, <3>1 DEF ChunksRejected, CInv, Working
  <2>6. QED BY <2>2, <2>3, <2>4, <2>5
<1>8. TypeOK'
  <2>1. faults' \in 0 .. MaxFaults
    BY <1>4, FaultTyped DEF CInv
  <2>2. QED BY <1>3, <1>5, <1>6, <1>7, <2>1 DEF CInv, TypeOK, source
<1>9. Worked
  BY <1>1, <1>2, <1>3, <1>5, <1>6, <1>7 DEF Worked
<1>10. QED BY <1>7, <1>8, <1>9

LEMMA ThrowIs ==
  ASSUME CInv, IngestThrows
  PROVE  TypeOK' /\ Working' /\ Worked
<1>1. /\ pc \in {"ingesting", "chunking"} /\ pc' = "saving" /\ clean' = FALSE
      /\ pending' = {} /\ writing' = {} /\ accepted' = {}
      /\ UNCHANGED <<source, ledger, index, next, deletes, hidden, step, records, stage>>
      /\ faults' \in 0 .. MaxFaults
  BY FaultTyped DEF IngestThrows, CInv
<1>2. TypeOK'
  BY <1>1 DEF CInv, TypeOK, source
<1>3. Working'
  BY <1>1 DEF CInv, Working
<1>4. QED BY <1>1, <1>2, <1>3 DEF Worked

LEMMA FillIs ==
  ASSUME CInv, FillStore \/ FillFails
  PROVE  TypeOK' /\ Working' /\ Worked
<1>1. PICK done \in SUBSET accepted : Fill(done)
  BY DEF FillStore, FillFails
<1>2. /\ pc = "post" /\ pc' = (IF stage = Len(Derived) THEN "saving" ELSE "post")
      /\ stage' = stage + 1 /\ Derived[stage] \in Stores
      /\ stage \in 1 .. Len(Derived) /\ DOMAIN Derived = 1 .. Len(Derived) /\ Len(Derived) \in Nat
      /\ UNCHANGED <<source, ledger, next, deletes, hidden, step, records, pending, writing, accepted>>
  BY <1>1, DeleteOrderIs DEF Fill, CInv, Working, Stores, DerivedStores
<1>0. /\ stage' \in 1 .. Len(Derived) + 1 /\ pc' \in {"post", "saving"}
      /\ pc' = "post" => stage' \in DOMAIN Derived
  <2> DEFINE n == Len(Derived)
  <2>1. /\ n \in Nat /\ stage \in 1 .. n /\ stage' = stage + 1 /\ DOMAIN Derived = 1 .. n
        /\ pc' = (IF stage = n THEN "saving" ELSE "post")
    BY <1>2, Zenon
  <2> HIDE DEF n
  <2>2. stage' \in 1 .. n + 1 /\ (stage # n => stage' \in 1 .. n)
    BY <2>1
  <2>3. pc' \in {"post", "saving"} /\ (pc' = "post" => stage # n)
    BY <2>1
  <2>4. QED BY <2>1, <2>2, <2>3 DEF n
<1>3. accepted \subseteq records /\ records \subseteq Items
      /\ \A i \in accepted : Content(i) \in Contents
  BY <1>2, ContentTyped DEF CInv, Working, TypeOK
<1>4. (clean' => clean) /\ clean' \in BOOLEAN /\ faults' \in 0 .. MaxFaults
  <2>1. clean \in BOOLEAN
    BY DEF CInv, TypeOK
  <2>2. clean' = clean \/ clean' = FALSE
    BY DEF FillStore, FillFails
  <2>3. faults' \in 0 .. MaxFaults
    BY FaultTyped DEF FillStore, FillFails, CInv
  <2>4. (clean' => clean) /\ clean' \in BOOLEAN
    <3>1. CASE clean' = clean
      BY <2>1, <3>1
    <3>2. CASE clean' = FALSE
      BY <3>2
    <3>3. QED BY <2>2, <3>1, <3>2
  <2>5. QED BY <2>3, <2>4
<1>5. index' = [index EXCEPT ![Derived[stage]] = [i \in Items |->
                  IF i \in done THEN index[Derived[stage]][i] \cup {Content(i)}
                  ELSE index[Derived[stage]][i]]]
  BY <1>1 DEF Fill
<1>6. /\ index' \in [Stores -> [Items -> SUBSET Contents]]
      /\ \A s \in Stores, i \in Items \ done : index'[s][i] = index[s][i]
      /\ \A s \in Stores, i \in done : index'[s][i] \subseteq index[s][i] \cup {Content(i)}
  BY <1>2, <1>3, <1>5 DEF CInv, TypeOK
<1>7. TypeOK'
  BY <1>0, <1>2, <1>4, <1>6 DEF CInv, TypeOK, source
<1>8. Working'
  <2>1. deletes = {} /\ writing = {}
    BY <1>2 DEF CInv, Working
  <2>2. QED BY <1>0, <1>2, <2>1 DEF CInv, Working
<1>9. Worked
  <2>1. \A i \in Items, s \in Stores :
          \/ index'[s][i] \subseteq index[s][i]
          \/ i \in records /\ index'[s][i] \subseteq index[s][i] \cup {Content(i)}
    BY <1>3, <1>6
  <2>2. \A i \in Items \ (records \cup deletes), s \in Stores : index'[s][i] = index[s][i]
    BY <1>3, <1>6
  <2>3. QED BY <1>2, <1>4, <2>1, <2>2 DEF Worked
<1>10. QED BY <1>7, <1>8, <1>9

LEMMA WorkIs ==
  ASSUME CInv, Work
  PROVE  TypeOK' /\ Working' /\ Worked
BY DeleteIs, IngestIs, ThrowIs, FillIs DEF Work
-----------------------------------------------------------------------------
(* The cursor and the entries.                                               *)

(* A run ends: its ledger is saved, or it is not.                            *)
Ended ==
  /\ pc # "idle" /\ pc' = "idle" /\ UNCHANGED <<source, index, local>>
  /\ ledger' = ledger \/ (ledger' = next /\ pc = "saving" /\ ShouldSaveLedger)
  /\ faults' \in 0 .. MaxFaults

ConnectorFailed ==
  /\ pc = "idle" /\ pc' = "saving" /\ next' = ledger
  /\ deletes' = {} /\ records' = {} /\ pending' = {} /\ writing' = {} /\ accepted' = {}
  /\ step' = 1 /\ stage' = 1 /\ clean' = TRUE
  /\ UNCHANGED <<source, ledger, index, hidden>> /\ faults' \in 0 .. MaxFaults

LEMMA EndedIs ==
  ASSUME TypeOK, SaveLedger \/ SkipSave \/ SaveFails \/ Die
  PROVE  Ended
<1>1. faults' \in 0 .. MaxFaults
  BY FaultTyped DEF SaveLedger, SkipSave, SaveFails, Die
<1>2. QED BY <1>1 DEF SaveLedger, SkipSave, SaveFails, Die, Finish, Ended

LEMMA ConnectorFailedIs ==
  ASSUME TypeOK, ConnectorFails
  PROVE  ConnectorFailed
BY FaultTyped DEF ConnectorFails, ConnectorFailed

(* The steps there are.                                                      *)
LEMMA Steps ==
  ASSUME TypeOK, Next
  PROVE  \/ \E i \in Items : (Edit(i) \/ Remove(i)) /\ Changed(i)
         \/ Synced \/ Work \/ Ended \/ ConnectorFailed
<1>1. CASE \E i \in Items : Edit(i) \/ Remove(i)
  BY <1>1, ChangedIs
<1>2. CASE \E mode \in {"full", "delta"} : Sync(mode)
  BY <1>2, SyncIs
<1>3. CASE ConnectorFails
  BY <1>3, ConnectorFailedIs
<1>4. CASE SaveLedger \/ SkipSave \/ SaveFails \/ Die
  BY <1>4, EndedIs
<1>5. QED BY <1>1, <1>2, <1>3, <1>4 DEF Next, Advance, Work

LEMMA CInvStep == CInv /\ [Next]_vars => CInv'
<1> SUFFICES ASSUME CInv, [Next]_vars PROVE CInv'
  OBVIOUS
<1>1. ASSUME NEW i \in Items, Changed(i) PROVE CInv'
  BY <1>1, ChangedKeepsCInv
<1>2. CASE Synced
  BY <1>2, SyncedKeepsCInv
<1>3. CASE Work
  <2>1. TypeOK' /\ Working' /\ pc # "idle" /\ UNCHANGED <<origin, changed, clock, ledger, next>>
    BY <1>3, WorkIs DEF Worked, source
  <2>2. QED BY <2>1 DEF CInv, Covers, ClaimOf, ActiveHaveContent
<1>4. CASE Ended
  <2>1. /\ ledger' = ledger \/ ledger' = next
        /\ UNCHANGED <<origin, changed, clock>> /\ pc # "idle" /\ pc' = "idle"
    BY <1>4 DEF Ended, source
  <2>2. TypeOK'
    BY <1>4 DEF Ended, CInv, TypeOK, source, local
  <2>3. Working'
    BY <2>1 DEF Working
  <2>4. Covers(ledger)' /\ ActiveHaveContent(ledger)'
    BY <2>1 DEF CInv, Covers, ClaimOf, ActiveHaveContent
  <2>5. QED BY <2>1, <2>2, <2>3, <2>4 DEF CInv
<1>5. CASE ConnectorFailed
  <2>1. TypeOK'
    <3>1. 1 \in DOMAIN DeleteOrder /\ 1 \in 1 .. Len(Derived) + 1
      BY DeleteOrderIs
    <3>2. QED BY <1>5, <3>1 DEF ConnectorFailed, CInv, TypeOK, source
  <2>2. Working'
    BY <1>5 DEF ConnectorFailed, Working
  <2>3. ledger' = ledger /\ next' = ledger /\ UNCHANGED <<origin, changed, clock>>
    BY <1>5 DEF ConnectorFailed, source
  <2>4. QED BY <2>1, <2>2, <2>3 DEF CInv, Covers, ClaimOf, ActiveHaveContent
<1>6. CASE UNCHANGED vars
  <2>1. UNCHANGED <<origin, history, changed, clock, ledger, index, pc, next, deletes, hidden, step,
                    records, pending, writing, accepted, stage, clean, faults>>
    BY <1>6 DEF vars, source, local
  <2>2. TypeOK'
    BY <2>1 DEF CInv, TypeOK
  <2>3. QED BY <2>1, <2>2 DEF CInv, Working, Covers, ClaimOf, ActiveHaveContent
<1>7. QED
  <2>1. CASE Next
    BY <1>1, <1>2, <1>3, <1>4, <1>5, <2>1, Steps DEF CInv
  <2>2. QED BY <1>6, <2>1

LEMMA CInvariance == Spec => []CInv
BY CInvInit, CInvStep, PTL DEF Spec

(* The variables of a sync, its ledgers and the index keep their types.      *)
THEOREM TypeCorrect == Spec => []TypeOK
<1>1. CInv => TypeOK
  BY DEF CInv
<1>2. QED BY <1>1, CInvariance, PTL

(* No change that the saved cursor covers is missing from the saved entries, *)
(* whatever failed or died, and whether or not items return to a content.    *)
THEOREM CursorCoversChanges == Spec => []CursorCovers
<1>1. CInv => CursorCovers
  BY DEF CInv, Covers, ClaimOf, CursorCovers, Claimed
<1>2. QED BY <1>1, CInvariance, PTL

-----------------------------------------------------------------------------
(* Copies.                                                                   *)

CopyFacts(i) ==
  /\ Gone(i) => Copy(i) = Absent
  /\ \A c \in Contents : Complete(i, c) => Copy(i) = c
  /\ ~ Gone(i) /\ (\A c \in Contents : ~ Complete(i, c)) => Copy(i) = Partial

Copies == \A i \in Items : CopyFacts(i)

LEMMA CopyIs == Copies
<1> SUFFICES ASSUME NEW i \in Items PROVE CopyFacts(i)
  BY DEF Copies
<1>1. \A c, d : Complete(i, c) /\ Complete(i, d) => c = d
  BY DEF Complete
<1>2. \A c : Complete(i, c) => ~ Gone(i)
  BY DEF Complete, Gone, Stores
<1>3. \A c \in Contents : Complete(i, c) =>
        /\ (CHOOSE d \in Contents : Complete(i, d)) \in Contents
        /\ Complete(i, CHOOSE d \in Contents : Complete(i, d))
  OBVIOUS
<1>4. \A c \in Contents : Complete(i, c) => (CHOOSE d \in Contents : Complete(i, d)) = c
  BY <1>1, <1>3
<1>5. QED BY <1>2, <1>4 DEF CopyFacts, Copy

LEMMA CopyIsAbsent ==
  ASSUME NEW i \in Items, Copy(i) = Absent
  PROVE  Gone(i)
<1>1. Absent \notin Contents /\ Partial # Absent
  BY SyncAssumption DEF Absent, Contents, Partial
<1>2. QED BY <1>1, CopyIs DEF Copies, CopyFacts

LEMMA SameCopy ==
  ASSUME NEW i \in Items, \A s \in Stores : index'[s][i] = index[s][i]
  PROVE  Copy(i)' = Copy(i)
<1>1. Copies'
  BY CopyIs, PTL
<1>2. Gone(i)' <=> Gone(i)
  BY DEF Gone
<1>3. \A c \in Contents : Complete(i, c)' <=> Complete(i, c)
  BY DEF Complete, Stores
<1>4. CopyFacts(i)' /\ CopyFacts(i)
  BY <1>1, CopyIs DEF Copies
<1>5. QED BY <1>2, <1>3, <1>4 DEF CopyFacts

LEMMA ClaimRange ==
  ASSUME TypeOK, NEW i \in Items
  PROVE  /\ Unclaimed # origin[i] /\ Unclaimed # Absent
         /\ Claimed(i) \in Contents \cup {Absent, Unclaimed}
<1>1. ledger.entries[i] \in Entries /\ origin[i] \in 0 .. MaxChanges /\ MaxChanges \in Nat
  BY SyncAssumption DEF TypeOK, Ledgers, Contents, Absent
<1>2. QED BY <1>1 DEF Claimed, Unclaimed, Absent, Entries
-----------------------------------------------------------------------------
(* Whatever the source does, a claim that a run saves is a finished copy.    *)

LEMMA ChangedKeepsRun ==
  ASSUME RunInv, NEW i \in Items, Changed(i)
  PROVE  RunInv'
<1>1. CInv'
  BY ChangedKeepsCInv DEF RunInv
<1>2. UNCHANGED <<ledger, index, pc, next, deletes, hidden, step, records, pending, writing, accepted,
                  stage, clean>>
  BY DEF Changed
<1>3. QED
  BY <1>1, <1>2 DEF RunInv, ClaimsKept, Claimed, InPlace, DerivedInPlace, DeletedGone, Content, Removed,
      RemovedFrom

LEMMA SyncedKeepsRun ==
  ASSUME RunInv, Synced
  PROVE  RunInv'
<1>1. CInv'
  BY SyncedKeepsCInv DEF RunInv
<1>2. pc = "idle" /\ UNCHANGED <<origin, ledger, index>>
  BY DEF Synced, source
<1>3. \A i \in Items : Claimed(i)' = Claimed(i)
  BY <1>2 DEF Claimed
<1>4. ASSUME NEW i \in Items
      PROVE  i \notin records' /\ next'.entries[i].status = "active" =>
                  Claimed(i) = next'.entries[i].content
  <2>1. SyncedItem(i)
    BY DEF Synced
  <2>2. QED BY <2>1 DEF SyncedItem, Claimed
<1>5. ClaimsKept'
  BY <1>3, <1>4 DEF ClaimsKept
<1>6. InPlace' /\ DerivedInPlace'
  BY DEF Synced, InPlace, DerivedInPlace
<1>7. DeletedGone'
  <2>1. ASSUME NEW i \in Items \ deletes', clean', next'.entries[i].status = "deleted"
        PROVE  Claimed(i)' = Absent
    <3>1. ledger.entries[i].status = "deleted"
      BY <2>1 DEF Synced, SyncedItem
    <3>2. QED BY <1>3, <3>1 DEF Claimed
  <2>2. \A k \in DOMAIN DeleteOrder : ~ (k < step')
    BY DeleteOrderIs DEF Synced
  <2>3. QED BY <2>1, <2>2 DEF DeletedGone
<1>8. QED BY <1>1, <1>5, <1>6, <1>7 DEF RunInv

LEMMA ConnectorFailedKeepsRun ==
  ASSUME RunInv, ConnectorFailed, CInv'
  PROVE  RunInv'
<1>1. /\ pc = "idle" /\ UNCHANGED <<ledger, index>> /\ next' = ledger
      /\ records' = {} /\ deletes' = {} /\ writing' = {} /\ accepted' = {}
  BY DEF ConnectorFailed
<1>2. ClaimsKept'
  BY <1>1 DEF ClaimsKept, Claimed
<1>3. InPlace' /\ DerivedInPlace'
  BY <1>1 DEF InPlace, DerivedInPlace
<1>4. DeletedGone'
  BY <1>1 DEF DeletedGone, Claimed
<1>5. QED BY <1>2, <1>3, <1>4 DEF RunInv

LEMMA RunWorkedKeeps ==
  ASSUME RunInv, Worked, CInv'
  PROVE  /\ ClaimsKept'
         /\ \A i \in Items \ deletes :
              clean' /\ next.entries[i].status = "deleted" => Removed(i)' \/ Claimed(i)' = Absent
         /\ \A i \in Items : Content(i)' = Content(i) /\ Claimed(i)' = Claimed(i)
<1>1. /\ UNCHANGED <<ledger, next, records>>
      /\ pc # "idle" /\ pc' # "idle" /\ deletes' \subseteq deletes /\ (clean' => clean)
  BY DEF Worked
<1>2. \A i \in Items : Claimed(i)' = Claimed(i) /\ Content(i)' = Content(i)
  BY <1>1 DEF Claimed, Content
<1>3. ClaimsKept'
  BY <1>1, <1>2 DEF RunInv, ClaimsKept
<1>4. ASSUME NEW i \in Items \ deletes, clean', next.entries[i].status = "deleted"
      PROVE  Removed(i)' \/ Claimed(i)' = Absent
  <2>1. (Removed(i) \/ Claimed(i) = Absent) /\ i \notin records
    BY <1>1, <1>4 DEF RunInv, CInv, Working, DeletedGone
  <2>2. Removed(i)' <=> Removed(i)
    BY <2>1 DEF Worked, Removed, RemovedFrom
  <2>3. QED BY <1>2, <2>1, <2>2
<1>5. QED BY <1>2, <1>3, <1>4

LEMMA DeleteKeepsRun ==
  ASSUME RunInv, DeleteStep \/ DeleteFails, Worked, CInv'
  PROVE  InPlace' /\ DerivedInPlace' /\ DeletedGone'
<1>1. /\ pc = "deleting" /\ NextDelete /\ accepted = {} /\ writing = {}
      /\ UNCHANGED <<next, records, accepted, writing>>
  BY DEF DeleteStep, DeleteFails, NextDelete, RunInv, CInv, Working
<1>2. pc' \in {"deleting", "ingesting", "saving"}
  BY <1>1, NextDeleteIs DEF RunInv
<1>3. InPlace' /\ DerivedInPlace'
  BY <1>1, <1>2 DEF InPlace, DerivedInPlace
<1>4. SUFFICES ASSUME clean' PROVE DeletedGone'
  BY <1>3 DEF DeletedGone
<1> DEFINE first == FirstOf(deletes)
<1>5. /\ DeleteStep /\ clean /\ first \in deletes /\ first \in Items
      /\ step \in DOMAIN DeleteOrder
  BY <1>1, <1>4, FirstIsDeleted DEF DeleteStep, DeleteFails, RunInv, CInv, TypeOK
<1>6. /\ index' = IF first \in hidden /\ DeleteOrder[step] \in Filtered THEN index
                  ELSE Without(DeleteOrder[step], first)
      /\ hidden' = hidden
  BY <1>1, <1>5 DEF DeleteStep, NextDelete
<1>7. \A k \in DOMAIN DeleteOrder : k < step => RemovedFrom(DeleteOrder[k], first)
  BY <1>1, <1>5 DEF RunInv, DeletedGone
<1> HIDE DEF first
<1>8. /\ \A t \in Stores : index'[t][first] \subseteq index[t][first]
      /\ \/ index'[DeleteOrder[step]][first] = {}
         \/ first \in hidden /\ DeleteOrder[step] \in Filtered
  BY <1>5, <1>6, WithoutTyped, DeleteOrderIs DEF RunInv, CInv
<1>9. \A k \in DOMAIN DeleteOrder : k < step + 1 =>
        \/ index'[DeleteOrder[k]][first] = {}
        \/ first \in hidden' /\ DeleteOrder[k] \in Filtered
  <2>1. ASSUME NEW k \in DOMAIN DeleteOrder, k < step + 1
        PROVE  \/ index'[DeleteOrder[k]][first] = {}
               \/ first \in hidden' /\ DeleteOrder[k] \in Filtered
    <3>1. k < step \/ k = step
      BY <1>5, <2>1, DeleteOrderIs
    <3>2. DeleteOrder[k] \in Stores
      BY DeleteOrderIs
    <3>3. CASE k < step
      BY <1>6, <1>7, <1>8, <3>2, <3>3 DEF RemovedFrom
    <3>4. CASE k = step
      BY <1>6, <1>8, <3>4
    <3>5. QED BY <3>1, <3>3, <3>4
  <2>2. QED BY <2>1
<1>10. \/ step' = step + 1 /\ deletes' = deletes
       \/ step = Len(DeleteOrder) /\ step' = 1 /\ deletes' = deletes \ {first}
  BY <1>1, NextDeleteIs DEF RunInv, first
<1>11. ASSUME NEW i \in Items \ deletes', next'.entries[i].status = "deleted"
       PROVE  Removed(i)' \/ Claimed(i)' = Absent
  <2>1. CASE i \notin deletes
    BY <1>1, <1>4, <1>11, <2>1, RunWorkedKeeps
  <2>2. CASE i \in deletes
    <3>1. i = first /\ step = Len(DeleteOrder)
      BY <1>10, <1>11, <2>2
    <3>2. \A k \in DOMAIN DeleteOrder : k < step + 1
      BY <3>1, DeleteOrderIs
    <3>3. \A k \in DOMAIN DeleteOrder :
            index'[DeleteOrder[k]][i] = {} \/ (i \in hidden' /\ DeleteOrder[k] \in Filtered)
      BY <1>9, <3>1, <3>2
    <3>4. \A s \in Stores : index'[s][i] = {} \/ (i \in hidden' /\ s \in Filtered)
      BY <3>3, DeleteOrderIs
    <3>5. QED BY <3>4 DEF Removed, RemovedFrom
  <2>3. QED BY <2>1, <2>2
<1>12. ASSUME deletes' # {}, NEW k \in DOMAIN DeleteOrder, k < step'
       PROVE  \/ index'[DeleteOrder[k]][FirstOf(deletes')] = {}
              \/ FirstOf(deletes') \in hidden' /\ DeleteOrder[k] \in Filtered
  <2>1. step' # 1
    BY <1>12, DeleteOrderIs
  <2>2. QED BY <1>9, <1>10, <1>12, <2>1 DEF first
<1>13. QED BY <1>11, <1>12 DEF DeletedGone, RemovedFrom

LEMMA IngestKeepsRun ==
  ASSUME RunInv, NEW i \in Items,
         WriteDocument(i) \/ WriteChunks(i) \/ RejectRecord(i) \/ ChunksRejected(i),
         Worked, CInv'
  PROVE  InPlace' /\ DerivedInPlace' /\ DeletedGone'
<1>1. /\ pc \in {"ingesting", "chunking"} /\ i \in pending \cup writing
      /\ deletes = {} /\ stage = 1 /\ (pc = "ingesting" => writing = {})
      /\ pc = "chunking" => writing = {i}
      /\ i \notin accepted /\ accepted \subseteq Items
      /\ TypeOK /\ index \in [Stores -> [Items -> SUBSET Contents]]
      /\ "documents" \in Stores /\ "chunks" \in Stores
  BY DEF WriteDocument, WriteChunks, RejectRecord, ChunksRejected, RunInv, CInv, Working, TypeOK,
         Stores
<1>2. UNCHANGED <<next, deletes, step, records, stage>>
  BY DEF WriteDocument, WriteChunks, RejectRecord, ChunksRejected
<1>3. \A j \in Items : Content(j)' = Content(j)
  BY <1>2 DEF Content
<1>4. \A j \in accepted : index["documents"][j] = {Content(j)} /\ index["chunks"][j] = {Content(j)}
  BY <1>1 DEF RunInv, InPlace
<1>5. InPlace'
  <2>1. CASE RejectRecord(i)
    BY <1>1, <1>3, <1>4, <2>1 DEF RejectRecord, InPlace
  <2>2. CASE ChunksRejected(i)
    <3>1. index' = Without("documents", i) /\ writing' = {} /\ accepted' = accepted
      BY <2>2 DEF ChunksRejected
    <3>2. \A t \in Stores, j \in Items : j # i => index'[t][j] = index[t][j]
      BY <1>1, <3>1, WithoutTyped
    <3>3. QED BY <1>1, <1>3, <1>4, <3>1, <3>2 DEF InPlace
  <2>3. CASE WriteDocument(i)
    <3> DEFINE W == Without("chunks", i)
    <3>1. /\ W \in [Stores -> [Items -> SUBSET Contents]]
          /\ \A t \in Stores, j \in Items : j # i => W[t][j] = index[t][j]
      BY <1>1, WithoutTyped
    <3>2. /\ index' = [W EXCEPT !["documents"] = [W["documents"] EXCEPT ![i] = {Content(i)}]]
          /\ writing' = {i} /\ accepted' = accepted
      BY <2>3 DEF WriteDocument
    <3> HIDE DEF W
    <3>3. /\ index'["documents"][i] = {Content(i)}
          /\ \A j \in accepted : /\ index'["documents"][j] = index["documents"][j]
                                 /\ index'["chunks"][j] = index["chunks"][j]
      BY <1>1, <3>1, <3>2
    <3>4. QED BY <1>1, <1>3, <1>4, <3>2, <3>3 DEF InPlace
  <2>4. CASE WriteChunks(i)
    <3>1. /\ index' = [index EXCEPT !["chunks"] = [index["chunks"] EXCEPT ![i] = {Content(i)}]]
          /\ writing' = {} /\ accepted' = accepted \cup {i} /\ i \in writing
      BY <2>4 DEF WriteChunks
    <3>2. index["documents"][i] = {Content(i)}
      BY <1>1, <3>1 DEF RunInv, InPlace
    <3>3. /\ index'["documents"] = index["documents"]
          /\ index'["chunks"][i] = {Content(i)}
          /\ \A j \in accepted : index'["chunks"][j] = index["chunks"][j]
      BY <1>1, <3>1
    <3>4. QED BY <1>1, <1>3, <1>4, <3>1, <3>2, <3>3 DEF InPlace
  <2>5. QED BY <2>1, <2>2, <2>3, <2>4
<1>6. pc' = "saving" /\ accepted' # {} => Derived = <<>>
  BY DEF WriteDocument, WriteChunks, RejectRecord, ChunksRejected, After
<1>7. DerivedInPlace'
  <2>1. Derived = <<>> => 1 = Len(Derived) + 1
    OBVIOUS
  <2>2. \A k \in DOMAIN Derived : ~ (k < 1)
    BY DeleteOrderIs
  <2>3. QED BY <1>1, <1>2, <1>6, <2>1, <2>2 DEF DerivedInPlace
<1>8. DeletedGone'
  BY <1>1, <1>2, RunWorkedKeeps DEF DeletedGone
<1>9. QED BY <1>5, <1>7, <1>8

LEMMA FillKeepsRun ==
  ASSUME RunInv, FillStore \/ FillFails, Worked, CInv'
  PROVE  InPlace' /\ DerivedInPlace' /\ DeletedGone'
<1>1. PICK done \in SUBSET accepted : Fill(done) /\ (clean' => done = accepted)
  BY DEF FillStore, FillFails
<1>2. /\ pc = "post" /\ pc' = (IF stage = Len(Derived) THEN "saving" ELSE "post")
      /\ stage' = stage + 1 /\ stage \in DOMAIN Derived
      /\ UNCHANGED <<next, deletes, accepted, writing>>
      /\ deletes = {} /\ writing = {} /\ accepted \subseteq Items
      /\ index \in [Stores -> [Items -> SUBSET Contents]]
  BY <1>1 DEF Fill, RunInv, CInv, Working, TypeOK
<1> DEFINE s == Derived[stage]
<1>3. /\ s \in Stores /\ s # "documents" /\ s # "chunks"
      /\ "documents" \in Stores /\ "chunks" \in Stores
      /\ \A k \in DOMAIN Derived : Derived[k] \in Stores
  BY <1>2, SyncAssumption DEF Stores, DerivedStores
<1>4. index' = [index EXCEPT ![s] = [i \in Items |->
                  IF i \in done THEN index[s][i] \cup {Content(i)} ELSE index[s][i]]]
  BY <1>1 DEF Fill
<1> HIDE DEF s
<1>5. /\ index'["documents"] = index["documents"] /\ index'["chunks"] = index["chunks"]
      /\ \A t \in Stores, i \in Items : index[t][i] \subseteq index'[t][i]
      /\ \A i \in Items : i \in done => Content(i) \in index'[s][i]
  BY <1>2, <1>3, <1>4
<1>6. InPlace'
  BY <1>2, <1>5 DEF RunInv, InPlace, Content
<1>7. DerivedInPlace'
  <2>1. SUFFICES ASSUME clean' PROVE DerivedInPlace'
    BY DEF DerivedInPlace
  <2>2. clean /\ done = accepted
    BY <1>1, <2>1 DEF Worked
  <2>3. ASSUME NEW k \in DOMAIN Derived, k < stage', NEW i \in accepted
        PROVE  Content(i) \in index'[Derived[k]][i]
    <3>1. k < stage \/ k = stage
      BY <1>2, <2>3, DeleteOrderIs
    <3>2. CASE k < stage
      <4>1. Content(i) \in index[Derived[k]][i]
        BY <1>2, <2>2, <3>2 DEF RunInv, DerivedInPlace
      <4>2. QED BY <1>2, <1>3, <1>5, <4>1
    <3>3. CASE k = stage
      BY <1>2, <1>5, <2>2, <3>3 DEF s
    <3>4. QED BY <3>1, <3>2, <3>3
  <2>4. pc' = "saving" => stage' = Len(Derived) + 1
    BY <1>2
  <2>5. QED BY <1>2, <2>3, <2>4 DEF DerivedInPlace, Content
<1>8. DeletedGone'
  BY <1>2, RunWorkedKeeps DEF DeletedGone
<1>9. QED BY <1>6, <1>7, <1>8

LEMMA WorkKeepsRun ==
  ASSUME RunInv, Work
  PROVE  RunInv' /\ Worked
<1>1. Worked /\ CInv'
  <2>1. Worked /\ TypeOK' /\ Working' /\ UNCHANGED <<origin, changed, clock, ledger, next>>
    BY WorkIs DEF RunInv, Worked, source
  <2>2. QED BY <2>1 DEF RunInv, CInv, Covers, ClaimOf, ActiveHaveContent, Worked
<1>2. InPlace' /\ DerivedInPlace' /\ DeletedGone'
  <2>1. CASE DeleteStep \/ DeleteFails
    BY <1>1, <2>1, DeleteKeepsRun
  <2>2. CASE FillStore \/ FillFails
    BY <1>1, <2>2, FillKeepsRun
  <2>3. CASE \E i \in Items :
               WriteDocument(i) \/ WriteChunks(i) \/ RejectRecord(i) \/ ChunksRejected(i)
    BY <1>1, <2>3, IngestKeepsRun
  <2>4. CASE IngestThrows
    <3>1. /\ clean' = FALSE /\ accepted' = {} /\ writing' = {}
      BY <2>4 DEF IngestThrows
    <3>2. QED BY <3>1 DEF InPlace, DerivedInPlace, DeletedGone
  <2>5. QED BY <2>1, <2>2, <2>3, <2>4 DEF Work
<1>3. QED BY <1>1, <1>2, RunWorkedKeeps DEF RunInv

(* The claims that a run saves are those of before, or of finished copies    *)
(* and removals.                                                             *)
LEMMA SavedClaims ==
  ASSUME RunInv, pc = "saving", ShouldSaveLedger, NEW i \in Items
  PROVE  \/ ClaimOf(next, i) \in {Claimed(i), Unclaimed}
         \/ ClaimOf(next, i) = Copy(i) /\ Copy(i) \in Contents
         \/ ClaimOf(next, i) = Absent /\ Removed(i)
<1>1. clean /\ records \subseteq accepted /\ deletes = {}
  BY DEF ShouldSaveLedger, RunInv, CInv, Working
<1>2. CASE next.entries[i].status = "active"
  <2>1. CASE i \in records
    <3>1. i \in accepted
      BY <1>1, <2>1
    <3>2. index["documents"][i] = {Content(i)} /\ index["chunks"][i] = {Content(i)}
      BY <3>1 DEF RunInv, InPlace
    <3>3. stage = Len(Derived) + 1 /\ (\A k \in DOMAIN Derived : k < Len(Derived) + 1)
      BY <1>1, <3>1, DeleteOrderIs DEF RunInv, DerivedInPlace
    <3>4. \A k \in DOMAIN Derived : Content(i) \in index[Derived[k]][i]
      BY <1>1, <3>1, <3>3 DEF RunInv, DerivedInPlace
    <3>5. Complete(i, Content(i))
      BY <3>2, <3>4 DEF Complete, DerivedStores
    <3>6. Content(i) \in Contents
      BY <2>1, ContentTyped DEF RunInv
    <3>7. Copy(i) = Content(i)
      BY <3>5, <3>6, CopyIs DEF Copies, CopyFacts
    <3>8. QED BY <1>2, <3>6, <3>7 DEF ClaimOf, Content
  <2>2. CASE i \notin records
    BY <1>2, <2>2 DEF RunInv, ClaimsKept, ClaimOf
  <2>3. QED BY <2>1, <2>2
<1>3. CASE next.entries[i].status = "deleted"
  <2>1. Removed(i) \/ Claimed(i) = Absent
    BY <1>1, <1>3 DEF RunInv, DeletedGone
  <2>2. QED BY <1>3, <2>1 DEF ClaimOf
<1>4. QED BY <1>2, <1>3 DEF ClaimOf

(* What the end of a run makes of the claims.                                *)
ClaimsChange ==
  \A i \in Items :
    /\ Copy(i)' = Copy(i) /\ (Removed(i)' <=> Removed(i))
    /\ \/ Claimed(i)' \in {Claimed(i), Unclaimed}
       \/ Claimed(i)' = Copy(i) /\ Copy(i) \in Contents
       \/ Claimed(i)' = Absent /\ Removed(i)

LEMMA EndedKeepsRun ==
  ASSUME RunInv, Ended, CInv'
  PROVE  RunInv' /\ ClaimsChange
<1>1. UNCHANGED <<index, hidden>> /\ pc # "idle" /\ pc' = "idle"
  BY DEF Ended, local
<1>2. ClaimsKept' /\ InPlace' /\ DerivedInPlace' /\ DeletedGone'
  BY <1>1 DEF ClaimsKept, InPlace, DerivedInPlace, DeletedGone
<1>3. ASSUME NEW i \in Items
      PROVE  \/ Claimed(i)' \in {Claimed(i), Unclaimed}
             \/ Claimed(i)' = Copy(i) /\ Copy(i) \in Contents
             \/ Claimed(i)' = Absent /\ Removed(i)
  <2>1. CASE ledger' = ledger
    BY <2>1 DEF Claimed
  <2>2. CASE ledger' = next /\ pc = "saving" /\ ShouldSaveLedger
    <3>1. Claimed(i)' = ClaimOf(next, i)
      BY <2>2 DEF Claimed, ClaimOf
    <3>2. QED BY <2>2, <3>1, SavedClaims
  <2>3. QED BY <2>1, <2>2 DEF Ended
<1>4. \A i \in Items : Copy(i)' = Copy(i) /\ (Removed(i)' <=> Removed(i))
  BY <1>1, SameCopy DEF Removed, RemovedFrom
<1>5. QED BY <1>2, <1>3, <1>4 DEF RunInv, ClaimsChange

(* A step keeps the invariant, and only the end of a run changes claims.     *)
LEMMA RunInvStep ==
  ASSUME RunInv, [Next]_vars
  PROVE  /\ RunInv'
         /\ ledger' = ledger \/ ClaimsChange
<1>1. CInv' /\ TypeOK
  BY CInvStep DEF RunInv, CInv
<1>2. ASSUME NEW i \in Items, Changed(i)
      PROVE  RunInv' /\ ledger' = ledger
  BY <1>2, ChangedKeepsRun DEF Changed
<1>3. CASE Synced
  BY <1>3, SyncedKeepsRun DEF Synced
<1>4. CASE Work
  BY <1>4, WorkKeepsRun DEF Worked
<1>5. CASE Ended
  BY <1>1, <1>5, EndedKeepsRun
<1>6. CASE ConnectorFailed
  BY <1>1, <1>6, ConnectorFailedKeepsRun DEF ConnectorFailed
<1>7. CASE UNCHANGED vars
  <2>1. UNCHANGED <<ledger, index, pc, next, deletes, hidden, step, records, pending, writing, accepted,
                    stage, clean>>
    BY <1>7 DEF vars, source, local
  <2>2. QED
    BY <1>1, <2>1
    DEF RunInv, ClaimsKept, Claimed, InPlace, DerivedInPlace, DeletedGone, Content, Removed,
      RemovedFrom
<1>8. CASE Next
  BY <1>1, <1>2, <1>3, <1>4, <1>5, <1>6, <1>8, Steps
<1>9. QED BY <1>7, <1>8

LEMMA RunInvInit == Init => RunInv
<1> SUFFICES ASSUME Init PROVE RunInv
  OBVIOUS
<1>1. CInv
  BY CInvInit
<1>2. ClaimsKept /\ InPlace /\ DerivedInPlace /\ DeletedGone
  BY DEF Init, ClaimsKept, InPlace, DerivedInPlace, DeletedGone
<1>3. QED BY <1>1, <1>2 DEF RunInv

(* Whatever the source does while a run is under way, items that return to   *)
(* an earlier content included: a claim that is new in the saved ledger is   *)
(* of a copy that every store has, or of an item that has left every store   *)
(* which the filter of its delete has not shut it out of.                    *)
THEOREM ClaimsFollowCopies == Spec => SavedClaimsAreCopies
<1>1. RunInv /\ [Next]_vars => RunInv'
  BY RunInvStep
<1>2. RunInv /\ [Next]_vars => [ClaimsFollow]_vars
  <2> SUFFICES ASSUME RunInv, [Next]_vars PROVE ClaimsFollow
    OBVIOUS
  <2>1. CASE ledger' = ledger
    BY <2>1 DEF ClaimsFollow, Claimed
  <2>2. CASE ClaimsChange
    BY <2>2 DEF ClaimsFollow, ClaimsChange
  <2>3. QED BY <2>1, <2>2, RunInvStep
<1>3. QED BY <1>1, <1>2, RunInvInit, PTL DEF Spec, SavedClaimsAreCopies
-----------------------------------------------------------------------------
(* The source changes.                                                       *)

NewContent(i) ==
  /\ \A j \in Items \ {i} : history'[j] = history[j]
  /\ \/ /\ origin'[i] = clock + 1 /\ history'[i] = history[i] \cup {clock + 1}
        /\ origin[i] # Absent \/ history[i] = {}
     \/ origin'[i] = Absent /\ history'[i] = history[i] /\ origin[i] # Absent

LEMMA NewContentIs ==
  ASSUME TypeOK, ~ Revisits, NEW i \in Items, Edit(i) \/ Remove(i)
  PROVE  NewContent(i)
<1>1. CASE Edit(i)
  <2>1. PICK c \in {clock + 1} : /\ origin' = [origin EXCEPT ![i] = c]
                                 /\ history' = [history EXCEPT ![i] = @ \cup {c}]
    BY <1>1 DEF Edit
  <2>2. QED BY <1>1, <2>1 DEF Edit, NewContent, TypeOK
<1>2. CASE Remove(i)
  BY <1>2 DEF Remove, NewContent, TypeOK
<1>3. QED BY <1>1, <1>2

LEMMA ChangedKeepsInv ==
  ASSUME IInv, NEW i \in Items, Changed(i), NewContent(i)
  PROVE  IInv'
<1>1. RunInv'
  BY ChangedKeepsRun DEF IInv
<1>2. /\ clock \in Nat /\ clock' = clock + 1 /\ clock < MaxChanges /\ MaxChanges \in Nat
      /\ \A j \in Items \ {i} :
           history'[j] = history[j] /\ origin'[j] = origin[j] /\ changed'[j] = changed[j]
      /\ UNCHANGED <<ledger, index, pc, next, deletes, hidden, step, records, pending, writing, accepted,
                     stage, clean>>
      /\ ledger \in Ledgers /\ next \in Ledgers
  BY SyncAssumption DEF IInv, RunInv, CInv, TypeOK, Changed, NewContent
<1>3. /\ origin[i] \in history[i] \cup {Absent} /\ history[i] \subseteq 1 .. clock
      /\ history[i] \subseteq history'[i]
  BY DEF IInv, Dated, NewContent
<1>4. Dated'
  <2>1. origin'[i] \in history'[i] \cup {Absent} /\ history'[i] # {}
    BY <1>3 DEF NewContent
  <2>2. history'[i] \subseteq 1 .. clock'
    BY <1>2, <1>3 DEF NewContent
  <2>3. \A j \in Items \ {i} : history[j] \subseteq 1 .. clock'
    BY <1>2 DEF IInv, Dated
  <2>4. QED BY <1>2, <2>1, <2>2, <2>3 DEF IInv, Dated
<1>5. ASSUME NEW l \in Ledgers, Truthful(l), UNCHANGED l
      PROVE  Truthful(l)'
  <2>1. l.entries[i].status # "deleted"
    BY <1>5 DEF Truthful, NewContent
  <2>2. history[i] # {} => history'[i] # {}
    BY <1>3
  <2>3. QED BY <1>2, <1>3, <1>5, <2>1, <2>2 DEF Truthful
<1>6. Claimed(i) # origin'[i]
  <2>1. ledger.entries[i].status # "deleted"
    BY DEF IInv, Truthful, NewContent
  <2>2. ledger.entries[i].status = "active" => ledger.entries[i].content \in history[i]
    BY DEF IInv, Truthful
  <2>3. Claimed(i) \in history[i] \cup {Unclaimed}
    BY <2>1, <2>2 DEF Claimed
  <2>4. QED BY <1>2, <1>3, <2>3 DEF Unclaimed, Absent, NewContent
<1>7. \A j \in Items : /\ Claimed(j)' = Claimed(j) /\ Copy(j)' = Copy(j) /\ Content(j)' = Content(j)
                       /\ Removed(j)' <=> Removed(j)
  BY <1>2, SameCopy DEF Claimed, Content, Removed, RemovedFrom
<1>8. NothingSkipped'
  BY <1>2, <1>6, <1>7 DEF IInv, NothingSkipped
<1>9. OutOfDate'
  BY <1>2, <1>6, <1>7 DEF IInv, RunInv, OutOfDate, CInv, TypeOK
<1>10. IndexDated'
  BY <1>2, <1>3 DEF IInv, IndexDated
<1>11. QED BY <1>1, <1>2, <1>4, <1>5, <1>8, <1>9, <1>10 DEF IInv
-----------------------------------------------------------------------------
(* A run starts.                                                             *)

LEMMA StartKeeps ==
  ASSUME IInv, UNCHANGED <<source, ledger, index>>,
         \A i \in Items : Claimed(i) = Absent => (i \in hidden' <=> i \in hidden)
  PROVE  /\ Dated' /\ Truthful(ledger)' /\ IndexDated' /\ NothingSkipped'
         /\ \A i \in Items : Claimed(i)' = Claimed(i)
<1>1. UNCHANGED <<origin, history, changed, clock, ledger, index>>
  BY DEF source
<1>2. Dated' /\ Truthful(ledger)' /\ IndexDated'
  BY <1>1 DEF IInv, Dated, Truthful, IndexDated
<1>3. \A i \in Items : Claimed(i)' = Claimed(i)
  BY <1>1 DEF Claimed
<1>4. \A i \in Items : Copy(i)' = Copy(i) /\ (Claimed(i) = Absent => (Removed(i)' <=> Removed(i)))
  BY <1>1, SameCopy DEF Removed, RemovedFrom
<1>5. NothingSkipped'
  BY <1>1, <1>3, <1>4 DEF IInv, NothingSkipped
<1>6. QED BY <1>2, <1>3, <1>5

(* What a run deletes is not said to be gone yet.                            *)
LEMMA DeletedAreUnclaimed ==
  ASSUME CInv, Synced, NEW i \in deletes'
  PROVE  i \in Items /\ Claimed(i) # Absent
<1>1. i \in Items /\ ledger.entries[i].status # "deleted"
  BY DEF Synced, SyncedItem
<1>2. ledger.entries[i].status = "active" => ledger.entries[i].content # Absent
  BY <1>1 DEF CInv, ActiveHaveContent
<1>3. QED BY <1>1, <1>2, ClaimRange DEF CInv, Claimed

LEMMA SyncedKeepsInv ==
  ASSUME IInv, Synced
  PROVE  IInv'
<1>1. RunInv'
  BY SyncedKeepsRun DEF IInv
<1>2. /\ UNCHANGED <<source, ledger, index>>
      /\ UNCHANGED <<origin, history, changed, clock, ledger, index>>
  BY DEF Synced, source
<1>0. ASSUME NEW i \in Items, Claimed(i) = Absent
      PROVE  i \in hidden' <=> i \in hidden
  BY <1>0, DeletedAreUnclaimed DEF Synced, IInv, RunInv
<1>3. /\ Dated' /\ Truthful(ledger)' /\ IndexDated' /\ NothingSkipped'
      /\ \A i \in Items : Claimed(i)' = Claimed(i)
  BY <1>0, <1>2, StartKeeps
<1>4. ASSUME NEW i \in Items
      PROVE  /\ next'.entries[i].status # "none" => history[i] # {}
             /\ next'.entries[i].status = "active" => next'.entries[i].content \in history[i]
             /\ next'.entries[i].status = "deleted" => origin[i] = Absent
  BY DEF Synced, SyncedItem, IInv, Dated, Truthful
<1>5. Truthful(next)'
  BY <1>2, <1>4 DEF Truthful
<1>6. ASSUME NEW i \in records' \cup deletes'
      PROVE  Claimed(i) # origin[i]
  <2>1. i \in Items /\ SyncedItem(i)
    BY DEF Synced
  <2>2. Unclaimed # origin[i]
    BY <2>1, ClaimRange DEF IInv, RunInv, CInv
  <2>3. ledger.entries[i].status = "active" => ledger.entries[i].content # Absent
    BY <2>1 DEF IInv, RunInv, CInv, ActiveHaveContent
  <2>4. QED BY <2>1, <2>2, <2>3 DEF SyncedItem, Claimed
<1>7. OutOfDate'
  BY <1>2, <1>3, <1>6 DEF OutOfDate, Synced
<1>8. QED BY <1>1, <1>3, <1>5, <1>7 DEF IInv

LEMMA ConnectorFailedKeepsInv ==
  ASSUME IInv, ConnectorFailed, RunInv'
  PROVE  IInv'
<1>1. /\ UNCHANGED <<source, ledger, index, history, origin>> /\ next' = ledger
      /\ records' = {} /\ deletes' = {} /\ hidden' = hidden
  BY DEF ConnectorFailed, source
<1>2. Dated' /\ Truthful(ledger)' /\ IndexDated' /\ NothingSkipped'
  BY <1>1, StartKeeps
<1>3. Truthful(next)' /\ OutOfDate'
  BY <1>1 DEF IInv, Truthful, OutOfDate
<1>4. QED BY <1>2, <1>3 DEF IInv
-----------------------------------------------------------------------------
(* A run works.                                                              *)

LEMMA WorkKeepsInv ==
  ASSUME IInv, Work
  PROVE  IInv'
<1>1. RunInv' /\ Worked
  BY WorkKeepsRun DEF IInv
<1>2. /\ UNCHANGED <<origin, history, changed, clock, ledger, next, records>>
      /\ pc # "idle" /\ pc' # "idle" /\ deletes' \subseteq deletes
      /\ records \subseteq Items /\ deletes \subseteq Items
  BY <1>1 DEF Worked, source, IInv, RunInv, CInv, TypeOK
<1>3. Dated' /\ Truthful(ledger)' /\ Truthful(next)'
  BY <1>2 DEF IInv, Dated, Truthful
<1>4. \A i \in Items : Claimed(i)' = Claimed(i)
  BY <1>2 DEF Claimed
<1>5. OutOfDate'
  BY <1>2, <1>4 DEF IInv, OutOfDate
<1>6. ASSUME NEW s \in Stores, NEW i \in Items
      PROVE  index'[s][i] \subseteq history[i]
  <2>1. index[s][i] \subseteq history[i]
    BY DEF IInv, IndexDated
  <2>2. i \in records => Content(i) \in history[i]
    BY <1>2 DEF IInv, RunInv, CInv, Working, Truthful, Content
  <2>3. QED BY <1>1, <2>1, <2>2 DEF Worked
<1>7. IndexDated'
  BY <1>2, <1>6 DEF IndexDated
<1>8. ASSUME NEW i \in Items, Claimed(i) = origin[i]
      PROVE  IF origin[i] = Absent THEN Removed(i)' ELSE Copy(i)' = origin[i]
  <2>1. i \notin records \cup deletes
    BY <1>2, <1>8 DEF IInv, OutOfDate
  <2>2. Copy(i)' = Copy(i) /\ (Removed(i)' <=> Removed(i))
    BY <1>1, <2>1, SameCopy DEF Worked, Removed, RemovedFrom
  <2>3. QED BY <1>8, <2>2 DEF IInv, NothingSkipped
<1>9. NothingSkipped'
  BY <1>2, <1>4, <1>8 DEF NothingSkipped
<1>10. QED BY <1>1, <1>3, <1>5, <1>7, <1>9 DEF IInv
-----------------------------------------------------------------------------
(* A run ends.                                                               *)

LEMMA EndedKeepsInv ==
  ASSUME IInv, Ended, CInv'
  PROVE  IInv'
<1>1. /\ UNCHANGED <<origin, history, changed, clock, index>>
      /\ pc # "idle" /\ pc' = "idle" /\ (ledger' = ledger \/ ledger' = next)
  BY DEF Ended, source
<1>2. Dated' /\ IndexDated' /\ Truthful(ledger)' /\ OutOfDate'
  BY <1>1 DEF IInv, Dated, IndexDated, Truthful, OutOfDate
<1>3. RunInv' /\ ClaimsChange
  BY EndedKeepsRun DEF IInv
<1>4. /\ \A i \in Items : Unclaimed # origin[i]
      /\ Absent \notin Contents
  BY ClaimRange DEF IInv, RunInv, CInv, Contents, Absent
<1>5. NothingSkipped'
  BY <1>1, <1>3, <1>4 DEF IInv, NothingSkipped, ClaimsChange
<1>6. QED BY <1>1, <1>2, <1>3, <1>5 DEF IInv
-----------------------------------------------------------------------------
LEMMA InvInit == Init => IInv
<1> SUFFICES ASSUME Init PROVE IInv
  OBVIOUS
<1>1. RunInv
  BY RunInvInit
<1>2. \A i \in Items : ledger.entries[i].status = "none"
  BY DEF Init, EmptyLedger, NoEntry
<1>3. \A i \in Items : Removed(i)
  BY DEF Init, Removed, RemovedFrom
<1>4. Dated /\ IndexDated
  BY SyncAssumption DEF Init, Dated, IndexDated
<1>5. Truthful(ledger)
  BY <1>2 DEF Truthful
<1>6. NothingSkipped
  BY <1>3 DEF Init, NothingSkipped
<1>7. OutOfDate
  BY DEF Init, OutOfDate
<1>8. QED BY <1>1, <1>4, <1>5, <1>6, <1>7 DEF IInv, Init

LEMMA InvStep ==
  ASSUME ~ Revisits
  PROVE  IInv /\ [Next]_vars => IInv'
<1> SUFFICES ASSUME IInv, [Next]_vars PROVE IInv'
  OBVIOUS
<1>1. RunInv' /\ CInv' /\ TypeOK
  BY RunInvStep DEF IInv, RunInv, CInv
<1>2. ASSUME NEW i \in Items, Edit(i) \/ Remove(i), Changed(i)
      PROVE  IInv'
  BY <1>1, <1>2, NewContentIs, ChangedKeepsInv
<1>3. CASE Synced
  BY <1>3, SyncedKeepsInv
<1>4. CASE Work
  BY <1>4, WorkKeepsInv
<1>5. CASE Ended
  BY <1>1, <1>5, EndedKeepsInv
<1>6. CASE ConnectorFailed
  BY <1>1, <1>6, ConnectorFailedKeepsInv
<1>7. CASE UNCHANGED vars
  <2>1. UNCHANGED <<origin, history, changed, clock, ledger, index, pc, next, deletes, hidden, step,
                    records, pending, writing, accepted, stage, clean, faults>>
    BY <1>7 DEF vars, source, local
  <2>2. NothingSkipped'
    BY <2>1, SameCopy DEF IInv, NothingSkipped, Claimed, Removed, RemovedFrom
  <2>3. Dated' /\ IndexDated' /\ Truthful(ledger)' /\ (pc # "idle" => Truthful(next))'
    BY <2>1 DEF IInv, Dated, IndexDated, Truthful
  <2>4. OutOfDate'
    BY <2>1 DEF IInv, OutOfDate, Claimed
  <2>5. QED BY <1>1, <2>2, <2>3, <2>4 DEF IInv
<1>8. CASE Next
  BY <1>1, <1>2, <1>3, <1>4, <1>5, <1>6, <1>8, Steps
<1>9. QED BY <1>7, <1>8

LEMMA Invariance ==
  ASSUME ~ Revisits
  PROVE  Spec => []IInv
<1>1. IInv /\ [Next]_vars => IInv'
  BY InvStep
<1>2. QED BY InvInit, <1>1, PTL DEF Spec

(* Where items do not return to an earlier content, no change is silently    *)
(* skipped: what the ledger and the source agree on, every store has, but    *)
(* for what the filter of its delete has shut out.                           *)
THEOREM NoChangeIsSkipped ==
  ASSUME ~ Revisits
  PROVE  Spec => []NothingSkipped
<1>1. IInv => NothingSkipped
  BY DEF IInv
<1>2. QED BY <1>1, Invariance, PTL

(* Where filters shut nothing out either, what the ledger and the source     *)
(* agree on every store has, deleted items included.                         *)
THEOREM NothingIsLeft ==
  ASSUME ~ Revisits, Restricted = {}
  PROVE  Spec => [](\A i \in Items : Claimed(i) = origin[i] => Copy(i) = origin[i])
<1>1. ASSUME IInv, NEW i \in Items, Claimed(i) = origin[i]
      PROVE  Copy(i) = origin[i]
  <2>1. hidden = {}
    BY <1>1 DEF IInv, RunInv, CInv, TypeOK
  <2>2. Removed(i) => Gone(i)
    BY <2>1 DEF Removed, RemovedFrom, Gone
  <2>3. Gone(i) => Copy(i) = Absent
    BY CopyIs DEF Copies, CopyFacts
  <2>4. QED BY <1>1, <2>2, <2>3 DEF IInv, NothingSkipped
<1>2. IInv => \A i \in Items : Claimed(i) = origin[i] => Copy(i) = origin[i]
  BY <1>1
<1>3. QED BY <1>2, Invariance, PTL

(* A ledger has caught up with the source: its cursor is as late as the last *)
(* change, and it asks for no retry.                                         *)
CaughtUp ==
  ledger.cursor = clock /\ \A i \in Items : ledger.entries[i].status # "failed"
InStep(i) ==
  \/ origin[i] # Absent /\ Copy(i) = origin[i]
  \/ origin[i] = Absent /\ (Removed(i) \/ ledger.entries[i].status = "none")

LEMMA ChangesDated == Spec => [](TypeOK /\ \A i \in Items : changed[i] <= clock)
<1> DEFINE I == CInv /\ \A i \in Items : changed[i] <= clock
<1>1. Init => I
  BY CInvInit DEF Init
<1>2. I /\ [Next]_vars => I'
  <2> SUFFICES ASSUME I, [Next]_vars PROVE \A i \in Items : changed'[i] <= clock'
    BY CInvStep
  <2>1. clock \in Nat /\ \A i \in Items : changed[i] \in Nat /\ changed[i] <= clock
    BY SyncAssumption DEF CInv, TypeOK
  <2>2. ASSUME NEW i \in Items, Changed(i) PROVE \A j \in Items : changed'[j] <= clock'
    <3>1. \A j \in Items : changed'[j] \in {changed[j], clock + 1}
      BY <2>2 DEF Changed, CInv, TypeOK
    <3>2. QED BY <2>1, <2>2, <3>1 DEF Changed
  <2>3. CASE UNCHANGED <<changed, clock>>
    BY <2>1, <2>3
  <2>4. CASE Next
    BY <2>2, <2>3, <2>4, Steps, WorkIs
       DEF CInv, Synced, Worked, Ended, ConnectorFailed, source
  <2>5. QED BY <2>3, <2>4 DEF vars, source
<1>3. I => TypeOK /\ \A i \in Items : changed[i] <= clock
  BY DEF CInv
<1>4. QED BY <1>1, <1>2, <1>3, PTL DEF Spec

(* Where items do not return to an earlier content, a ledger that has caught *)
(* up with the source can be believed: each item's copy is what the source   *)
(* has of it, and one that the source has not is left only where its delete  *)
(* was shut out.  Only an item that came and went unseen, and that an        *)
(* unsaved run may have ingested, is known to no ledger.                     *)
THEOREM CaughtUpIsMirrored ==
  ASSUME ~ Revisits
  PROVE  Spec => [](CaughtUp => \A i \in Items : InStep(i))
<1>1. TypeOK /\ (\A i \in Items : changed[i] <= clock) /\ CursorCovers /\ NothingSkipped
      => (CaughtUp => \A i \in Items : InStep(i))
  <2> SUFFICES ASSUME TypeOK, \A i \in Items : changed[i] <= clock, CursorCovers,
                      NothingSkipped, CaughtUp, NEW i \in Items
               PROVE  InStep(i)
    OBVIOUS
  <2>1. ledger.cursor # NoCursor /\ changed[i] <= ledger.cursor
    BY SyncAssumption DEF TypeOK, CaughtUp, NoCursor
  <2>2. Claimed(i) = origin[i] \/ (ledger.entries[i].status = "none" /\ origin[i] = Absent)
    BY <2>1 DEF CursorCovers, CaughtUp
  <2>3. QED BY <2>2 DEF NothingSkipped, InStep
<1>2. QED BY <1>1, ChangesDated, CursorCoversChanges, NoChangeIsSkipped, PTL
-----------------------------------------------------------------------------
(* The workflow implements SourceMirror.                                     *)

seen == [i \in Items |-> history[i] \cup {Absent}]
copy == [i \in Items |-> Copy(i)]
claimed == [i \in Items |-> Claimed(i)]

LEMMA RefinesInit == Init => Mirror!Init
<1> SUFFICES ASSUME Init PROVE Mirror!Init
  OBVIOUS
<1>1. \A i \in Items : Gone(i) /\ Claimed(i) = Unclaimed
  BY DEF Init, Gone, Claimed, EmptyLedger, NoEntry
<1>2. \A i \in Items : Copy(i) = Absent
  BY <1>1, CopyIs DEF Copies, CopyFacts
<1>3. QED BY <1>1, <1>2 DEF Init, Mirror!Init

LEMMA RefinesNext ==
  ASSUME ~ Revisits
  PROVE  IInv /\ IInv' /\ [Next]_vars => [Mirror!Next]_(Mirror!vars)
<1> SUFFICES ASSUME IInv, IInv', [Next]_vars
             PROVE  Mirror!Next \/ UNCHANGED <<origin, seen, copy, claimed, hidden>>
  BY DEF seen, copy, claimed, Mirror!vars
<1>1. TypeOK
  BY DEF IInv, RunInv, CInv
<1>2. ASSUME \A i \in Items, s \in Stores : index'[s][i] = index[s][i]
      PROVE  UNCHANGED copy
  BY <1>2, SameCopy DEF copy
<1>3. ledger' = ledger => UNCHANGED claimed
  BY DEF claimed, Claimed
<1>4. UNCHANGED source => UNCHANGED <<origin, seen>>
  BY DEF source, seen
<1>5. ASSUME NEW i \in Items, Edit(i) \/ Remove(i), Changed(i)
      PROVE  Mirror!Next
  <2>1. NewContent(i)
    BY <1>1, <1>5, NewContentIs
  <2>2. UNCHANGED <<copy, claimed, hidden>>
    BY <1>2, <1>3, <1>5 DEF Changed
  <2>3. PICK c \in Contents \cup {Absent} :
          /\ c = Absent \/ c \notin history[i] \cup {Absent}
          /\ origin' = [origin EXCEPT ![i] = c]
          /\ history'[i] \cup {Absent} = history[i] \cup {Absent} \cup {c}
    <3>1. clock + 1 \notin history[i] /\ clock + 1 # Absent
      BY <1>1 DEF IInv, Dated, TypeOK, Absent
    <3>2. QED BY <1>5, <2>1, <3>1 DEF Changed, NewContent
  <2>4. seen' = [seen EXCEPT ![i] = seen[i] \cup {c}]
    BY <2>1, <2>3 DEF seen, NewContent
  <2>5. seen[i] = history[i] \cup {Absent}
    BY DEF seen
  <2>6. Mirror!Change(i)
    BY <2>2, <2>3, <2>4, <2>5 DEF Mirror!Change, seen, copy, claimed
  <2>7. QED BY <2>6 DEF Mirror!Next
<1>6. CASE Synced
  <2>1. UNCHANGED <<origin, seen, copy, claimed>>
    BY <1>2, <1>3, <1>4, <1>6 DEF Synced
  <2>2. hidden' \subseteq Items
    BY <1>6, SyncAssumption DEF Synced
  <2>3. ASSUME NEW i \in (hidden' \ hidden) \cup (hidden \ hidden')
        PROVE  claimed[i] # origin[i]
    <3>1. i \in Items /\ i \in deletes'
      BY <1>1, <1>6, <2>2, SyncAssumption DEF Synced, TypeOK
    <3>2. Claimed(i) # Absent /\ origin[i] = Absent
      BY <1>6, <3>1, DeletedAreUnclaimed DEF IInv, RunInv, Synced, SyncedItem
    <3>3. QED BY <3>1, <3>2 DEF claimed
  <2>4. copy \in [Items -> Contents \cup {Absent, Partial}]
    <3>1. \A i \in Items : Copy(i) \in Contents \cup {Absent, Partial}
      BY CopyIs DEF Copies, CopyFacts
    <3>2. QED BY <3>1 DEF copy
  <2>5. Mirror!Work
    BY <2>1, <2>2, <2>3, <2>4 DEF Mirror!Work, seen, copy, claimed
  <2>6. QED BY <2>5 DEF Mirror!Next
<1>12. CASE ConnectorFailed
  <2>1. UNCHANGED <<source, ledger, index, hidden>>
    BY <1>12 DEF ConnectorFailed
  <2>2. QED BY <1>2, <1>3, <1>4, <2>1
<1>7. CASE Work
  <2>1. Worked
    BY <1>7, WorkIs DEF IInv, RunInv
  <2>2. /\ UNCHANGED <<origin, seen, claimed, hidden>> /\ pc # "idle" /\ history' = history
        /\ hidden \subseteq Items
    BY <1>1, <1>3, <1>4, <2>1, SyncAssumption DEF Worked, source, TypeOK
  <2>3. ASSUME NEW i \in Items
        PROVE  /\ Copy(i)' \in Contents \cup {Absent, Partial}
               /\ Copy(i)' \in history[i] \cup {Absent, Partial}
    <3>1. Copies'
      BY CopyIs, PTL
    <3>2. \A s \in Stores : index'[s][i] \subseteq history[i]
      BY <2>2 DEF IInv, IndexDated
    <3>3. \A c : Complete(i, c)' => c \in history[i]
      BY <3>2 DEF Complete, Stores
    <3>4. QED BY <3>1, <3>3 DEF Copies, CopyFacts
  <2>4. ASSUME NEW i \in Items, Copy(i)' # Copy(i)
        PROVE  Claimed(i) # origin[i]
    <3>1. i \in records \cup deletes
      BY <2>1, <2>4, SameCopy DEF Worked
    <3>2. QED BY <2>2, <3>1 DEF IInv, OutOfDate
  <2>5. copy' \in [Items -> Contents \cup {Absent, Partial}]
    BY <2>3 DEF copy
  <2>6. \A i \in Items : copy'[i] # copy[i] =>
          claimed[i] # origin[i] /\ copy'[i] \in seen[i] \cup {Partial}
    BY <2>3, <2>4 DEF copy, claimed, seen
  <2>7. Mirror!Work
    BY <2>2, <2>5, <2>6 DEF Mirror!Work, seen, copy, claimed
  <2>8. QED BY <2>7 DEF Mirror!Next
<1>8. CASE Ended
  <2>1. UNCHANGED <<origin, seen, copy, hidden>>
    BY <1>2, <1>4, <1>8 DEF Ended, local
  <2>2. CASE ledger' = ledger
    BY <1>3, <2>1, <2>2
  <2>3. CASE ledger' = next /\ pc = "saving" /\ ShouldSaveLedger
    <3>1. ASSUME NEW i \in Items
          PROVE  \/ Claimed(i)' \in {Claimed(i), Copy(i), Unclaimed}
                 \/ Claimed(i)' = Absent /\ i \in hidden
      <4>1. ClaimsChange
        BY <1>8, EndedKeepsRun DEF IInv, RunInv
      <4>2. Removed(i) /\ i \notin hidden => Copy(i) = Absent
        BY CopyIs DEF Copies, CopyFacts, Removed, RemovedFrom, Gone
      <4>3. QED BY <4>1, <4>2 DEF ClaimsChange
    <3>2. \A i \in Items : Claimed(i)' \in Contents \cup {Absent, Unclaimed}
      <4>1. \A i \in Items : ledger'.entries[i] \in Entries
        BY DEF IInv, RunInv, CInv, TypeOK, Ledgers
      <4>2. QED BY <4>1 DEF Claimed, Entries
    <3>3. /\ claimed' \in [Items -> Contents \cup {Absent, Unclaimed}]
          /\ \A i \in Items : \/ claimed'[i] \in {claimed[i], copy[i], Unclaimed}
                              \/ claimed'[i] = Absent /\ i \in hidden
      BY <3>1, <3>2 DEF claimed, copy
    <3>4. Mirror!Claim
      BY <2>1, <3>3 DEF Mirror!Claim, seen, copy, claimed
    <3>5. QED BY <3>4 DEF Mirror!Next
  <2>4. QED BY <1>8, <2>2, <2>3 DEF Ended
<1>9. CASE UNCHANGED vars
  <2>1. UNCHANGED <<source, ledger, index, hidden>>
    BY <1>9 DEF vars, local
  <2>2. QED BY <1>2, <1>3, <1>4, <2>1
<1>10. CASE Next
  BY <1>1, <1>5, <1>6, <1>7, <1>8, <1>10, <1>12, Steps
<1>11. QED BY <1>9, <1>10

(* Where items do not return to an earlier content, the workflow implements  *)
(* the mirror: a copy whose claim is up to date is left alone, and nothing   *)
(* is claimed but what is in every store, or gone as far as the sync could   *)
(* see.                                                                      *)
THEOREM ImplementsTheMirror ==
  ASSUME ~ Revisits
  PROVE  Spec => ImplementsMirror
<1>1. IInv /\ IInv' /\ [Next]_vars => [Mirror!Next]_(Mirror!vars)
  BY RefinesNext
<1>2. QED
  BY Invariance, RefinesInit, <1>1, PTL DEF Spec, ImplementsMirror, Mirror!Spec
-----------------------------------------------------------------------------
(* The steps that a run has left.                                            *)
ToDelete ==
  IF deletes = {} THEN 0 ELSE Cardinality(deletes) * Len(DeleteOrder) + 1 - step
ToIngest == 2 * Cardinality(pending) + Cardinality(writing)
ToFill == Len(Derived) + 1 - stage
RunSteps == IF pc = "idle" THEN 0 ELSE ToDelete + ToIngest + ToFill + 1
MostSteps == Cardinality(Items) * Len(DeleteOrder) + 3 * Cardinality(Items) + Len(Derived) + 2

LEMMA Counted ==
  ASSUME NEW S \in SUBSET Items
  PROVE  /\ IsFiniteSet(S) /\ Cardinality(S) \in Nat /\ Cardinality(S) <= Cardinality(Items)
         /\ \A i \in S : Cardinality(S \ {i}) = Cardinality(S) - 1 /\ Cardinality(S) >= 1
         /\ S = {} <=> Cardinality(S) = 0
<1>1. IsFiniteSet(S) /\ Cardinality(S) <= Cardinality(Items)
  BY FS_Subset, SyncAssumption
<1>2. Cardinality(S) \in Nat /\ (S = {} <=> Cardinality(S) = 0)
  BY <1>1, FS_CardinalityType, FS_EmptySet
<1>3. \A i \in S : Cardinality(S \ {i}) = Cardinality(S) - 1
  BY <1>1, FS_RemoveElement
<1>4. QED BY <1>1, <1>2, <1>3

LEMMA OneDeleteLess ==
  ASSUME NEW n \in Nat, NEW m \in Nat, NEW k \in Nat, m <= n
  PROVE  /\ m * k \in Nat /\ m * k <= n * k /\ n * k \in Nat
         /\ m >= 1 => (m - 1) * k = m * k - k /\ m * k >= k
<1>1. m * k \in Nat /\ n * k \in Nat /\ (n - m) * k \in Nat /\ n * k = m * k + (n - m) * k
  OBVIOUS
<1>2. m >= 1 => (m - 1) * k \in Nat /\ (m - 1) * k = m * k - k
  OBVIOUS
<1>3. QED BY <1>1, <1>2

LEMMA DeletesCounted ==
  ASSUME CInv
  PROVE  /\ ToDelete \in 0 .. Cardinality(Items) * Len(DeleteOrder)
         /\ Cardinality(Items) * Len(DeleteOrder) \in Nat
         /\ deletes # {} => ToDelete >= 1
<1> DEFINE n == Cardinality(Items)
           m == Cardinality(deletes)
           k == Len(DeleteOrder)
<1>1. m \in Nat /\ m <= n /\ n \in Nat /\ (deletes # {} => m >= 1)
  <2>1. deletes \in SUBSET Items
    BY DEF CInv, TypeOK
  <2>2. QED BY <2>1, Counted
<1>2. step \in 1 .. k /\ k \in Nat
  BY DeleteOrderIs DEF CInv, TypeOK
<1>3. m * k \in Nat /\ m * k <= n * k /\ n * k \in Nat /\ (m >= 1 => m * k >= k)
  BY <1>1, <1>2, OneDeleteLess
<1>4. ToDelete = IF deletes = {} THEN 0 ELSE m * k + 1 - step
  BY DEF ToDelete
<1> DEFINE a == m * k
           b == n * k
<1> HIDE DEF a, b, m, n, k
<1>5. a \in Nat /\ b \in Nat /\ a <= b /\ (m >= 1 => a >= k)
  BY <1>3 DEF a, b
<1>6. ToDelete = IF deletes = {} THEN 0 ELSE a + 1 - step
  BY <1>4 DEF a
<1>7. ToDelete \in 0 .. b /\ (deletes # {} => ToDelete >= 1)
  BY <1>1, <1>2, <1>5, <1>6
<1>8. QED BY <1>5, <1>7 DEF b, n, k

LEMMA StepsCounted ==
  ASSUME CInv
  PROVE  /\ ToDelete \in Nat /\ ToIngest \in Nat /\ ToFill \in Nat
         /\ RunSteps \in 0 .. MostSteps
         /\ pc # "idle" => RunSteps = ToDelete + ToIngest + ToFill + 1
<1> DEFINE n == Cardinality(Items)
           b == Cardinality(Items) * Len(DeleteOrder)
<1>1. ToDelete \in 0 .. b /\ b \in Nat
  BY DeletesCounted
<1>2. /\ Cardinality(pending) \in 0 .. n /\ Cardinality(writing) \in 0 .. n /\ n \in Nat
  BY Counted DEF CInv, TypeOK
<1>3. ToFill \in 0 .. Len(Derived) /\ Len(Derived) \in Nat
  BY DeleteOrderIs DEF CInv, TypeOK, ToFill
<1>4. /\ RunSteps = IF pc = "idle" THEN 0 ELSE ToDelete + ToIngest + ToFill + 1
      /\ MostSteps = b + 3 * n + Len(Derived) + 2
      /\ ToIngest = 2 * Cardinality(pending) + Cardinality(writing)
  BY DEF RunSteps, MostSteps, ToIngest
<1> HIDE DEF n, b
<1>5. ToIngest \in 0 .. 3 * n
  BY <1>2, <1>4
<1>6. ToDelete + ToIngest + ToFill + 1 \in 0 .. b + 3 * n + Len(Derived) + 2
  BY <1>1, <1>2, <1>3, <1>5
<1>7. ToIngest \in Nat /\ ToFill \in Nat /\ ToDelete \in Nat
  BY <1>1, <1>2, <1>3, <1>5
<1>8. RunSteps \in 0 .. MostSteps
  BY <1>1, <1>2, <1>3, <1>4, <1>6
<1>9. QED BY <1>4, <1>7, <1>8

Summed ==
  CInv => /\ ToDelete \in Nat /\ ToIngest \in Nat /\ ToFill \in Nat
          /\ pc # "idle" => RunSteps = ToDelete + ToIngest + ToFill + 1
          /\ pc = "idle" => RunSteps = 0

LEMMA StepsSum == Summed
BY StepsCounted DEF Summed, RunSteps

LEMMA DeletingCounts ==
  ASSUME CInv, CInv', DeleteStep \/ DeleteFails
  PROVE  ToDelete' < ToDelete /\ ToIngest' = ToIngest /\ ToFill' = ToFill
<1>1. pc = "deleting" /\ NextDelete
  BY DEF DeleteStep, DeleteFails
<1>2. ToIngest' = ToIngest /\ ToFill' = ToFill
  BY <1>1 DEF NextDelete, ToIngest, ToFill
<1> DEFINE m == Cardinality(deletes)
           k == Len(DeleteOrder)
<1>3. deletes # {} /\ step \in 1 .. k /\ k \in Nat /\ m \in Nat /\ m >= 1
  BY <1>1, Counted, DeleteOrderIs DEF CInv, Working, TypeOK
<1>4. m * k \in Nat /\ (m - 1) * k = m * k - k /\ m * k >= k
  BY <1>3, OneDeleteLess
<1>5. CASE step' = step + 1 /\ deletes' = deletes
  <2>1. ToDelete = m * k + 1 - step /\ ToDelete' = m * k + 1 - (step + 1)
    BY <1>3, <1>5 DEF ToDelete
  <2> DEFINE a == m * k
  <2> HIDE DEF a
  <2>2. a \in Nat /\ ToDelete = a + 1 - step /\ ToDelete' = a + 1 - (step + 1)
    BY <1>4, <2>1 DEF a
  <2>3. QED BY <1>2, <1>3, <2>2
<1>6. CASE step = k /\ step' = 1 /\ deletes' = deletes \ {FirstOf(deletes)}
  <2>1. Cardinality(deletes') = m - 1
    BY <1>1, <1>6, FirstIsDeleted, Counted DEF CInv, TypeOK
  <2>2. ToDelete = m * k + 1 - k /\ ToDelete' \in {0, (m - 1) * k + 1 - 1}
    BY <1>3, <1>6, <2>1 DEF ToDelete
  <2> DEFINE a == m * k
             c == (m - 1) * k
  <2> HIDE DEF a, c, m, k
  <2>3. a \in Nat /\ c = a - k /\ a >= k /\ ToDelete = a + 1 - k /\ ToDelete' \in {0, c + 1 - 1}
    BY <1>4, <2>2 DEF a, c
  <2>4. QED BY <1>2, <1>3, <2>3
<1>7. QED BY <1>1, <1>5, <1>6, NextDeleteIs

LEMMA IngestingCounts ==
  ASSUME CInv, NEW i \in Items,
         WriteDocument(i) \/ WriteChunks(i) \/ RejectRecord(i) \/ ChunksRejected(i)
  PROVE  ToDelete' = ToDelete /\ ToIngest' < ToIngest /\ ToFill' = ToFill
<1>1. ToDelete' = ToDelete /\ ToFill' = ToFill
  BY DEF WriteDocument, WriteChunks, RejectRecord, ChunksRejected, ToDelete, ToFill
<1> DEFINE p == Cardinality(pending)
           w == Cardinality(writing)
<1>2. p \in Nat /\ w \in Nat
  BY Counted DEF CInv, TypeOK
<1>3. CASE WriteDocument(i)
  <2>1. Cardinality(pending') = p - 1 /\ w = 0 /\ Cardinality(writing') = 1
    BY <1>3, Counted, FS_Singleton, FS_EmptySet DEF WriteDocument, CInv, TypeOK, Working
  <2>2. QED BY <1>1, <1>2, <2>1 DEF ToIngest
<1>4. CASE RejectRecord(i)
  <2>1. Cardinality(pending') = p - 1 /\ writing' = writing
    BY <1>4, Counted DEF RejectRecord, CInv, TypeOK
  <2>2. QED BY <1>1, <1>2, <2>1 DEF ToIngest
<1>5. CASE WriteChunks(i) \/ ChunksRejected(i)
  <2>1. pending' = pending /\ w >= 1 /\ Cardinality(writing') = 0
    BY <1>5, Counted, FS_EmptySet DEF WriteChunks, ChunksRejected, CInv, TypeOK
  <2>2. QED BY <1>1, <1>2, <2>1 DEF ToIngest
<1>6. QED BY <1>3, <1>4, <1>5

LEMMA ThrowingCounts ==
  ASSUME CInv, IngestThrows
  PROVE  ToDelete' = ToDelete /\ ToIngest' < ToIngest /\ ToFill' = ToFill
<1>1. ToDelete' = ToDelete /\ ToFill' = ToFill
  BY DEF IngestThrows, ToDelete, ToFill
<1>2. /\ Cardinality(pending) \in Nat /\ Cardinality(writing) \in Nat
      /\ Cardinality(pending) # 0 \/ Cardinality(writing) # 0
  BY Counted DEF CInv, TypeOK, Working, IngestThrows
<1>3. Cardinality(pending') = 0 /\ Cardinality(writing') = 0
  BY FS_EmptySet DEF IngestThrows
<1>4. QED BY <1>1, <1>2, <1>3 DEF ToIngest

LEMMA FillingCounts ==
  ASSUME CInv, FillStore \/ FillFails
  PROVE  ToDelete' = ToDelete /\ ToIngest' = ToIngest /\ ToFill' < ToFill
<1>1. PICK done \in SUBSET accepted : Fill(done)
  BY DEF FillStore, FillFails
<1>2. ToDelete' = ToDelete /\ ToIngest' = ToIngest /\ stage' = stage + 1
  BY <1>1 DEF Fill, ToDelete, ToIngest
<1>3. stage \in Nat /\ Len(Derived) \in Nat
  BY DeleteOrderIs DEF CInv, TypeOK
<1>4. QED BY <1>2, <1>3 DEF ToFill

(* A run cannot go on for ever: whatever it does, succeeding or failing,     *)
(* leaves it with fewer steps, of which a listing gives it a bounded number; *)
(* it waits for nothing, and what happens at the source adds nothing to it.  *)
RunsShorten ==
  pc # "idle" => RunSteps' < RunSteps \/ UNCHANGED <<ledger, index, pc, local, faults>>

THEOREM RunsEnd == Spec => [](RunSteps <= MostSteps) /\ [][RunsShorten]_vars
<1>1. CInv => RunSteps <= MostSteps
  BY StepsCounted, DeletesCounted
<1>2. CInv /\ CInv' /\ [Next]_vars => [RunsShorten]_vars
  <2> SUFFICES ASSUME CInv, CInv', Next, pc # "idle" PROVE RunsShorten
    BY DEF RunsShorten
  <2>1. /\ ToDelete \in Nat /\ ToIngest \in Nat /\ ToFill \in Nat
        /\ RunSteps = ToDelete + ToIngest + ToFill + 1
    BY StepsCounted
  <2>2. /\ ToDelete' \in Nat /\ ToIngest' \in Nat /\ ToFill' \in Nat
        /\ pc' # "idle" => RunSteps' = ToDelete' + ToIngest' + ToFill' + 1
        /\ pc' = "idle" => RunSteps' = 0
    <3>1. Summed'
      BY StepsSum, PTL
    <3>2. QED BY <3>1 DEF Summed
  <2>3. CASE \E i \in Items : Changed(i)
    BY <2>3 DEF Changed, RunsShorten, local
  <2>4. CASE Ended
    BY <2>1, <2>2, <2>4 DEF Ended, RunsShorten
  <2>5. CASE Work
    <3>1. /\ ToDelete' <= ToDelete /\ ToIngest' <= ToIngest /\ ToFill' <= ToFill
          /\ ToDelete' < ToDelete \/ ToIngest' < ToIngest \/ ToFill' < ToFill
      BY <2>1, <2>2, <2>5, DeletingCounts, IngestingCounts, ThrowingCounts, FillingCounts DEF Work
    <3>2. pc' # "idle"
      BY <2>5, WorkIs DEF Worked
    <3>3. RunSteps' < RunSteps
      <4>1. RunSteps' = ToDelete' + ToIngest' + ToFill' + 1
        BY <2>2, <3>2
      <4>2. \A a, b, c, x, y, z \in Nat :
              a <= x /\ b <= y /\ c <= z /\ (a < x \/ b < y \/ c < z)
              => a + b + c + 1 < x + y + z + 1
        OBVIOUS
      <4>3. QED BY <2>1, <2>2, <3>1, <4>1, <4>2
    <3>4. QED BY <3>3 DEF RunsShorten
  <2>6. QED
    BY <2>3, <2>4, <2>5, Steps DEF CInv, Synced, ConnectorFailed
<1>3. QED BY <1>1, <1>2, CInvariance, PTL DEF Spec

=============================================================================
