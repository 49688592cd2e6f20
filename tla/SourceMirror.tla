---------------------------- MODULE SourceMirror ----------------------------
(***************************************************************************)
(* What source synchronisation promises about a copy of a changing source. *)
(* The copy is taken item by item and may be unfinished at any time; what  *)
(* the synchronisation claims to have copied is a separate record, and it  *)
(* is by that record that later runs decide what they may skip.  Of items  *)
(* it was not let see, it may claim that they are gone when they are not.  *)
(***************************************************************************)
CONSTANTS Items, Contents,
          Absent,       \* of the source: no such item; of a copy: nothing is left
          Partial,      \* a copy that is no content's complete copy
          Unclaimed     \* nothing is claimed about the item

VARIABLES origin,       \* what the source holds for each item
          seen,         \* everything it has ever held for the item
          copy,         \* what the copy holds
          claimed,      \* what the synchronisation claims that it holds
          hidden        \* items whose copy it was not let see, to remove it

vars == <<origin, seen, copy, claimed, hidden>>

Init ==
  /\ origin = [i \in Items |-> Absent]
  /\ seen = [i \in Items |-> {Absent}]
  /\ copy = [i \in Items |-> Absent]
  /\ claimed = [i \in Items |-> Unclaimed]
  /\ hidden = {}

(* An item changes, to something it has never been before, or disappears.   *)
Change(i) ==
  /\ \E c \in Contents \cup {Absent} :
       /\ c = Absent \/ c \notin seen[i]
       /\ origin' = [origin EXCEPT ![i] = c]
       /\ seen' = [seen EXCEPT ![i] = @ \cup {c}]
  /\ UNCHANGED <<copy, claimed, hidden>>

(* Work on copies, one or a batch of them.  What a copy takes has been at    *)
(* the source, and an item whose claim is up to date is left alone.          *)
Work ==
  /\ copy' \in [Items -> Contents \cup {Absent, Partial}]
  /\ \A i \in Items :
       copy'[i] # copy[i] => claimed[i] # origin[i] /\ copy'[i] \in seen[i] \cup {Partial}
  /\ hidden' \subseteq Items
  /\ \A i \in (hidden' \ hidden) \cup (hidden \ hidden') : claimed[i] # origin[i]
  /\ UNCHANGED <<origin, seen, claimed>>

(* Claims change together, and to nothing the copy does not hold, unless it  *)
(* is that a hidden item is gone.                                            *)
Claim ==
  /\ claimed' \in [Items -> Contents \cup {Absent, Unclaimed}]
  /\ \A i \in Items :
       \/ claimed'[i] \in {claimed[i], copy[i], Unclaimed}
       \/ claimed'[i] = Absent /\ i \in hidden
  /\ UNCHANGED <<origin, seen, copy, hidden>>

Next == (\E i \in Items : Change(i)) \/ Work \/ Claim

Spec == Init /\ [][Next]_vars
=============================================================================
