---------------------------- MODULE ExclusiveRun ----------------------------
(***************************************************************************)
(* What an ingestion run promises under its run id, however its attempts   *)
(* fail or die: one attempt at a time is at work and nobody else touches   *)
(* the index; an attempt that goes without a word keeps the run taken for  *)
(* good; and a run is said to be completed only when every store has what  *)
(* its last attempt reports, which stays there until the next one starts.  *)
(* Nothing is promised once several attempts at an existing run have come  *)
(* to it together, until an attempt takes it with nobody else at work.     *)
(***************************************************************************)
CONSTANTS
  Runners,
  Documents,
  Primary,      \* the stores a run may not leave incomplete
  Stores,       \* all stores, with those it may leave incomplete with a warning
  Absent        \* no such document

VARIABLES
  state,        \* "open", "taken", "failed", "warned" or "completed"
  atWork,       \* the attempt at work, if there is one
  index,        \* what each store holds of each document
  report,       \* what the last attempt to finish has loaded and written
  contended     \* have several attempts come to the run together?

vars == <<state, atWork, index, report, contended>>

Init == state = "open" /\ atWork = {} /\ contended = FALSE

Take(r) ==
  /\ state # "taken" \/ contended
  /\ atWork = {}
  /\ state' = "taken" /\ atWork' = {r} /\ contended' = FALSE
  /\ UNCHANGED <<index, report>>

Work ==
  /\ atWork # {} /\ ~ contended
  /\ UNCHANGED <<state, atWork, report, contended>>

Has(store, d) == index[store][d] = report'.loaded[d]

Finish ==
  /\ atWork # {} /\ atWork' = {} /\ ~ contended
  /\ \/ /\ state' = "completed"
        /\ \A d \in Documents : report'.loaded[d] # Absent => \A s \in Stores : Has(s, d)
     \/ state' = "warned"
  /\ \A d \in report'.written : \A s \in Primary : Has(s, d)
  /\ UNCHANGED <<index, contended>>

Fail ==
  /\ atWork # {} /\ atWork' = {} /\ ~ contended
  /\ state' = "failed"
  /\ UNCHANGED <<index, report, contended>>

Vanish ==
  /\ atWork # {} /\ atWork' = {} /\ ~ contended
  /\ UNCHANGED <<state, index, report, contended>>

(* Several come to a run that has been left, and is there to be taken again. *)
Collide ==
  /\ state \in {"failed", "warned", "completed"} /\ atWork = {}
  /\ contended' = TRUE
  /\ UNCHANGED <<state, atWork, index, report>>

(* Until it is over they may do anything to it.                              *)
Contend == contended /\ contended'

Next ==
  \/ \E r \in Runners : Take(r)
  \/ Work \/ Finish \/ Fail \/ Vanish \/ Collide \/ Contend

Spec == Init /\ [][Next]_vars
=============================================================================
