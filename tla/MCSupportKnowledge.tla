------------------------- MODULE MCSupportKnowledge -------------------------
(* Two payloads under one key, which propose two different candidates, and a *)
(* second key for the first candidate.                                       *)
EXTENDS SupportKnowledge

CONSTANTS e1, e2, e3, k1, k2, c1, c2

EventKeys == [e \in Events |-> IF e = e3 THEN k2 ELSE k1]
EventTargets == [e \in Events |-> IF e = e2 THEN c2 ELSE c1]
=============================================================================
