--------------------------- MODULE MCIngestionRun ---------------------------
(* Two processes; text and visual vectors; two sources, of which the second   *)
(* has a document of its own or is empty.                                     *)
EXTENDS IngestionRun, TLC

CONSTANTS p, q
Symmetry == Permutations(Runners)
AllInOne == [d \in Documents |-> 1]
TwoOfThreeInOne == [d \in Documents |-> IF d = 3 THEN 2 ELSE 1]
TextThenVisual == <<"vectors", "visual_vectors">>
=============================================================================
