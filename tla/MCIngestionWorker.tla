-------------------------- MODULE MCIngestionWorker -------------------------
(* Two workers and two jobs over common sources: either both over one source, *)
(* or over two sources listed in opposite orders.                             *)
EXTENDS IngestionWorker, TLC

CONSTANTS s1, s2, w1, w2

SamePriority == [q \in QueueIds |-> 0]
OneSource == [q \in QueueIds |-> <<s1>>]
OppositeOrders == (1 :> <<s1, s2>>) @@ (2 :> <<s2, s1>>)
NoFilter == [w \in Workers |-> QueueIds]
Symmetry == Permutations(Workers)
=============================================================================
