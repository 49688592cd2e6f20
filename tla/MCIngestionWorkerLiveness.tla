---------------------- MODULE MCIngestionWorkerLiveness ---------------------
(* Two workers, two jobs that list the same two sources in opposite orders.   *)
EXTENDS IngestionWorkerLiveness, TLC

CONSTANTS s1, s2, w1, w2

SamePriority == [q \in QueueIds |-> 0]
OppositeOrders == (1 :> <<s1, s2>>) @@ (2 :> <<s2, s1>>)
NoFilter == [w \in Workers |-> QueueIds]
=============================================================================
