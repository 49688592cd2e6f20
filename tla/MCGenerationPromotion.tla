----------------------- MODULE MCGenerationPromotion ------------------------
(* Small scopes for GenerationPromotion. *)
EXTENDS GenerationPromotion, TLC

CONSTANTS e1, e2

OneOrBoth == {{e1}, {e1, e2}}
JustOne == {{e1}}
Symmetry == Permutations(Generations) \cup Permutations(Clients)
=============================================================================
