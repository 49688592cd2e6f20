---------------------------- MODULE MCSourceSync ----------------------------
(* Two items, embedded on Postgres and extracted into a graph store.          *)
EXTENDS SourceSync

VectorsThenKnowledge == <<"vectors", "knowledge">>
OnPostgres == {"chunks", "vectors"}
=============================================================================
