--------------------------- MODULE MC_EntityPage ---------------------------
(* One visit to an entity that reports two keys. *)
EXTENDS EntityPage
=============================================================================
