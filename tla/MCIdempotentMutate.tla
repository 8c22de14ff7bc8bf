------------------------- MODULE MCIdempotentMutate -------------------------
(* One process.  Two threads contend for the creation of one object's lock  *)
(* and want equal, overlapping, disjoint or conflicting fields.             *)
EXTENDS IdempotentMutate

MCRegistryOf == [c \in Callers |-> CHOOSE r \in Registries : TRUE]
=============================================================================
