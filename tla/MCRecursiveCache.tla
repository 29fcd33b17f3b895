-------------------------- MODULE MCRecursiveCache --------------------------
(***************************************************************************)
(* Every dependency graph over Key, self dependencies included, where each *)
(* key may contribute the one element.                                     *)
(***************************************************************************)
EXTENDS RecursiveCache

MCInputs == [own : [Key -> SUBSET Elem], deps : SUBSET (Key \X Key)]
=============================================================================
