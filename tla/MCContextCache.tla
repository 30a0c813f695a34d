--------------------------- MODULE MCContextCache ----------------------------
(* A small repository with a few calls at a time. *)
EXTENDS ContextCache, TLC
Symmetry == Permutations(Callers)
=============================================================================
