----------------------------- MODULE MCQueryHooks -----------------------------
(***************************************************************************)
(* QueryHooks for TLC: backends are interchangeable.                       *)
(***************************************************************************)
EXTENDS QueryHooks, TLC

Symmetry == Permutations(Backends)
==============================================================================
