----------------------------- MODULE MCSlotTable -----------------------------
(***************************************************************************)
(* SlotTable for TLC: backends are interchangeable.                        *)
(***************************************************************************)
EXTENDS SlotTable, TLC

Symmetry == Permutations(Backends)
==============================================================================
