------------------------------ MODULE MCEntryText ------------------------------
EXTENDS EntryText

CONSTANTS w1, w2, a, q

(* No text, and the shortest one that is cut.                              *)
MCSources == {<<>>, <<q, a, q>>}

MCSymmetry == Permutations(Writers)
=============================================================================
