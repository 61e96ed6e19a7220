-------------------------------- MODULE MCScrape --------------------------------
(***************************************************************************)
(* Scrape for TLC: backends are interchangeable.  The properties say       *)
(* nothing once a claim has overwritten another, so a behaviour is left    *)
(* there.                                                                  *)
(***************************************************************************)
EXTENDS Scrape, TLC

Symmetry == Permutations(Backends)
UntilOverwritten == ~overwritten
WhileQuiet       == UntilOverwritten /\ (part = "none" \/ quiet # {})
==============================================================================
