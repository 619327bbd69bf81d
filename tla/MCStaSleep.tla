----------------------------- MODULE MCStaSleep -----------------------------
(***************************************************************************)
(* Instances of StaSleep.                                                  *)
(***************************************************************************)
EXTENDS StaSleep, TLC

Symmetry == Permutations(Sta)
=============================================================================
