--------------------------- MODULE MCSubsController ---------------------------
(***************************************************************************)
(* Small instances of SubsController for TLC: texts and stamps are model   *)
(* values, interchangeable with one another.                               *)
(***************************************************************************)
EXTENDS SubsController, TLC

Symmetry == Permutations(Text) \cup Permutations(Stamp)
=============================================================================
