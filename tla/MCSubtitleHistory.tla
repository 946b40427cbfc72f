-------------------------- MODULE MCSubtitleHistory --------------------------
(***************************************************************************)
(* Small instances of SubtitleHistory for TLC: lines and texts are model   *)
(* values, interchangeable with one another.                               *)
(***************************************************************************)
EXTENDS SubtitleHistory, TLC

Symmetry == Permutations(Line) \cup Permutations(Text)
=============================================================================
