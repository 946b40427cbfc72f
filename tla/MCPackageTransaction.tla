------------------------- MODULE MCPackageTransaction -------------------------
(***************************************************************************)
(* Small instances of PackageTransaction for TLC: paths, transactions and  *)
(* plugins are model values.                                               *)
(***************************************************************************)
EXTENDS PackageTransaction, TLC

Symmetry == Permutations(Path) \cup Permutations(Tx) \cup Permutations(Plugin)
=============================================================================
