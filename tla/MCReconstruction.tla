-------------------------- MODULE MCReconstruction --------------------------
(***************************************************************************)
(* Instances of Reconstruction for TLC: the symmetry of fills and accounts.*)
(***************************************************************************)
EXTENDS Reconstruction, TLC

FillSymmetry == Permutations(Fill)
Symmetry == Permutations(Fill) \cup Permutations(Account)
=============================================================================
