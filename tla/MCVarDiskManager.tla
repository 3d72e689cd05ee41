-------------------------- MODULE MCVarDiskManager --------------------------
(***************************************************************************)
(* Finite instances of VarDiskManager for TLC.                              *)
(***************************************************************************)
EXTENDS VarDiskManager, TLC

CONSTANTS d1, d2, d3, strong, weak

TwoDisks   == {d1, d2}
ThreeDisks == {d1, d2, d3}
NoDisks    == {}
SmallDisk  == {d2}
Passes     == {strong, weak}
WeakPasses == {weak}

DiskSymmetry == Permutations(ThreeDisks)
=============================================================================
