---------------------------- MODULE MCFlasherTui ----------------------------
(* Values for model checking FlasherTui: the live image's stick, a disk the  *)
(* image fits on and one that is too small.                                  *)
EXTENDS FlasherTui

CONSTANTS stick, large, small

ThreeDisks == {stick, large, small}
Sticks     == {stick}
Sizes      == [d \in ThreeDisks |-> IF d = small THEN 1 ELSE 2]
=============================================================================
