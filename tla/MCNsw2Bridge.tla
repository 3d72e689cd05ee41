------------------------- MODULE MCNsw2Bridge -------------------------
(* Values for model checking Nsw2Bridge. *)
EXTENDS Nsw2Bridge

CONSTANT a
OneButton == {a}
=======================================================================
