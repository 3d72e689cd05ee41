-------------------------- MODULE MCHyprWorkspaced --------------------------
(***************************************************************************)
(* Two monitors whose slots are not in the order of Hyprland's ids.        *)
(***************************************************************************)
EXTENDS HyprWorkspaced

SwappedSlots == [m \in Monitor |-> 1 - m]
=============================================================================
