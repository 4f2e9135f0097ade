--------------------------- MODULE MCAssignSlots ---------------------------
(****************************************************************************)
(* Slot allocation on every inheritance relation over NumClasses classes    *)
(* and every placement of NumParams virtual parameters.                     *)
(****************************************************************************)
EXTENDS AssignSlots
=============================================================================
