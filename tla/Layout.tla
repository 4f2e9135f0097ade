------------------------------- MODULE Layout -------------------------------
(****************************************************************************)
(* Registration, augment_classes and assign_slots in sequence, as           *)
(* compiler::compile calls them: the v-table layout a program gets from the *)
(* class_infos it registers.                                                *)
(****************************************************************************)
EXTENDS Lattice, Sequences

CONSTANTS Hierarchies, MaxLists, NumParams

Param == 1 .. NumParams

VARIABLES
    inherits, infos, lists, stage, cursor, left, covered,
    bases, directBases, derived,
    host,
    phase, roots, kind, frames, visiting, pending, nextSlot, marked,
    slots, usedSlots, reservedSlots, firstSlot, vtblSize

Classes == INSTANCE AugmentClasses
Slots == INSTANCE AssignSlots

classVars == <<inherits, infos, lists, stage, cursor, left, covered>>
latticeVars == <<bases, directBases, derived>>
slotVars == <<phase, roots, kind, frames, visiting, pending, nextSlot, marked,
              slots, usedSlots, reservedSlots, firstSlot, vtblSize>>
vars == <<classVars, latticeVars, host, slotVars>>

Init ==
    /\ Classes!Init
    /\ host \in [Param -> Class]
    /\ Slots!Start

AugmentClasses == Classes!Next /\ UNCHANGED <<host, slotVars>>

AssignSlots ==
    /\ stage = "done"
    /\ Slots!Step
    /\ UNCHANGED classVars

Next == AugmentClasses \/ AssignSlots

Spec == Init /\ [][Next]_vars

-----------------------------------------------------------------------------
(* Properties *)

\* "Classes can be registered multiple times, in any order": whatever the
\* order, two virtual parameters that both apply to some class are kept in
\* different entries of its v-table.
EveryOrderWorks == Slots!NoSharedSlot
=============================================================================
