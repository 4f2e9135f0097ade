---------------------------- MODULE AssignSlots ----------------------------
(****************************************************************************)
(* registry::compiler::assign_slots: gives every virtual parameter of every *)
(* method a slot in the v-tables of the classes that can be passed to it.   *)
(*                                                                          *)
(* A hierarchy without multiple inheritance is numbered along its paths by  *)
(* assign_tree_slots; any other one by assign_lattice_slots, a depth-first  *)
(* walk that takes the first slot neither used nor reserved in the class.   *)
(* The recursion is made explicit: `frames' is the stack of the loops over  *)
(* direct_derived that are under way, `visiting' the class whose used_by_vp *)
(* list is being worked off.                                                *)
(****************************************************************************)
EXTENDS Lattice, FiniteSets, Sequences

CONSTANT NumParams

ASSUME NumParamsAssumption == NumParams \in Nat

\* The virtual parameters of all the methods, in the order augment_methods
\* appends them to class_::used_by_vp.
Param == 1 .. NumParams

VARIABLES
    bases,          \* class_::transitive_bases, as a set
    directBases,    \* class_::direct_bases, as a set
    derived,        \* class_::transitive_derived
    host,           \* method::vp: the class of each virtual parameter
    phase,          \* "walk", then "done"
    roots,          \* classes the loop over the deque has not come to
    kind,           \* which of the two recursive functions is running
    frames,         \* stack of loops over direct_derived, innermost first
    visiting,       \* the class at work, NoClass between two classes
    pending,        \* what is left of its used_by_vp
    nextSlot,       \* assign_tree_slots' local next_slot
    marked,         \* classes whose mark is class_mark
    slots,          \* method::slots
    usedSlots, reservedSlots,   \* the two bitsets of class_
    firstSlot, vtblSize         \* class_::first_slot, class_::vtbl.size()

lattice == <<bases, directBases, derived, host>>
walk == <<phase, roots, kind, frames, visiting, pending, nextSlot, marked>>
tables == <<slots, usedSlots, reservedSlots, firstSlot, vtblSize>>
vars == <<lattice, walk, tables>>

NoClass == 0
NotAssigned == -1

LargestOf(S) == CHOOSE x \in S : \A y \in S : y <= x

\* Mutant: off by one.
BeforeSmallestOf(S) == (CHOOSE x \in S : \A y \in S : x <= y) - 1

SmallestOf(S) == CHOOSE x \in S : \A y \in S : x <= y

Assigned(p) == slots[p] # NotAssigned
UsedByVp(c) == { p \in Param : host[p] = c }

\* Mutant: a class with several bases is left to none of them.
SingleDerived(c) == { d \in Class : directBases[d] = {c} }

DirectDerived(c) == { d \in Class : c \in directBases[d] }

\* The class has a descendant with several direct bases, or is one.
InMultipleInheritance(c) ==
    \E d \in derived[c] : \E a, b \in directBases[d] : a # b

-----------------------------------------------------------------------------
(****************************************************************************)
(* The state assign_slots starts from, for a lattice given by lattice's     *)
(* four variables.                                                          *)
(****************************************************************************)
Start ==
    /\ phase = "walk"
    /\ roots = Class
    /\ kind = "tree"
    /\ frames = <<>>
    /\ visiting = NoClass
    /\ pending = {}
    /\ nextSlot = 0
    /\ marked = {}
    /\ slots = [p \in Param |-> NotAssigned]
    /\ usedSlots = [c \in Class |-> {}]
    /\ reservedSlots = [c \in Class |-> {}]
    /\ firstSlot = [c \in Class |-> 0]
    /\ vtblSize = [c \in Class |-> 0]

Init ==
    /\ bases \in Inheritances
    /\ directBases = DirectOf(bases)
    /\ derived = DerivedOf(bases)
    /\ host \in [Param -> Class]
    /\ Start

(****************************************************************************)
(* One turn of the loop over the deque: a class without bases is the root   *)
(* of a tree, or of a part of the lattice.                                  *)
(****************************************************************************)
NextClass ==
    /\ phase = "walk" /\ frames = <<>> /\ visiting = NoClass
    /\ \E c \in roots :
          /\ \A d \in roots : c <= d
          /\ roots' = roots \ {c}
          /\ IF directBases[c] = {}
             THEN /\ kind' = IF InMultipleInheritance(c)
                             THEN "lattice" ELSE "tree"
                  /\ frames' = << [classes |-> {c}, base |-> 0] >>
             ELSE UNCHANGED <<kind, frames>>
    /\ UNCHANGED <<lattice, phase, visiting, pending, nextSlot, marked, tables>>

\* The innermost loop over direct_derived makes its next call, for class c.
Call(c) ==
    /\ phase = "walk" /\ visiting = NoClass /\ frames # <<>>
    /\ c \in Head(frames).classes
    /\ \A d \in Head(frames).classes : c <= d
    /\ frames' = << [Head(frames) EXCEPT !.classes = @ \ {c}] >> \o Tail(frames)

\* assign_tree_slots(cls, base_slot) is entered.
EnterTreeClass ==
    /\ kind = "tree"
    /\ \E c \in Class :
          /\ Call(c)
          /\ visiting' = c
          /\ pending' = UsedByVp(c)
          /\ nextSlot' = Head(frames).base
    /\ UNCHANGED <<lattice, phase, roots, kind, marked, tables>>

\* assign_lattice_slots(cls) is entered: it returns at once from a class that
\* was visited through another base.
EnterLatticeClass ==
    /\ kind = "lattice"
    /\ \E c \in Class :
          /\ Call(c)
          /\ IF c \in marked
             THEN UNCHANGED <<visiting, pending, marked>>
             ELSE /\ visiting' = c
                  /\ pending' = UsedByVp(c)
                  /\ marked' = marked \cup {c}
    /\ UNCHANGED <<lattice, phase, roots, kind, nextSlot, tables>>

\* One turn of assign_tree_slots' loop over used_by_vp.
AllocateInTree ==
    /\ kind = "tree" /\ visiting # NoClass
    /\ \E p \in pending :
          /\ \A q \in pending : p <= q
          /\ slots' = [slots EXCEPT ![p] = nextSlot]
          /\ nextSlot' = nextSlot + 1
          /\ pending' = pending \ {p}
    /\ UNCHANGED <<lattice, phase, roots, kind, frames, visiting, marked,
                   usedSlots, reservedSlots, firstSlot, vtblSize>>

\* Mutant: the reserved slots are forgotten.
IsFirstUnused(s, cls) ==
    s \notin usedSlots[cls] /\ \A t \in 0 .. (s - 1) : t \in usedSlots[cls]

\* The scan for the first bit that is clear in both masks of cls.
IsFirstAvailable(s, cls) ==
    LET unavailable == usedSlots[cls] \cup reservedSlots[cls]
    IN  s \notin unavailable /\ \A t \in 0 .. (s - 1) : t \in unavailable

\* Mutant: the bases of the derived classes are forgotten.
OwnBases(cls) == bases[cls]

\* The classes other than cls that must not give slot s to another parameter:
\* the bases of cls, and the bases of whatever derives from it.
Surroundings(cls) ==
    bases[cls] \cup UNION { bases[d] : d \in derived[cls] \ {cls} }

(****************************************************************************)
(* One turn of assign_lattice_slots' loop over used_by_vp.  The slot is     *)
(* recorded in the class, the whole used mask of the class is then merged   *)
(* into the used masks of the derived classes and into the reserved masks   *)
(* of the surroundings.  The scan cannot go past NumParams: at most that    *)
(* many slots are in use (AllAllocated would fail if it did).               *)
(****************************************************************************)
AllocateInLattice ==
    /\ kind = "lattice" /\ visiting # NoClass
    /\ \E p \in pending, s \in 0 .. NumParams :
          /\ \A q \in pending : p <= q
          /\ IsFirstAvailable(s, visiting)
          /\ slots' = [slots EXCEPT ![p] = s]
          /\ pending' = pending \ {p}
          /\ LET inUse == usedSlots[visiting] \cup {s}
             IN  /\ usedSlots' = [c \in Class |->
                        IF c \in derived[visiting] \cup {visiting}
                        THEN usedSlots[c] \cup inUse ELSE usedSlots[c]]
                 /\ reservedSlots' = [c \in Class |->
                        IF c \in Surroundings(visiting)
                        THEN reservedSlots[c] \cup inUse
                        ELSE IF c = visiting THEN reservedSlots[c] \cup {s}
                        ELSE reservedSlots[c]]
    /\ UNCHANGED <<lattice, phase, roots, kind, frames, visiting, nextSlot,
                   marked, firstSlot, vtblSize>>

\* All the parameters of the class have a slot: loop over its direct_derived.
LeaveClass ==
    /\ visiting # NoClass /\ pending = {}
    /\ frames' = << [classes |-> DirectDerived(visiting), base |-> nextSlot] >>
                 \o frames
    /\ visiting' = NoClass
    /\ vtblSize' = IF kind = "tree"
                   THEN [vtblSize EXCEPT ![visiting] = nextSlot] ELSE vtblSize
    /\ UNCHANGED <<lattice, phase, roots, kind, pending, nextSlot, marked,
                   slots, usedSlots, reservedSlots, firstSlot>>

\* A loop over direct_derived is over.
Return ==
    /\ visiting = NoClass /\ frames # <<>> /\ Head(frames).classes = {}
    /\ frames' = Tail(frames)
    /\ UNCHANGED <<lattice, phase, roots, kind, visiting, pending, nextSlot,
                   marked, tables>>

\* Mutants: off by one; not trimmed at the start.
ShortSize(mask) == LargestOf(mask) - SmallestOf(mask)
LongSize(mask) == LargestOf(mask) + 1

\* The words of a v-table from the first to the last slot in use.
TrimmedSize(mask) == LargestOf(mask) + 1 - SmallestOf(mask)

\* "Allocating MI v-tables": trim the v-tables at both ends.
AllocateVtables ==
    /\ phase = "walk" /\ roots = {} /\ frames = <<>> /\ visiting = NoClass
    /\ phase' = "done"
    /\ firstSlot' = [c \in Class |->
           IF usedSlots[c] = {} THEN firstSlot[c] ELSE SmallestOf(usedSlots[c])]
    /\ vtblSize' = [c \in Class |->
           IF usedSlots[c] = {} THEN vtblSize[c]
           ELSE TrimmedSize(usedSlots[c])]
    /\ UNCHANGED <<lattice, roots, kind, frames, visiting, pending, nextSlot,
                   marked, slots, usedSlots, reservedSlots>>

Finished == phase = "done" /\ UNCHANGED vars

Step ==
    \/ NextClass
    \/ EnterTreeClass
    \/ EnterLatticeClass
    \/ AllocateInTree
    \/ AllocateInLattice
    \/ LeaveClass
    \/ Return
    \/ AllocateVtables

Next == Step \/ Finished

\* assign_slots is one sequential call: nothing but its own end stops it.
Spec == Init /\ [][Next]_vars /\ WF_vars(Step)

-----------------------------------------------------------------------------
(* Properties *)

\* Each variable has the type its C++ counterpart has.
TypeOK ==
    /\ bases \in [Class -> SUBSET Class]
    /\ directBases \in [Class -> SUBSET Class]
    /\ derived \in [Class -> SUBSET Class]
    /\ host \in [Param -> Class]
    /\ phase \in {"walk", "done"}
    /\ roots \in SUBSET Class
    /\ kind \in {"tree", "lattice"}
    /\ frames \in Seq([classes : SUBSET Class, base : Nat])
    /\ visiting \in Class \cup {NoClass}
    /\ pending \in SUBSET Param
    /\ nextSlot \in Nat
    /\ marked \in SUBSET Class
    /\ slots \in [Param -> Nat \cup {NotAssigned}]
    /\ usedSlots \in [Class -> SUBSET Nat]
    /\ reservedSlots \in [Class -> SUBSET Nat]
    /\ firstSlot \in [Class -> Nat]
    /\ vtblSize \in [Class -> Nat]

\* Two parameters that some class needs an entry for never share a slot, even
\* when one was reached through a base visited long after the other: a shared
\* slot would make build_dispatch_tables overwrite one method's v-table entry
\* with another's.
NoSharedSlot ==
    \A p, q \in Param :
        /\ p # q /\ Assigned(p) /\ Assigned(q)
        /\ derived[host[p]] \cap derived[host[q]] # {}
        => slots[p] # slots[q]

\* In the end every class that can be passed for a parameter has the
\* parameter's slot inside its trimmed v-table, so that the index
\* `m.slots[dim] - cls->first_slot' neither underflows nor overruns vtbl.
SlotsInsideVtables ==
    phase = "done" =>
        \A p \in Param : \A c \in derived[host[p]] :
            firstSlot[c] <= slots[p] /\ slots[p] < firstSlot[c] + vtblSize[c]

\* The trimming is tight: the v-table of a class starts and ends at a slot some
\* parameter of the class or of one of its bases uses, so a class no method
\* applies to costs nothing.
VtablesAreTight ==
    phase = "done" =>
        \A c \in Class :
            LET mine == { slots[p] : p \in { q \in Param : c \in derived[host[q]] } }
            IN  IF mine = {} THEN vtblSize[c] = 0
                ELSE {firstSlot[c], firstSlot[c] + vtblSize[c] - 1} \subseteq mine

\* The walk reaches every class and ends with a slot for every parameter: no
\* root, no branch and no class behind an already marked one is skipped.
AllAllocated ==
    <>(phase = "done" /\ \A p \in Param : Assigned(p))

Allocation == INSTANCE SlotAllocation

\* The walk implements the abstract allocation: slots are handed out one at a
\* time, without conflict, and are never handed out again or changed.
ImplementsAllocation == Allocation!Spec
=============================================================================
