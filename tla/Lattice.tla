------------------------------ MODULE Lattice ------------------------------
(****************************************************************************)
(* The inheritance lattice of the registered classes, as the members of     *)
(* generic_compiler::class_ present it: transitive_bases, direct_bases and  *)
(* transitive_derived.  Classes are named by their position in the deque    *)
(* `classes', so the loops of the compiler that walk the deque walk Class   *)
(* in increasing order.                                                     *)
(****************************************************************************)
EXTENDS Integers

CONSTANT NumClasses

ASSUME NumClassesAssumption == NumClasses \in Nat

Class == 1 .. NumClasses

(****************************************************************************)
(* The relation C++ inheritance is: a strict order in which every non-empty *)
(* set of classes has a most basic and a most derived member.  bases[c]     *)
(* holds the proper bases of c, direct and indirect.                        *)
(****************************************************************************)
IsInheritance(bases) ==
    /\ \A c \in Class : c \notin bases[c]
    /\ \A c \in Class : \A b \in bases[c] : bases[b] \subseteq bases[c]
    /\ \A S \in SUBSET Class : S # {} =>
          /\ \E m \in S : bases[m] \cap S = {}
          /\ \E m \in S : \A d \in S : m \notin bases[d]

Inheritances == { b \in [Class -> SUBSET Class] : IsInheritance(b) }

\* class_::direct_bases: the bases that are not bases of another base.
DirectOf(bases) ==
    [c \in Class |->
        { b \in bases[c] : \A d \in bases[c] : b \notin bases[d] }]

\* class_::transitive_derived: the class itself and all it is a base of.
DerivedOf(bases) ==
    [c \in Class |-> { d \in Class : d = c \/ c \in bases[d] }]
=============================================================================
