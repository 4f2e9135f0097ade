-------------------------- MODULE MCAugmentClasses --------------------------
(****************************************************************************)
(* Registration of every hierarchy of NumClasses classes through up to      *)
(* MaxLists lists, in every order within and across the lists.              *)
(****************************************************************************)
EXTENDS AugmentClasses

AllHierarchies == Inheritances
=============================================================================
