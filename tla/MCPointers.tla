----------------------------- MODULE MCPointers -----------------------------
(****************************************************************************)
(* Two virtual_ptrs in a program that loads two plugins.                    *)
(*                                                                          *)
(*        1   (virtual base)     4                                          *)
(*       / \                     |                                          *)
(*      2   3                    |                                          *)
(*       \  |  _________________/                                           *)
(*          5                                                               *)
(*                                                                          *)
(* The executable has classes 1 to 4 and overriders for 1 and 2.  Plugin    *)
(* "derived" registers class 5 with its bases, and another overrider for 1, *)
(* which makes calls for it ambiguous, and those that go on from 2 to 1.    *)
(* Plugin "more" has an overrider for 5; alone, it is missing a base.       *)
(****************************************************************************)
EXTENDS VirtualPtr, TLC

Classes == 1 .. 5
Hierarchy == <<{}, {1}, {1}, {}, {1, 2, 3, 4}>>

CONSTANTS main, derived, more, m1, m2, d1, k5

ListsOf == main :> {{1, 2, 3}, {4}} @@ derived :> {{2, 3, 4, 5}} @@ more :> {{5}}
Units == m1 :> main @@ m2 :> main @@ d1 :> derived @@ k5 :> more
Overridden == m1 :> 1 @@ m2 :> 2 @@ d1 :> 1 @@ k5 :> 5

CONSTANTS o2, o5, p, q
Objects == o2 :> 2 @@ o5 :> 5

Make(policy, indirect, checks, pointer) ==
    [policy |-> policy, indirect |-> indirect, checks |-> checks, pointer |-> pointer]

\* Each policy with each kind of v-table pointer, each kind of object pointer.
Registries ==
    { Make("map", FALSE, TRUE, "plain"), Make("map", TRUE, TRUE, "shared"),
      Make("vector", FALSE, TRUE, "shared"), Make("vector", TRUE, FALSE, "plain"),
      Make("hash", FALSE, TRUE, "unique"), Make("hash", TRUE, TRUE, "shared"),
      Make("inplace", FALSE, FALSE, "plain"), Make("inplace", TRUE, TRUE, "shared") }

Embedded == { Make("inplace", TRUE, FALSE, "plain") }

Symmetry == Permutations(Ptr)
=============================================================================
