------------------------------- MODULE Groups -------------------------------
(****************************************************************************)
(* The group_map of one dimension of a method: the classes that can be      *)
(* passed there, by the set of overriders that accept them.  `derived' maps *)
(* a class to what is derived from it, itself included; `column' holds the  *)
(* classes the overriders, in order of registration, have there.            *)
(****************************************************************************)
EXTENDS Integers, FiniteSets, SequencesExt

\* The overriders that accept class c.
Mask(derived, column, c) == { i \in DOMAIN column : c \in derived[column[i]] }

\* std::map orders the groups as dynamic_bitset orders the masks: by number.
IsBefore(m, n) ==
    \E i \in n \ m : \A j \in m \cup n : j > i => (j \in m <=> j \in n)

\* The masks of the groups of a parameter of class `root', in order: the k-th
\* comes after k - 1 others.
GroupsOf(derived, root, column) ==
    LET masks == { Mask(derived, column, c) : c \in derived[root] }
        Before(m) == { n \in masks : IsBefore(n, m) }
    IN  [k \in 1 .. Cardinality(masks) |->
            CHOOSE m \in masks : Cardinality(Before(m)) = k - 1]

\* Mutant: the first dimension is forgotten.
StrideWithoutFirst(sizes, d) ==
    FoldLeft(LAMBDA x, y : x * y, 1, SubSeq(sizes, 2, d - 1))

\* The product of the sizes of the dimensions before d.
Stride(sizes, d) == FoldLeft(LAMBDA x, y : x * y, 1, SubSeq(sizes, 1, d - 1))

\* The number of the cell of some groups, by their places in the dimensions.
CellNumber(strides, places) ==
    FoldLeftDomain(LAMBDA cell, d : cell + (places[d] - 1) * strides[d], 1, places)
=============================================================================
