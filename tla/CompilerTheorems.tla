------------------------- MODULE CompilerTheorems --------------------------
(****************************************************************************)
(* Facts about the data of the compiler: inheritance relations and the      *)
(* hierarchies in which no class has several direct bases; folds over       *)
(* sequences, the groups of a dimension, and the numbers of the cells of a  *)
(* dispatch table.                                                          *)
(****************************************************************************)
EXTENDS Lattice, Groups, FiniteSetTheorems, TLAPS

\* An inheritance relation is a strict order on the classes, in which every set
\* of classes has a most basic and a most derived member.
LEMMA InheritanceFacts ==
    ASSUME NEW B \in Inheritances
    PROVE  /\ B \in [Class -> SUBSET Class]
           /\ \A c \in Class : c \notin B[c]
           /\ \A c \in Class : \A b \in B[c] : b \in Class /\ B[b] \subseteq B[c]
<1>1. B \in [Class -> SUBSET Class] /\ IsInheritance(B)
    BY DEF Inheritances
<1>2. \A c \in Class : c \notin B[c]
    BY <1>1 DEF IsInheritance
<1>3. \A c \in Class : \A b \in B[c] : b \in Class /\ B[b] \subseteq B[c]
    BY <1>1 DEF IsInheritance
<1> QED
    BY <1>1, <1>2, <1>3

LEMMA MostBasicMember ==
    ASSUME NEW B \in Inheritances, NEW S, S \subseteq Class, S # {}
    PROVE  \E m \in S : B[m] \cap S = {}
<1>1. IsInheritance(B) /\ S \in SUBSET Class
    BY DEF Inheritances
<1> QED
    BY <1>1 DEF IsInheritance

LEMMA MostDerivedMember ==
    ASSUME NEW B \in Inheritances, NEW S, S \subseteq Class, S # {}
    PROVE  \E m \in S : \A d \in S : m \notin B[d]
<1>1. IsInheritance(B) /\ S \in SUBSET Class
    BY DEF Inheritances
<1> QED
    BY <1>1 DEF IsInheritance

\* What direct_bases and transitive_derived hold.
LEMMA DirectFacts ==
    ASSUME NEW B \in Inheritances, NEW c \in Class
    PROVE  /\ DirectOf(B)[c] \subseteq B[c]
           /\ \A b \in B[c] : b \notin DirectOf(B)[c] =>
                                  \E d \in B[c] : b \in B[d]
    BY DEF DirectOf

LEMMA DerivedFacts ==
    ASSUME NEW B \in Inheritances, NEW c \in Class
    PROVE  /\ DerivedOf(B)[c] \subseteq Class
           /\ c \in DerivedOf(B)[c]
           /\ \A d \in Class : d \in DerivedOf(B)[c] <=> d = c \/ c \in B[d]
           /\ \A d \in DerivedOf(B)[c] :
                 DerivedOf(B)[d] \subseteq DerivedOf(B)[c]
<1>1. \A x \in Class : DerivedOf(B)[x] = { d \in Class : d = x \/ x \in B[d] }
    BY DEF DerivedOf
<1>2. ASSUME NEW d \in DerivedOf(B)[c], NEW e \in DerivedOf(B)[d]
      PROVE  e \in DerivedOf(B)[c]
    <2>1. d \in Class /\ (d = c \/ c \in B[d])
        BY <1>1
    <2>2. e \in Class /\ (e = d \/ d \in B[e])
        BY <1>1, <2>1
    <2>3. e = c \/ c \in B[e]
        BY <2>1, <2>2, InheritanceFacts
    <2> QED
        BY <1>1, <2>2, <2>3
<1> QED
    BY <1>1, <1>2

\* Every base is a direct one, or the base of a direct one.
LEMMA DirectCover ==
    ASSUME NEW B \in Inheritances, NEW d \in Class, NEW c \in B[d],
           c \notin DirectOf(B)[d]
    PROVE  \E e \in DirectOf(B)[d] : c \in B[e]
<1> DEFINE S == { x \in B[d] : c \in B[x] }
<1>1. S \subseteq Class /\ S # {}
    BY DirectFacts, InheritanceFacts
<1>2. \E m \in S : \A x \in S : m \notin B[x]
    <2> HIDE DEF S
    <2> QED
        BY <1>1, MostDerivedMember
<1>3. PICK m \in S : \A x \in S : m \notin B[x]
    BY <1>2
<1>4. m \in DirectOf(B)[d]
    <2>1. SUFFICES ASSUME m \notin DirectOf(B)[d] PROVE FALSE
        OBVIOUS
    <2>2. PICK y \in B[d] : m \in B[y]
        BY <2>1, DirectFacts
    <2>3. c \in B[y]
        BY <2>2, InheritanceFacts
    <2> QED
        BY <1>3, <2>2, <2>3
<1> QED
    BY <1>4

LEMMA RootHasNoBases ==
    ASSUME NEW B \in Inheritances, NEW r \in Class, DirectOf(B)[r] = {}
    PROVE  B[r] = {}
    BY DirectCover

-----------------------------------------------------------------------------
(* Trees *)

\* The root of a hierarchy in which no class has several direct bases.
TreeRoot(B, r) ==
    /\ DirectOf(B)[r] = {}
    /\ \A d \in DerivedOf(B)[r] : \A a, b \in DirectOf(B)[d] : a = b

InTreeOf(B, c) == \E r \in Class : TreeRoot(B, r) /\ c \in DerivedOf(B)[r]

\* In a tree the bases of a class are a path that stays in the tree.
LEMMA TreePath ==
    ASSUME NEW B \in Inheritances, NEW r \in Class, TreeRoot(B, r),
           NEW x \in DerivedOf(B)[r]
    PROVE  /\ B[x] \subseteq DerivedOf(B)[r]
           /\ \A a, b \in B[x] : a = b \/ a \in B[b] \/ b \in B[a]
<1> DEFINE Path(y) == /\ B[y] \subseteq DerivedOf(B)[r]
                      /\ \A a, b \in B[y] : a = b \/ a \in B[b] \/ b \in B[a]
           S == { y \in DerivedOf(B)[r] : ~ Path(y) }
<1> SUFFICES S = {}
    OBVIOUS
<1>1. SUFFICES ASSUME S # {} PROVE FALSE
    OBVIOUS
<1>2. S \subseteq Class
    BY DerivedFacts
<1>3. PICK y \in S : B[y] \cap S = {}
    <2> HIDE DEF S
    <2> QED
        BY <1>1, <1>2, MostBasicMember
<1>4. y \in Class /\ y \in DerivedOf(B)[r] /\ ~ Path(y)
    BY <1>2, <1>3
<1>5. y # r
    BY <1>4, RootHasNoBases DEF TreeRoot
<1>6. r \in B[y]
    BY <1>4, <1>5, DerivedFacts
<1>7. PICK p \in DirectOf(B)[y] : r = p \/ r \in B[p]
    BY <1>4, <1>6, DirectCover
<1>8. \A a \in DirectOf(B)[y] : a = p
    BY <1>4 DEF TreeRoot
<1>9. p \in Class /\ p \in B[y] /\ B[p] \subseteq B[y]
    BY <1>4, DirectFacts, InheritanceFacts
<1>10. B[y] \subseteq {p} \cup B[p]
    BY <1>4, <1>8, DirectCover
<1>11. p \in DerivedOf(B)[r]
    BY <1>7, <1>9, DerivedFacts
<1>12. Path(p)
    BY <1>3, <1>9, <1>11
<1> HIDE DEF S
<1>13. B[y] \subseteq DerivedOf(B)[r]
    BY <1>10, <1>11, <1>12
<1>14. \A a, b \in B[y] : a = b \/ a \in B[b] \/ b \in B[a]
    BY <1>10, <1>12
<1> QED
    BY <1>4, <1>13, <1>14

\* The bases and the derived classes of a class of a tree are in a tree.
LEMMA TreeIsClosed ==
    ASSUME NEW B \in Inheritances, NEW c \in Class, InTreeOf(B, c)
    PROVE  /\ \A b \in B[c] : InTreeOf(B, b)
           /\ \A d \in DerivedOf(B)[c] : InTreeOf(B, d)
<1>1. PICK r \in Class : TreeRoot(B, r) /\ c \in DerivedOf(B)[r]
    BY DEF InTreeOf
<1>2. B[c] \subseteq DerivedOf(B)[r]
    BY <1>1, TreePath
<1>3. DerivedOf(B)[c] \subseteq DerivedOf(B)[r]
    BY <1>1, DerivedFacts
<1> QED
    BY <1>1, <1>2, <1>3 DEF InTreeOf

\* Two classes of a tree with a common derived class are on one path.
LEMMA TreeMeet ==
    ASSUME NEW B \in Inheritances, NEW x \in Class, NEW y \in Class,
           InTreeOf(B, x), NEW d \in DerivedOf(B)[x], d \in DerivedOf(B)[y]
    PROVE  x = y \/ x \in B[y] \/ y \in B[x]
<1>1. d \in Class /\ InTreeOf(B, d)
    BY TreeIsClosed, DerivedFacts
<1>2. PICK r \in Class : TreeRoot(B, r) /\ d \in DerivedOf(B)[r]
    BY <1>1 DEF InTreeOf
<1>3. \A a, b \in B[d] : a = b \/ a \in B[b] \/ b \in B[a]
    BY <1>2, TreePath
<1>4. (d = x \/ x \in B[d]) /\ (d = y \/ y \in B[d])
    BY <1>1, DerivedFacts
<1> QED
    BY <1>3, <1>4

\* A class of a tree has the bases of its direct base, and that one.
LEMMA TreeParent ==
    ASSUME NEW B \in Inheritances, NEW d \in Class, InTreeOf(B, d),
           NEW c \in DirectOf(B)[d]
    PROVE  c \in Class /\ B[d] = {c} \cup B[c]
<1>1. PICK r \in Class : TreeRoot(B, r) /\ d \in DerivedOf(B)[r]
    BY DEF InTreeOf
<1>2. \A a \in DirectOf(B)[d] : a = c
    BY <1>1 DEF TreeRoot
<1>3. c \in Class /\ c \in B[d] /\ B[c] \subseteq B[d]
    BY DirectFacts, InheritanceFacts
<1>4. \A b \in B[d] : b = c \/ b \in B[c]
    BY <1>2, DirectCover
<1> QED
    BY <1>3, <1>4

\* The subtrees of two classes with the same direct base have no class in
\* common.
LEMMA SiblingsAreApart ==
    ASSUME NEW B \in Inheritances, NEW x \in Class, NEW y \in Class, x # y,
           InTreeOf(B, x), InTreeOf(B, y),
           NEW c \in DirectOf(B)[x], c \in DirectOf(B)[y]
    PROVE  DerivedOf(B)[x] \cap DerivedOf(B)[y] = {}
<1>1. SUFFICES ASSUME NEW d \in DerivedOf(B)[x], d \in DerivedOf(B)[y]
               PROVE  FALSE
    OBVIOUS
<1>2. B[x] = {c} \cup B[c] /\ B[y] = {c} \cup B[c] /\ c \in Class
    BY TreeParent
<1>3. x \in B[y] \/ y \in B[x]
    BY <1>1, TreeMeet
<1>4. \/ x \in {c} \cup B[c] /\ c \in B[x]
      \/ y \in {c} \cup B[c] /\ c \in B[y]
    BY <1>2, <1>3
<1> QED
    BY <1>4, InheritanceFacts

-----------------------------------------------------------------------------
(* Numbers and folds *)

Below == { ss \in Nat \X Nat : ss[1] < ss[2] }

LEMMA BelowIsWellFounded == IsWellFoundedOn(Below, Nat)
BY NatLessThanWellFounded, Zenon DEF OpToRel, Below

\* A set of numbers that has a member has a least one.
LEMMA LeastMember ==
    ASSUME NEW S, S \subseteq Nat, S # {}
    PROVE  \E x \in S : \A y \in S : x <= y
<1>1. PICK x \in S : \A y \in S : ~ (<<y, x>> \in Below)
    BY WFMin, BelowIsWellFounded
<1>2. ASSUME NEW y \in S
      PROVE  x <= y
    <2>1. <<y, x>> \in Nat \X Nat /\ <<y, x>>[1] = y /\ <<y, x>>[2] = x
        OBVIOUS
    <2>2. ~ (y < x)
        BY <1>1, <2>1, Zenon DEF Below
    <2> QED
        BY <2>2
<1> QED
    BY <1>2

\* A set that has 0, and with each number the next one, has them all.
LEMMA Upward ==
    ASSUME NEW n \in Nat, NEW P, 0 \in P,
           \A k \in 0 .. (n - 1) : k \in P => k + 1 \in P
    PROVE  \A k \in 0 .. n : k \in P
<1> DEFINE S == { k \in 0 .. n : k \notin P }
<1> SUFFICES ASSUME S # {} PROVE FALSE
    OBVIOUS
<1>1. PICK x \in S : \A y \in S : x <= y
    <2>1. S \subseteq Nat
        OBVIOUS
    <2> HIDE DEF S
    <2> QED
        BY <2>1, LeastMember
<1>2. x - 1 \in 0 .. (n - 1) /\ x - 1 \notin S /\ (x - 1) + 1 = x
    BY <1>1
<1> QED
    BY <1>1, <1>2

\* The largest of some numbers.
LEMMA MaxOfNumbers ==
    ASSUME NEW n \in Nat, NEW s \in SUBSET (1 .. n), s # {}
    PROVE  Max(s) \in s /\ \A y \in s : y <= Max(s)
<1> DEFINE S == { n - x : x \in s }
<1>1. PICK z \in S : \A y \in S : z <= y
    <2>1. \A x \in s : x \in 1 .. n /\ n - x \in Nat
        OBVIOUS
    <2>2. S \subseteq Nat /\ S # {}
        BY <2>1
    <2> HIDE DEF S
    <2> QED
        BY <2>2, LeastMember
<1>2. PICK x \in s : z = n - x
    BY <1>1
<1>3. ASSUME NEW y \in s PROVE x >= y
    <2>1. z <= n - y
        BY <1>1
    <2>2. x \in 1 .. n /\ y \in 1 .. n
        OBVIOUS
    <2> HIDE DEF S
    <2> QED
        BY <1>2, <2>1, <2>2
<1> QED
    BY <1>3 DEF Max

\* The end of an interval is the largest of a set that has it.
LEMMA MaxOfMore ==
    ASSUME NEW m \in Nat, NEW s \in SUBSET (1 .. (m + 1)), m + 1 \in s
    PROVE  Max(s) = m + 1
<1>1. m + 1 \in Nat
    OBVIOUS
<1>2. Max(s) \in s /\ m + 1 <= Max(s)
    BY <1>1, MaxOfNumbers
<1>3. Max(s) \in 1 .. (m + 1)
    BY <1>2
<1> QED
    BY <1>2, <1>3

\* f folds over sets of positions, the largest one last; h does as long as the
\* values are in V.
IsFoldOf(f, n, base, G) ==
    \A s \in SUBSET (1 .. n) :
        f[s] = IF s = {} THEN base ELSE G[<<Max(s), f[s \ {Max(s)}]>>]

FoldsWithin(h, n, base, G, V) ==
    /\ h[{}] = base
    /\ \A s \in SUBSET (1 .. n) :
          s # {} /\ h[s \ {Max(s)}] \in V => h[s] = G[<<Max(s), h[s \ {Max(s)}]>>]

\* a[k] is what is made of the first k positions.
IsRun(a, n, base, G) ==
    a[0] = base /\ \A k \in 0 .. (n - 1) : a[k + 1] = G[<<k + 1, a[k]>>]

\* What h makes of all the positions is what such a run ends with.
EndsRun(h, n, base, G, V) ==
    \E a \in [0 .. n -> V] : IsRun(a, n, base, G) /\ h[1 .. n] = a[n]

\* There is a function that folds the positions from the largest down.
LEMMA FoldExists ==
    ASSUME NEW n \in Nat, NEW V, NEW base \in V,
           NEW G \in [(1 .. n) \X V -> V]
    PROVE  \E f \in [SUBSET (1 .. n) -> V] : IsFoldOf(f, n, base, G)
<1> DEFINE IsFold(f, m) == \A s \in SUBSET (1 .. m) :
                 f[s] = IF s = {} THEN base ELSE G[<<Max(s), f[s \ {Max(s)}]>>]
           P == { m \in 0 .. n : \E f \in [SUBSET (1 .. m) -> V] : IsFold(f, m) }
<1>1. 0 \in P
    <2> DEFINE f == [s \in SUBSET (1 .. 0) |-> base]
    <2>1. \A s \in SUBSET (1 .. 0) : s = {}
        OBVIOUS
    <2>2. f \in [SUBSET (1 .. 0) -> V] /\ IsFold(f, 0)
        BY <2>1
    <2>3. 0 \in 0 .. n
        OBVIOUS
    <2> HIDE DEF f, IsFold
    <2> QED
        BY <2>2, <2>3
<1>2. ASSUME NEW m \in 0 .. (n - 1), m \in P
      PROVE  m + 1 \in P
    <2>1. PICK f \in [SUBSET (1 .. m) -> V] : IsFold(f, m)
        BY <1>2
    <2> DEFINE g == [s \in SUBSET (1 .. (m + 1)) |->
                        IF m + 1 \in s THEN G[<<m + 1, f[s \ {m + 1}]>>] ELSE f[s]]
    <2>2. ASSUME NEW s \in SUBSET (1 .. (m + 1))
          PROVE  /\ g[s] \in V
                 /\ g[s] = IF s = {} THEN base ELSE G[<<Max(s), g[s \ {Max(s)}]>>]
        <3>1. CASE m + 1 \in s
            <4>1. Max(s) = m + 1
                BY <3>1, MaxOfMore
            <4>2. s \ {m + 1} \in SUBSET (1 .. m) /\ m + 1 \notin s \ {m + 1}
                OBVIOUS
            <4>3. g[s \ {m + 1}] = f[s \ {m + 1}] /\ f[s \ {m + 1}] \in V
                BY <4>2
            <4>4. G[<<m + 1, f[s \ {m + 1}]>>] \in V
                BY <4>3
            <4>5. g[s] = G[<<m + 1, f[s \ {m + 1}]>>]
                BY <3>1
            <4> HIDE DEF g
            <4> QED
                BY <3>1, <4>1, <4>3, <4>4, <4>5
        <3>2. CASE m + 1 \notin s
            <4>1. s \in SUBSET (1 .. m)
                BY <3>2
            <4>2. g[s] = f[s] /\ f[s] \in V
                BY <3>2, <4>1
            <4>3. CASE s = {}
                BY <2>1, <4>1, <4>2, <4>3
            <4>4. CASE s # {}
                <5>1. s \ {Max(s)} \in SUBSET (1 .. m) /\ m + 1 \notin s \ {Max(s)}
                    BY <3>2, <4>1
                <5>2. g[s \ {Max(s)}] = f[s \ {Max(s)}]
                    BY <5>1
                <5>3. f[s] = G[<<Max(s), f[s \ {Max(s)}]>>]
                    BY <2>1, <4>1, <4>4
                <5> HIDE DEF g
                <5> QED
                    BY <4>2, <4>4, <5>2, <5>3
            <4> QED
                BY <4>3, <4>4
        <3> QED
            BY <3>1, <3>2
    <2>3. g \in [SUBSET (1 .. (m + 1)) -> V]
        <3>1. \A s \in SUBSET (1 .. (m + 1)) : g[s] \in V
            BY <2>2
        <3> QED
            BY <3>1
    <2>4. IsFold(g, m + 1)
        BY <2>2
    <2> HIDE DEF g, IsFold
    <2>5. m + 1 \in 0 .. n
        OBVIOUS
    <2> QED
        BY <2>3, <2>4, <2>5
<1>3. n \in P
    <2> HIDE DEF P
    <2> QED
        BY <1>1, <1>2, Upward
<1> QED
    BY <1>3 DEF IsFoldOf

\* What such a function makes of the first k positions, for each k.
LEMMA FoldRuns ==
    ASSUME NEW n \in Nat, NEW V, NEW base \in V, NEW h,
           NEW G \in [(1 .. n) \X V -> V],
           FoldsWithin(h, n, base, G, V)
    PROVE  EndsRun(h, n, base, G, V)
<1> DEFINE P == { k \in 0 .. n : h[1 .. k] \in V }
<1>1. 1 .. 0 = {}
    OBVIOUS
<1>2. ASSUME NEW k \in 0 .. (n - 1), h[1 .. k] \in V
      PROVE  h[1 .. (k + 1)] = G[<<k + 1, h[1 .. k]>>]
    <2>1. /\ 1 .. (k + 1) \in SUBSET (1 .. n) /\ k + 1 \in 1 .. (k + 1)
          /\ (1 .. (k + 1)) \ {k + 1} = 1 .. k /\ k \in Nat
        OBVIOUS
    <2>2. Max(1 .. (k + 1)) = k + 1
        BY <2>1, MaxOfMore
    <2> QED
        BY <1>2, <2>1, <2>2 DEF FoldsWithin
<1>3. \A k \in 0 .. n : k \in P
    <2>1. 0 \in P
        BY <1>1 DEF FoldsWithin
    <2>2. ASSUME NEW k \in 0 .. (n - 1), k \in P
          PROVE  k + 1 \in P
        <3>1. h[1 .. (k + 1)] = G[<<k + 1, h[1 .. k]>>] /\ h[1 .. k] \in V
            BY <1>2, <2>2
        <3>2. G[<<k + 1, h[1 .. k]>>] \in V /\ k + 1 \in 0 .. n
            BY <3>1
        <3> QED
            BY <3>1, <3>2
    <2> HIDE DEF P
    <2> QED
        BY <2>1, <2>2, Upward
<1> DEFINE a == [k \in 0 .. n |-> h[1 .. k]]
<1>4. a \in [0 .. n -> V]
    BY <1>3
<1>5. a[0] = base /\ h[1 .. n] = a[n]
    BY <1>1 DEF FoldsWithin
<1>6. \A k \in 0 .. (n - 1) : a[k + 1] = G[<<k + 1, a[k]>>]
    <2> TAKE k \in 0 .. (n - 1)
    <2>1. h[1 .. k] \in V /\ k \in 0 .. n /\ k + 1 \in 0 .. n
        BY <1>3
    <2> QED
        BY <1>2, <2>1
<1> QED
    BY <1>4, <1>5, <1>6 DEF IsRun, EndsRun

-----------------------------------------------------------------------------
(* Strides *)

\* a[k] is the product of the first k sizes.
IsProducts(a, sizes, n) ==
    /\ a \in [0 .. n -> Nat]
    /\ a[0] = 1
    /\ \A k \in 0 .. (n - 1) : a[k + 1] = a[k] * sizes[k + 1]

\* A fold that multiplies is a run of products.
LEMMA FoldOfProduct ==
    ASSUME NEW n \in Nat, NEW s \in [1 .. n -> Nat]
    PROVE  \E a : IsProducts(a, s, n) /\ FoldLeft(LAMBDA x, y : x * y, 1, s) = a[n]
<1> DEFINE IsFold(f) == f = [S \in SUBSET (DOMAIN s) |->
                IF S = {} THEN 1 ELSE f[S \ {Max(S)}] * s[Max(S)]]
           h == CHOOSE f : IsFold(f)
           G == [p \in (1 .. n) \X Nat |-> p[2] * s[p[1]]]
<1>1. FoldLeft(LAMBDA x, y : x * y, 1, s) = h[DOMAIN s]
    BY Zenon DEF FoldLeft, MapThenFoldSet
<1>2. DOMAIN s = 1 .. n
    OBVIOUS
<1>3. /\ G \in [(1 .. n) \X Nat -> Nat]
      /\ \A i \in 1 .. n, x \in Nat : G[<<i, x>>] = x * s[i]
    OBVIOUS
<1> HIDE DEF G
<1>4. PICK f \in [SUBSET (1 .. n) -> Nat] : IsFoldOf(f, n, 1, G)
    BY <1>3, FoldExists
<1>5. IsFold(f)
    <2>1. ASSUME NEW S \in SUBSET (1 .. n), S # {}
          PROVE  f[S] = f[S \ {Max(S)}] * s[Max(S)]
        <3>1. Max(S) \in 1 .. n
            BY <2>1, MaxOfNumbers
        <3>2. S \ {Max(S)} \in SUBSET (1 .. n) /\ f[S \ {Max(S)}] \in Nat
            OBVIOUS
        <3>3. f[S] = G[<<Max(S), f[S \ {Max(S)}]>>]
            BY <1>4, <2>1 DEF IsFoldOf
        <3> QED
            BY <1>3, <3>1, <3>2, <3>3
    <2>2. \A S \in SUBSET (1 .. n) :
              f[S] = IF S = {} THEN 1 ELSE f[S \ {Max(S)}] * s[Max(S)]
        BY <1>4, <2>1 DEF IsFoldOf
    <2> QED
        BY <1>2, <2>2
<1>6. IsFold(h)
    <2> HIDE DEF IsFold
    <2> QED
        BY <1>5
<1>7. FoldsWithin(h, n, 1, G, Nat)
    <2>1. \A S \in SUBSET (1 .. n) :
              h[S] = IF S = {} THEN 1 ELSE h[S \ {Max(S)}] * s[Max(S)]
        BY <1>2, <1>6
    <2> HIDE DEF h
    <2>2. ASSUME NEW S \in SUBSET (1 .. n), S # {}, h[S \ {Max(S)}] \in Nat
          PROVE  h[S] = G[<<Max(S), h[S \ {Max(S)}]>>]
        <3>1. Max(S) \in 1 .. n
            BY <2>2, MaxOfNumbers
        <3> QED
            BY <1>3, <2>1, <2>2, <3>1
    <2> QED
        BY <2>1, <2>2 DEF FoldsWithin
<1>8. EndsRun(h, n, 1, G, Nat)
    <2>1. 1 \in Nat
        OBVIOUS
    <2> HIDE DEF h
    <2> QED
        BY <1>3, <1>7, <2>1, FoldRuns
<1>9. PICK a \in [0 .. n -> Nat] : IsRun(a, n, 1, G) /\ h[1 .. n] = a[n]
    BY <1>8 DEF EndsRun
<1>10. IsProducts(a, s, n)
    <2>1. ASSUME NEW k \in 0 .. (n - 1)
          PROVE  a[k + 1] = a[k] * s[k + 1]
        <3>1. k + 1 \in 1 .. n /\ a[k] \in Nat
            OBVIOUS
        <3> HIDE DEF h
        <3> QED
            BY <1>3, <1>9, <3>1 DEF IsRun
    <2> HIDE DEF h
    <2> QED
        BY <1>9, <2>1 DEF IsProducts, IsRun
<1> HIDE DEF h
<1> QED
    BY <1>1, <1>2, <1>9, <1>10

\* b[k] is the number of the cell within the first k dimensions.
IsCount(b, strides, places, n) ==
    /\ b \in [0 .. n -> Nat]
    /\ b[0] = 1
    /\ \A k \in 0 .. (n - 1) :
          b[k + 1] = b[k] + (places[k + 1] - 1) * strides[k + 1]

\* A fold over the dimensions is a run of counts.
LEMMA FoldOfCount ==
    ASSUME NEW n \in Nat, NEW strides \in [1 .. n -> Nat],
           NEW places \in [1 .. n -> Nat \ {0}]
    PROVE  \E b : IsCount(b, strides, places, n) /\ CellNumber(strides, places) = b[n]
<1> DEFINE s == [i \in DOMAIN places |-> i]
           IsFold(f) == f = [S \in SUBSET (DOMAIN s) |->
                IF S = {} THEN 1
                ELSE f[S \ {Max(S)}] + (places[s[Max(S)]] - 1) * strides[s[Max(S)]]]
           h == CHOOSE f : IsFold(f)
           G == [p \in (1 .. n) \X Nat |-> p[2] + (places[p[1]] - 1) * strides[p[1]]]
<1>1. CellNumber(strides, places) = h[DOMAIN s]
    BY Zenon DEF CellNumber, FoldLeftDomain, FoldLeft, MapThenFoldSet
<1>2. DOMAIN s = 1 .. n /\ \A i \in 1 .. n : s[i] = i
    OBVIOUS
<1> HIDE DEF s
<1>3. /\ G \in [(1 .. n) \X Nat -> Nat]
      /\ \A i \in 1 .. n, x \in Nat :
            G[<<i, x>>] = x + (places[i] - 1) * strides[i]
    <2>1. \A i \in 1 .. n, x \in Nat : x + (places[i] - 1) * strides[i] \in Nat
        <3> TAKE i \in 1 .. n, x \in Nat
        <3>1. places[i] - 1 \in Nat /\ strides[i] \in Nat
            OBVIOUS
        <3>2. (places[i] - 1) * strides[i] \in Nat
            BY <3>1
        <3> QED
            BY <3>2
    <2> QED
        BY <2>1
<1> HIDE DEF G
<1>4. PICK f \in [SUBSET (1 .. n) -> Nat] : IsFoldOf(f, n, 1, G)
    BY <1>3, FoldExists
<1>5. IsFold(f)
    <2>1. ASSUME NEW S \in SUBSET (1 .. n), S # {}
          PROVE  f[S] = f[S \ {Max(S)}] + (places[s[Max(S)]] - 1) * strides[s[Max(S)]]
        <3>1. Max(S) \in 1 .. n
            BY <2>1, MaxOfNumbers
        <3>2. S \ {Max(S)} \in SUBSET (1 .. n) /\ f[S \ {Max(S)}] \in Nat
            OBVIOUS
        <3>3. f[S] = G[<<Max(S), f[S \ {Max(S)}]>>]
            BY <1>4, <2>1 DEF IsFoldOf
        <3> QED
            BY <1>2, <1>3, <3>1, <3>2, <3>3
    <2>2. \A S \in SUBSET (1 .. n) :
              f[S] = IF S = {} THEN 1
                     ELSE f[S \ {Max(S)}] + (places[s[Max(S)]] - 1) * strides[s[Max(S)]]
        BY <1>4, <2>1 DEF IsFoldOf
    <2> QED
        BY <1>2, <2>2
<1>6. IsFold(h)
    <2> HIDE DEF IsFold
    <2> QED
        BY <1>5
<1>7. FoldsWithin(h, n, 1, G, Nat)
    <2>1. \A S \in SUBSET (1 .. n) :
              h[S] = IF S = {} THEN 1
                     ELSE h[S \ {Max(S)}] + (places[s[Max(S)]] - 1) * strides[s[Max(S)]]
        BY <1>2, <1>6
    <2> HIDE DEF h
    <2>2. ASSUME NEW S \in SUBSET (1 .. n), S # {}, h[S \ {Max(S)}] \in Nat
          PROVE  h[S] = G[<<Max(S), h[S \ {Max(S)}]>>]
        <3>1. Max(S) \in 1 .. n
            BY <2>2, MaxOfNumbers
        <3>2. s[Max(S)] = Max(S)
            BY <1>2, <3>1
        <3>3. h[S] = h[S \ {Max(S)}] + (places[s[Max(S)]] - 1) * strides[s[Max(S)]]
            BY <2>1, <2>2
        <3>4. G[<<Max(S), h[S \ {Max(S)}]>>]
                = h[S \ {Max(S)}] + (places[Max(S)] - 1) * strides[Max(S)]
            BY <1>3, <2>2, <3>1
        <3> QED
            BY <3>2, <3>3, <3>4, Zenon
    <2> QED
        BY <2>1, <2>2 DEF FoldsWithin
<1> HIDE DEF h
<1>8. EndsRun(h, n, 1, G, Nat)
    <2>1. 1 \in Nat
        OBVIOUS
    <2> QED
        BY <1>3, <1>7, <2>1, FoldRuns
<1>9. PICK a \in [0 .. n -> Nat] : IsRun(a, n, 1, G) /\ h[1 .. n] = a[n]
    BY <1>8 DEF EndsRun
<1>10. IsCount(a, strides, places, n)
    <2>1. ASSUME NEW k \in 0 .. (n - 1)
          PROVE  a[k + 1] = a[k] + (places[k + 1] - 1) * strides[k + 1]
        <3>1. k + 1 \in 1 .. n /\ a[k] \in Nat
            OBVIOUS
        <3> QED
            BY <1>3, <1>9, <3>1 DEF IsRun
    <2> QED
        BY <1>9, <2>1 DEF IsCount, IsRun
<1> QED
    BY <1>1, <1>2, <1>9, <1>10

-----------------------------------------------------------------------------
(* The order of groups *)

\* Masks of some overriders are ordered as numbers are.
LEMMA BeforeIsAnOrder ==
    ASSUME NEW n \in Nat
    PROVE  /\ \A m \in SUBSET (1 .. n) : ~ IsBefore(m, m)
           /\ \A l, m, p \in SUBSET (1 .. n) :
                 IsBefore(l, m) /\ IsBefore(m, p) => IsBefore(l, p)
           /\ \A m, p \in SUBSET (1 .. n) : m = p \/ IsBefore(m, p) \/ IsBefore(p, m)
<1>1. ASSUME NEW l \in SUBSET (1 .. n), NEW m \in SUBSET (1 .. n),
             NEW p \in SUBSET (1 .. n), IsBefore(l, m), IsBefore(m, p)
      PROVE  IsBefore(l, p)
    <2>1. PICK i \in m \ l : \A k \in l \cup m : k > i => (k \in l <=> k \in m)
        BY <1>1 DEF IsBefore
    <2>2. PICK j \in p \ m : \A k \in m \cup p : k > j => (k \in m <=> k \in p)
        BY <1>1 DEF IsBefore
    <2>3. i \in Int /\ j \in Int /\ i # j /\ \A k \in l \cup m \cup p : k \in Int
        OBVIOUS
    <2>4. CASE i < j
        <3>1. j \in p \ l
            BY <2>1, <2>2, <2>4
        <3>2. ASSUME NEW k \in l \cup p, k > j
              PROVE  k \in l <=> k \in p
            <4>1. k > i
                BY <2>3, <2>4, <3>2
            <4> QED
                BY <2>1, <2>2, <3>2, <4>1
        <3> QED
            BY <3>1, <3>2 DEF IsBefore
    <2>5. CASE j < i
        <3>1. i \in p \ l
            BY <2>1, <2>2, <2>5
        <3>2. ASSUME NEW k \in l \cup p, k > i
              PROVE  k \in l <=> k \in p
            <4>1. k > j
                BY <2>3, <2>5, <3>2
            <4> QED
                BY <2>1, <2>2, <3>2, <4>1
        <3> QED
            BY <3>1, <3>2 DEF IsBefore
    <2> QED
        BY <2>3, <2>4, <2>5
<1>2. ASSUME NEW m \in SUBSET (1 .. n), NEW p \in SUBSET (1 .. n), m # p
      PROVE  IsBefore(m, p) \/ IsBefore(p, m)
    <2> DEFINE D == (m \ p) \cup (p \ m)
    <2>1. D \in SUBSET (1 .. n) /\ D # {}
        BY <1>2
    <2>2. PICK i \in D : \A k \in D : k <= i
        <3> HIDE DEF D
        <3> QED
            BY <2>1, MaxOfNumbers
    <2>3. \A k \in m \cup p : k > i => (k \in m <=> k \in p)
        <3> TAKE k \in m \cup p
        <3>1. i \in Int /\ k \in Int
            BY <2>1
        <3> QED
            BY <2>2, <3>1
    <2> QED
        BY <2>2, <2>3 DEF IsBefore
<1>3. \A m \in SUBSET (1 .. n) : ~ IsBefore(m, m)
    BY DEF IsBefore
<1> QED
    BY <1>1, <1>2, <1>3

\* Every mask is a group, and every group a mask, in one place.
IsGrouping(groups, masks) ==
    /\ groups \in Seq(masks)
    /\ \A m \in masks : \E k \in 1 .. Len(groups) : groups[k] = m
    /\ \A j, k \in 1 .. Len(groups) : groups[j] = groups[k] => j = k

Masks(derived, root, column) == { Mask(derived, column, c) : c \in derived[root] }

\* Each mask comes after as many others as its place says.
LEMMA GroupsAreMasks ==
    ASSUME NEW n \in Nat, NEW derived, NEW root, NEW column,
           DOMAIN column = 1 .. n
    PROVE  IsGrouping(GroupsOf(derived, root, column), Masks(derived, root, column))
<1> DEFINE masks == Masks(derived, root, column)
           Before(m) == { p \in masks : IsBefore(p, m) }
           K == Cardinality(masks)
           rank == [m \in masks |-> Cardinality(Before(m))]
<1>1. \A m \in masks : m \in SUBSET (1 .. n)
    BY DEF Mask, Masks
<1>2. IsFiniteSet(masks) /\ K \in Nat
    <2>1. IsFiniteSet(1 .. n)
        BY FS_Interval
    <2>2. IsFiniteSet(SUBSET (1 .. n))
        BY <2>1, FS_SUBSET
    <2>3. masks \in SUBSET (SUBSET (1 .. n))
        BY <1>1
    <2> HIDE DEF masks
    <2> QED
        BY <2>2, <2>3, FS_Subset, FS_CardinalityType
<1>3. GroupsOf(derived, root, column)
        = [k \in 1 .. K |-> CHOOSE m \in masks : Cardinality(Before(m)) = k - 1]
    BY Zenon DEF GroupsOf, Masks
<1> HIDE DEF masks
<1>4. ASSUME NEW m \in masks
      PROVE  /\ IsFiniteSet(Before(m)) /\ Cardinality(Before(m)) \in 0 .. (K - 1)
    <2>1. Before(m) \in SUBSET masks
        OBVIOUS
    <2>2. IsFiniteSet(Before(m)) /\ Cardinality(Before(m)) <= K
        BY <1>2, <2>1, FS_Subset
    <2>3. Cardinality(Before(m)) \in Nat
        BY <2>2, FS_CardinalityType
    <2>4. m \notin Before(m)
        BY <1>1, BeforeIsAnOrder
    <2>5. Cardinality(Before(m)) # K
        BY <1>2, <2>1, <2>4, FS_Subset
    <2> QED
        BY <1>2, <2>2, <2>3, <2>5
<1>5. ASSUME NEW m \in masks, NEW p \in masks, IsBefore(m, p)
      PROVE  Cardinality(Before(m)) # Cardinality(Before(p))
    <2>1. Before(m) \in SUBSET Before(p)
        <3> SUFFICES ASSUME NEW l \in Before(m) PROVE IsBefore(l, p)
            OBVIOUS
        <3> QED
            BY <1>1, <1>5, BeforeIsAnOrder
    <2>2. m \in Before(p) /\ m \notin Before(m)
        BY <1>1, <1>5, BeforeIsAnOrder
    <2>3. Before(p) # Before(m)
        BY <2>2
    <2>4. IsFiniteSet(Before(p))
        BY <1>4
    <2> HIDE DEF Before
    <2> QED
        BY <2>1, <2>3, <2>4, FS_Subset
<1>6. ASSUME NEW m \in masks, NEW p \in masks, rank[m] = rank[p]
      PROVE  m = p
    <2>1. m = p \/ IsBefore(m, p) \/ IsBefore(p, m)
        BY <1>1, BeforeIsAnOrder
    <2>2. Cardinality(Before(m)) = Cardinality(Before(p))
        BY <1>6
    <2> HIDE DEF Before
    <2> QED
        BY <1>5, <2>1, <2>2
<1>7. \A k \in 0 .. (K - 1) : \E m \in masks : rank[m] = k
    <2>1. \A m \in masks : rank[m] \in 0 .. (K - 1)
        BY <1>4
    <2>2. rank \in [masks -> 0 .. (K - 1)]
        BY <2>1
    <2>3. rank \in Injection(masks, 0 .. (K - 1))
        BY <1>6, <2>2 DEF Injection, IsInjective
    <2>4. IsFiniteSet(0 .. (K - 1)) /\ Cardinality(0 .. (K - 1)) = K
        <3>1. 0 \in Int /\ K - 1 \in Int /\ K \in Nat
            BY <1>2
        <3> HIDE DEF K
        <3> QED
            BY <3>1, FS_Interval
    <2> HIDE DEF rank
    <2>5. rank \in Surjection(masks, 0 .. (K - 1))
        BY <2>3, <2>4, FS_Injection
    <2> QED
        BY <2>5 DEF Surjection
<1> DEFINE groups == [k \in 1 .. K |-> CHOOSE m \in masks : Cardinality(Before(m)) = k - 1]
<1>8. ASSUME NEW k \in 1 .. K
      PROVE  groups[k] \in masks /\ rank[groups[k]] = k - 1
    <2>1. k - 1 \in 0 .. (K - 1)
        BY <1>2
    <2>2. PICK m \in masks : rank[m] = k - 1
        BY <1>7, <2>1
    <2>3. Cardinality(Before(m)) = k - 1
        BY <2>2
    <2>4. groups[k] = CHOOSE q \in masks : Cardinality(Before(q)) = k - 1
        OBVIOUS
    <2> HIDE DEF groups, Before
    <2>5. groups[k] \in masks /\ Cardinality(Before(groups[k])) = k - 1
        BY <2>3, <2>4, Zenon
    <2> QED
        BY <2>5
<1>9. groups \in Seq(masks) /\ Len(groups) = K
    <2>1. \A k \in 1 .. K : groups[k] \in masks
        BY <1>8
    <2>2. groups \in [1 .. K -> masks]
        BY <2>1
    <2> HIDE DEF groups
    <2> QED
        BY <1>2, <2>2
<1>10. ASSUME NEW m \in masks
       PROVE  \E k \in 1 .. K : groups[k] = m
    <2>1. rank[m] \in 0 .. (K - 1)
        BY <1>4
    <2> DEFINE k == rank[m] + 1
    <2>2. k \in 1 .. K /\ rank[m] = k - 1
        BY <1>2, <2>1
    <2> HIDE DEF k, rank, groups
    <2>3. groups[k] \in masks /\ rank[groups[k]] = rank[m]
        BY <1>8, <2>2
    <2> QED
        BY <1>6, <2>2, <2>3
<1>11. ASSUME NEW j \in 1 .. K, NEW k \in 1 .. K, groups[j] = groups[k]
       PROVE  j = k
    <2>1. rank[groups[j]] = j - 1 /\ rank[groups[k]] = k - 1
        BY <1>8
    <2> HIDE DEF rank, groups
    <2>2. j - 1 = k - 1
        BY <1>11, <2>1
    <2> QED
        BY <1>2, <2>2
<1> HIDE DEF groups
<1>12. IsGrouping(groups, masks)
    BY <1>9, <1>10, <1>11 DEF IsGrouping
<1> QED
    BY <1>3, <1>12 DEF groups, masks

-----------------------------------------------------------------------------
(* Cells *)

\* The strides of a table: that of a dimension is the product of the sizes of
\* the dimensions before.
IsLayout(P, strides, sizes, n) ==
    /\ sizes \in [1 .. n -> Nat \ {0}]
    /\ IsProducts(P, sizes, n)
    /\ strides \in [1 .. n -> Nat]
    /\ \A k \in 0 .. (n - 1) : strides[k + 1] = P[k]

Places(sizes, n) == { c \in [1 .. n -> Nat \ {0}] : \A d \in 1 .. n : c[d] <= sizes[d] }

\* One more dimension multiplies the range of a number by its size.
LEMMA OneMoreDigit ==
    ASSUME NEW P \in Nat, NEW x \in 1 .. P, NEW s \in Nat \ {0}, NEW c \in 1 .. s
    PROVE  /\ x + (c - 1) * P \in 1 .. (P * s)
           /\ x = P /\ c = s => x + (c - 1) * P = P * s
<1>1. c - 1 \in Nat /\ s - c \in Nat
    OBVIOUS
<1>2. (c - 1) * P \in Nat /\ (s - c) * P \in Nat
    BY <1>1
<1>3. P * s = P + (c - 1) * P + (s - c) * P
    BY <1>1
<1>4. P * s \in Nat
    OBVIOUS
<1>5. c = s => (s - c) * P = 0
    OBVIOUS
<1> QED
    BY <1>2, <1>3, <1>4, <1>5

LEMMA OneTimeMore ==
    ASSUME NEW P \in Nat, NEW c \in Nat
    PROVE  P + (c - 1) * P = c * P /\ c * P \in Nat
OBVIOUS

\* Numbers made of two digits are equal only if the digits are.
LEMMA DigitsAreUnique ==
    ASSUME NEW P \in Nat, NEW x \in 1 .. P, NEW y \in 1 .. P, NEW c \in Nat, NEW d \in Nat,
           x + c * P = y + d * P
    PROVE  x = y /\ c = d
<1>1. ASSUME NEW p \in Nat, NEW q \in Nat, p < q
      PROVE  p * P + P <= q * P
    <2>1. q - p - 1 \in Nat
        BY <1>1
    <2>2. (q - p - 1) * P \in Nat /\ p * P \in Nat
        BY <2>1
    <2>3. q * P = p * P + P + (q - p - 1) * P
        OBVIOUS
    <2> QED
        BY <2>2, <2>3
<1>2. c * P \in Nat /\ d * P \in Nat
    OBVIOUS
<1>3. ~ (c < d)
    <2> SUFFICES ASSUME c < d PROVE FALSE
        OBVIOUS
    <2>1. c * P + P <= d * P
        BY <1>1
    <2> QED
        BY <1>2, <2>1
<1>4. ~ (d < c)
    <2> SUFFICES ASSUME d < c PROVE FALSE
        OBVIOUS
    <2>1. d * P + P <= c * P
        BY <1>1
    <2> QED
        BY <1>2, <2>1
<1> QED
    BY <1>2, <1>3, <1>4

\* A count stays within the number of cells, which is that of the last cell.
LEMMA CountIsBounded ==
    ASSUME NEW n \in Nat, NEW P, NEW strides, NEW sizes, IsLayout(P, strides, sizes, n),
           NEW c \in Places(sizes, n), NEW b, IsCount(b, strides, c, n)
    PROVE  \A k \in 0 .. n : b[k] \in 1 .. P[k]
<1> DEFINE S == { k \in 0 .. n : b[k] \in 1 .. P[k] }
<1>1. 0 \in S
    BY DEF IsLayout, IsProducts, IsCount
<1>2. ASSUME NEW k \in 0 .. (n - 1), k \in S
      PROVE  k + 1 \in S
    <2>1. /\ k + 1 \in 1 .. n /\ k \in 0 .. n /\ k + 1 \in 0 .. n
          /\ b[k] \in 1 .. P[k]
        BY <1>2
    <2>2. P[k] \in Nat /\ sizes[k + 1] \in Nat \ {0} /\ c[k + 1] \in 1 .. sizes[k + 1]
        BY <2>1 DEF IsLayout, IsProducts, Places
    <2>3. b[k + 1] = b[k] + (c[k + 1] - 1) * P[k] /\ P[k + 1] = P[k] * sizes[k + 1]
        BY DEF IsLayout, IsProducts, IsCount
    <2>4. b[k] + (c[k + 1] - 1) * P[k] \in 1 .. (P[k] * sizes[k + 1])
        BY <2>1, <2>2, OneMoreDigit
    <2> QED
        BY <2>1, <2>3, <2>4
<1> HIDE DEF S
<1>3. \A k \in 0 .. n : k \in S
    BY <1>1, <1>2, Upward
<1> QED
    BY <1>3 DEF S

\* The last places make the number of all the cells.
LEMMA CountOfTheLast ==
    ASSUME NEW n \in Nat, NEW P, NEW strides, NEW sizes, IsLayout(P, strides, sizes, n),
           NEW c \in Places(sizes, n), NEW b, IsCount(b, strides, c, n),
           NEW m \in 0 .. n, \A d \in 1 .. m : c[d] = sizes[d]
    PROVE  \A k \in 0 .. m : b[k] = P[k]
<1> DEFINE S == { k \in 0 .. m : b[k] = P[k] }
<1>1. 0 \in S
    BY DEF IsLayout, IsProducts, IsCount
<1>2. ASSUME NEW k \in 0 .. (m - 1), k \in S
      PROVE  k + 1 \in S
    <2>1. /\ k + 1 \in 1 .. n /\ k \in 0 .. n /\ k + 1 \in 0 .. n /\ k \in 0 .. (n - 1)
          /\ b[k] = P[k] /\ k + 1 \in 1 .. m /\ k + 1 \in 0 .. m
        BY <1>2
    <2>2. P[k] \in Nat /\ sizes[k + 1] \in Nat \ {0} /\ c[k + 1] = sizes[k + 1]
        BY <2>1 DEF IsLayout, IsProducts, Places
    <2>3. b[k + 1] = b[k] + (c[k + 1] - 1) * P[k] /\ P[k + 1] = P[k] * sizes[k + 1]
        BY <2>1 DEF IsLayout, IsProducts, IsCount
    <2>4. P[k] \in 1 .. P[k]
        <3>1. b[k] \in 1 .. P[k]
            BY <2>1, CountIsBounded
        <3> QED
            BY <2>1, <3>1
    <2>5. P[k] + (c[k + 1] - 1) * P[k] = P[k] * sizes[k + 1]
        BY <2>2, <2>4
    <2> QED
        BY <2>1, <2>3, <2>5
<1> HIDE DEF S
<1>3. \A k \in 0 .. m : k \in S
    <2>1. m \in Nat
        OBVIOUS
    <2> QED
        BY <1>1, <1>2, <2>1, Upward
<1> QED
    BY <1>3 DEF S

\* The first places make one.
LEMMA CountOfTheFirst ==
    ASSUME NEW n \in Nat, NEW P, NEW strides, NEW sizes, IsLayout(P, strides, sizes, n),
           NEW c \in Places(sizes, n), NEW b, IsCount(b, strides, c, n),
           NEW m \in 0 .. n, \A d \in 1 .. m : c[d] = 1
    PROVE  \A k \in 0 .. m : b[k] = 1
<1> DEFINE S == { k \in 0 .. m : b[k] = 1 }
<1>1. 0 \in S
    BY DEF IsCount
<1>2. ASSUME NEW k \in 0 .. (m - 1), k \in S
      PROVE  k + 1 \in S
    <2>1. /\ k + 1 \in 1 .. n /\ k \in 0 .. n /\ k \in 0 .. (n - 1)
          /\ b[k] = 1 /\ k + 1 \in 1 .. m /\ k + 1 \in 0 .. m
        BY <1>2
    <2>2. strides[k + 1] \in Nat /\ c[k + 1] = 1
        BY <2>1 DEF IsLayout
    <2>3. b[k + 1] = b[k] + (c[k + 1] - 1) * strides[k + 1]
        BY <2>1 DEF IsCount
    <2> QED
        BY <2>1, <2>2, <2>3
<1> HIDE DEF S
<1>3. \A k \in 0 .. m : k \in S
    <2>1. m \in Nat
        OBVIOUS
    <2> QED
        BY <1>1, <1>2, <2>1, Upward
<1> QED
    BY <1>3 DEF S

\* No two cells have the same number.
LEMMA CountIsUnique ==
    ASSUME NEW n \in Nat, NEW P, NEW strides, NEW sizes, IsLayout(P, strides, sizes, n),
           NEW c \in Places(sizes, n), NEW b, IsCount(b, strides, c, n),
           NEW e \in Places(sizes, n), NEW a, IsCount(a, strides, e, n),
           a[n] = b[n]
    PROVE  c = e
<1> DEFINE S == { k \in 0 .. n : a[n - k] = b[n - k] }
<1>1. ASSUME NEW k \in 0 .. (n - 1), a[k + 1] = b[k + 1]
      PROVE  a[k] = b[k] /\ c[k + 1] = e[k + 1]
    <2>1. k \in 0 .. n /\ k + 1 \in 1 .. n
        OBVIOUS
    <2>2. /\ P[k] \in Nat /\ c[k + 1] \in Nat \ {0} /\ e[k + 1] \in Nat \ {0}
          /\ strides[k + 1] = P[k]
        BY <2>1 DEF IsLayout, IsProducts, Places
    <2>3. b[k + 1] = b[k] + (c[k + 1] - 1) * P[k] /\ a[k + 1] = a[k] + (e[k + 1] - 1) * P[k]
        BY <2>2 DEF IsCount
    <2>4. b[k] \in 1 .. P[k] /\ a[k] \in 1 .. P[k]
        BY <2>1, CountIsBounded
    <2>5. c[k + 1] - 1 \in Nat /\ e[k + 1] - 1 \in Nat
        BY <2>2
    <2>6. a[k] + (e[k + 1] - 1) * P[k] = b[k] + (c[k + 1] - 1) * P[k]
        BY <1>1, <2>3
    <2>7. a[k] = b[k] /\ e[k + 1] - 1 = c[k + 1] - 1
        <3> DEFINE p == e[k + 1] - 1
                   q == c[k + 1] - 1
        <3>1. p \in Nat /\ q \in Nat /\ a[k] + p * P[k] = b[k] + q * P[k]
            BY <2>5, <2>6
        <3> HIDE DEF p, q
        <3>2. a[k] = b[k] /\ p = q
            BY <2>2, <2>4, <3>1, DigitsAreUnique
        <3> QED
            BY <3>2 DEF p, q
    <2> QED
        BY <2>2, <2>7
<1>2. 0 \in S
    OBVIOUS
<1>3. ASSUME NEW k \in 0 .. (n - 1), k \in S
      PROVE  k + 1 \in S
    <2>1. n - (k + 1) \in 0 .. (n - 1) /\ (n - (k + 1)) + 1 = n - k /\ k + 1 \in 0 .. n
        OBVIOUS
    <2>2. a[n - k] = b[n - k]
        BY <1>3
    <2>3. a[n - (k + 1)] = b[n - (k + 1)]
        BY <1>1, <2>1, <2>2
    <2> QED
        BY <2>1, <2>3
<1>4. \A k \in 0 .. n : a[k] = b[k]
    <2>1. \A k \in 0 .. n : k \in S
        <3> HIDE DEF S
        <3> QED
            BY <1>2, <1>3, Upward
    <2> TAKE k \in 0 .. n
    <2>2. n - k \in 0 .. n /\ n - (n - k) = k
        OBVIOUS
    <2> QED
        BY <2>1, <2>2
<1>5. \A d \in 1 .. n : c[d] = e[d]
    <2> TAKE d \in 1 .. n
    <2>1. d - 1 \in 0 .. (n - 1) /\ (d - 1) + 1 = d /\ d \in 0 .. n
        OBVIOUS
    <2> QED
        BY <1>1, <1>4, <2>1
<1> QED
    BY <1>5 DEF Places

\* The next cell: the first place that is not the last moves on, those before
\* it start again.
IsNextPlace(c, e, sizes, n) ==
    \E d \in 1 .. n :
        /\ c[d] < sizes[d] /\ \A j \in 1 .. (d - 1) : c[j] = sizes[j]
        /\ e = [j \in 1 .. n |-> IF j < d THEN 1 ELSE IF j = d THEN c[j] + 1 ELSE c[j]]

\* The next cell is a cell.
LEMMA NextPlaceIsAPlace ==
    ASSUME NEW n \in Nat, NEW sizes \in [1 .. n -> Nat \ {0}],
           NEW c \in Places(sizes, n), NEW e, IsNextPlace(c, e, sizes, n)
    PROVE  e \in Places(sizes, n)
<1>1. PICK d \in 1 .. n :
        /\ c[d] < sizes[d] /\ \A j \in 1 .. (d - 1) : c[j] = sizes[j]
        /\ e = [j \in 1 .. n |-> IF j < d THEN 1 ELSE IF j = d THEN c[j] + 1 ELSE c[j]]
    BY DEF IsNextPlace
<1>2. \A j \in 1 .. n : c[j] \in Nat \ {0} /\ sizes[j] \in Nat \ {0} /\ c[j] <= sizes[j]
    BY DEF Places
<1>3. \A j \in 1 .. n : e[j] \in Nat \ {0} /\ e[j] <= sizes[j]
    BY <1>1, <1>2
<1>4. e \in [1 .. n -> Nat \ {0}]
    BY <1>1, <1>3
<1> QED
    BY <1>3, <1>4 DEF Places

\* The next cell in the order of the loops has the next number.
LEMMA CountGoesOn ==
    ASSUME NEW n \in Nat, NEW P, NEW strides, NEW sizes, IsLayout(P, strides, sizes, n),
           NEW c \in Places(sizes, n), NEW b, IsCount(b, strides, c, n),
           NEW e, IsNextPlace(c, e, sizes, n), NEW a, IsCount(a, strides, e, n)
    PROVE  a[n] = b[n] + 1
<1>1. PICK d \in 1 .. n :
        /\ c[d] < sizes[d] /\ \A j \in 1 .. (d - 1) : c[j] = sizes[j]
        /\ e = [j \in 1 .. n |-> IF j < d THEN 1 ELSE IF j = d THEN c[j] + 1 ELSE c[j]]
    BY DEF IsNextPlace
<1>2. \A j \in 1 .. n : c[j] \in Nat \ {0} /\ sizes[j] \in Nat \ {0} /\ c[j] <= sizes[j]
    BY DEF Places, IsLayout
<1>3. e \in Places(sizes, n)
    BY NextPlaceIsAPlace DEF IsLayout
<1>4. d - 1 \in 0 .. n /\ d - 1 \in 0 .. (n - 1) /\ (d - 1) + 1 = d /\ d \in 0 .. n
    OBVIOUS
<1>5. b[d - 1] = P[d - 1]
    <2>1. \A j \in 1 .. (d - 1) : c[j] = sizes[j]
        BY <1>1
    <2>2. d - 1 \in 0 .. (d - 1)
        BY <1>4
    <2> QED
        BY <1>4, <2>1, <2>2, CountOfTheLast
<1>6. a[d - 1] = 1
    <2>1. \A j \in 1 .. (d - 1) : e[j] = 1
        BY <1>1
    <2>2. d - 1 \in 0 .. (d - 1)
        BY <1>4
    <2> QED
        BY <1>3, <1>4, <2>1, <2>2, CountOfTheFirst
<1>7. a[d] = b[d] + 1
    <2>1. b[d] = b[d - 1] + (c[d] - 1) * strides[d] /\ a[d] = a[d - 1] + (e[d] - 1) * strides[d]
        BY <1>4 DEF IsCount
    <2>2. strides[d] = P[d - 1] /\ P[d - 1] \in Nat
        BY <1>4 DEF IsLayout, IsProducts
    <2>3. e[d] = c[d] + 1 /\ c[d] \in Nat
        BY <1>1, <1>2
    <2>4. b[d] = P[d - 1] + (c[d] - 1) * P[d - 1] /\ a[d] = 1 + c[d] * P[d - 1]
        BY <1>5, <1>6, <2>1, <2>2, <2>3
    <2>5. P[d - 1] + (c[d] - 1) * P[d - 1] = c[d] * P[d - 1] /\ c[d] * P[d - 1] \in Nat
        BY <2>2, <2>3, OneTimeMore
    <2> QED
        BY <2>4, <2>5
<1> DEFINE S == { k \in 0 .. n : k >= d => a[k] = b[k] + 1 }
<1>8. 0 \in S
    OBVIOUS
<1>9. ASSUME NEW k \in 0 .. (n - 1), k \in S
      PROVE  k + 1 \in S
    <2>1. k + 1 \in 0 .. n /\ k \in 0 .. n /\ k + 1 \in 1 .. n
        OBVIOUS
    <2>2. CASE k + 1 < d
        BY <2>1, <2>2
    <2>3. CASE k + 1 = d
        BY <1>7, <2>1, <2>3
    <2>4. CASE k + 1 > d
        <3>1. a[k] = b[k] + 1 /\ e[k + 1] = c[k + 1]
            BY <1>1, <1>9, <2>1, <2>4
        <3>2. /\ b[k + 1] = b[k] + (c[k + 1] - 1) * strides[k + 1]
              /\ a[k + 1] = a[k] + (e[k + 1] - 1) * strides[k + 1]
            BY DEF IsCount
        <3>3. b[k] \in Nat /\ c[k + 1] - 1 \in Nat /\ strides[k + 1] \in Nat
            <4>1. b \in [0 .. n -> Nat] /\ strides \in [1 .. n -> Nat]
                BY DEF IsCount, IsLayout
            <4>2. c[k + 1] \in Nat \ {0}
                BY <1>2, <2>1
            <4> QED
                BY <2>1, <4>1, <4>2
        <3>4. (c[k + 1] - 1) * strides[k + 1] \in Nat
            BY <3>3
        <3>5. a[k + 1] = b[k + 1] + 1
            BY <3>1, <3>2, <3>3, <3>4
        <3> QED
            BY <2>1, <3>5
    <2> QED
        BY <2>2, <2>3, <2>4
<1> HIDE DEF S
<1>10. \A k \in 0 .. n : k \in S
    BY <1>8, <1>9, Upward
<1>11. a[n] = b[n] + 1
    <2>1. n \in S /\ n >= d
        BY <1>10
    <2> QED
        BY <2>1 DEF S
<1> QED
    BY <1>3, <1>11

\* The strides are the products of the sizes.
LEMMA StridesAreProducts ==
    ASSUME NEW n \in Nat, NEW sizes \in [1 .. n -> Nat]
    PROVE  \E P : /\ IsProducts(P, sizes, n)
                  /\ \A d \in 1 .. (n + 1) : Stride(sizes, d) = P[d - 1]
<1>1. PICK P : IsProducts(P, sizes, n)
    BY FoldOfProduct
<1>2. ASSUME NEW d \in 1 .. (n + 1)
      PROVE  Stride(sizes, d) = P[d - 1]
    <2> DEFINE s == SubSeq(sizes, 1, d - 1)
    <2>1. d - 1 \in Nat /\ d - 1 \in 0 .. n
        OBVIOUS
    <2>2. s \in [1 .. (d - 1) -> Nat] /\ \A i \in 1 .. (d - 1) : s[i] = sizes[i]
        <3>1. s = [i \in 1 .. (1 + (d - 1) - 1) |-> sizes[i + 1 - 1]]
            OBVIOUS
        <3>2. \A i \in 1 .. (d - 1) : i + 1 - 1 = i /\ i \in 1 .. n
            BY <2>1
        <3>3. 1 + (d - 1) - 1 = d - 1
            BY <2>1
        <3> QED
            BY <3>1, <3>2, <3>3
    <2>3. Stride(sizes, d) = FoldLeft(LAMBDA x, y : x * y, 1, s)
        BY DEF Stride
    <2> HIDE DEF s
    <2>4. PICK a : IsProducts(a, s, d - 1) /\ Stride(sizes, d) = a[d - 1]
        BY <2>1, <2>2, <2>3, FoldOfProduct
    <2> DEFINE S == { k \in 0 .. (d - 1) : a[k] = P[k] }
    <2>5. 0 \in S
        BY <1>1, <2>1, <2>4 DEF IsProducts
    <2>6. ASSUME NEW k \in 0 .. ((d - 1) - 1), k \in S
          PROVE  k + 1 \in S
        <3>1. k \in 0 .. (n - 1) /\ k + 1 \in 1 .. (d - 1) /\ k + 1 \in 0 .. (d - 1)
            BY <2>1
        <3>2. a[k + 1] = a[k] * s[k + 1] /\ P[k + 1] = P[k] * sizes[k + 1]
            BY <1>1, <2>4, <3>1 DEF IsProducts
        <3> QED
            BY <2>2, <2>6, <3>1, <3>2
    <2>7. \A k \in 0 .. (d - 1) : k \in S
        <3> HIDE DEF S
        <3> QED
            BY <2>1, <2>5, <2>6, Upward
    <2> QED
        BY <2>1, <2>4, <2>7
<1> QED
    BY <1>1, <1>2
=============================================================================
