------------------------- MODULE AssignSlotsProofs -------------------------
(****************************************************************************)
(* Slot allocation is right for every lattice and every number of virtual   *)
(* parameters.                                                              *)
(*                                                                          *)
(* A class may have lost some of its indirect bases, as augment_classes     *)
(* allows: LatticeInv.  Then slots may be shared, and nothing else changes. *)
(*                                                                          *)
(* The two algorithms are right for different reasons.  In a tree the bases *)
(* of a class are one path, and slots grow along it: PathInv and TreeSlots. *)
(* In any other lattice a slot in use is recorded in every class that has   *)
(* an entry for it and reserved in every base of such a class: LatticeSlots.*)
(* Neither disturbs the other because a tree and the rest of the lattice    *)
(* have no class in common: KindInv.                                        *)
(****************************************************************************)
EXTENDS AssignSlots, CompilerTheorems, SequenceTheorems, WellFoundedInduction

Frame == [classes : SUBSET Class, base : Nat]

\* The bases a class has in C++, all of them.
Above == [c \in Class |-> { b \in Class \ {c} : c \in derived[b] }]

\* The root of a part of the lattice no class of which has several direct bases,
\* and the classes of such a part.
IsTreeRoot(r) ==
    /\ directBases[r] = {}
    /\ \A d \in derived[r] : \A a, b \in directBases[d] : a = b

InTree(c) == \E r \in Class : IsTreeRoot(r) /\ c \in derived[r]

\* The lattice is that of the program: transitive_derived is complete, but a
\* class may have lost some of its indirect bases, and with a base that hides
\* it gone, one of them may pass for a direct base.
LatticeInv ==
    /\ Above \in Inheritances
    /\ derived = DerivedOf(Above)
    /\ bases \in [Class -> SUBSET Class]
    /\ \A c \in Class : bases[c] \subseteq Above[c]
    /\ directBases \in [Class -> SUBSET Class]
    /\ \A c \in Class : /\ DirectOf(Above)[c] \subseteq directBases[c]
                        /\ directBases[c] \subseteq Above[c]
    /\ host \in [Param -> Class]

\* No base is lost.
IsComplete == bases = Above

WalkTypes ==
    /\ roots \subseteq Class
    /\ kind \in {"tree", "lattice"}
    /\ frames \in Seq(Frame)
    /\ visiting \in Class \cup {NoClass}
    /\ pending \subseteq Param
    /\ nextSlot \in Nat
    /\ marked \subseteq Class
    /\ slots \in [Param -> Nat \cup {NotAssigned}]
    /\ usedSlots \in [Class -> SUBSET (0 .. NumParams)]
    /\ reservedSlots \in [Class -> SUBSET (0 .. NumParams)]

TableTypes ==
    /\ phase \in {"walk", "done"}
    /\ firstSlot \in [Class -> Nat]
    /\ vtblSize \in [Class -> Nat]

\* Each recursive function only ever comes to the classes it is for.
KindInv ==
    /\ \A i \in 1 .. Len(frames) : \A x \in frames[i].classes :
          InTree(x) <=> kind = "tree"
    /\ visiting # NoClass => (InTree(visiting) <=> kind = "tree")

\* The subtrees still to be walked, and the one at work, have no class in
\* common: no class of a tree is visited twice.
ApartInv ==
    kind = "tree" =>
        /\ \A i, j \in 1 .. Len(frames) :
              \A x \in frames[i].classes, y \in frames[j].classes :
                 (i = j /\ x = y) \/ derived[x] \cap derived[y] = {}
        /\ visiting # NoClass =>
              \A i \in 1 .. Len(frames) : \A x \in frames[i].classes :
                 derived[x] \cap derived[visiting] = {}
        /\ \A r \in roots : directBases[r] = {} =>
              /\ \A i \in 1 .. Len(frames) : \A x \in frames[i].classes :
                    derived[x] \cap derived[r] = {}
              /\ visiting # NoClass => derived[visiting] \cap derived[r] = {}

\* The parameters of the classes still to be visited have no slot yet.
UnseenInv ==
    /\ kind = "tree" =>
          /\ \A i \in 1 .. Len(frames) : \A x \in frames[i].classes :
                \A p \in Param : host[p] \in derived[x] => ~ Assigned(p)
          /\ visiting # NoClass =>
                \A p \in Param :
                   host[p] \in derived[visiting] /\ host[p] # visiting =>
                      ~ Assigned(p)
    /\ \A r \in roots : directBases[r] = {} /\ InTree(r) =>
          \A p \in Param : host[p] \in derived[r] => ~ Assigned(p)
    /\ \A p \in pending : host[p] = visiting /\ ~ Assigned(p)
    /\ \A p \in Param : ~ InTree(host[p]) /\ host[p] \notin marked =>
          ~ Assigned(p)
    /\ kind = "lattice" /\ visiting # NoClass => visiting \in marked

\* In a tree, the bases of a class have been visited before it, and the slots
\* of their parameters are below the one the class starts from.
PathInv ==
    kind = "tree" =>
        /\ \A i \in 1 .. Len(frames) : \A x \in frames[i].classes :
              \A p \in Param : host[p] \in Above[x] =>
                 Assigned(p) /\ slots[p] < frames[i].base
        /\ visiting # NoClass =>
              \A p \in Param :
                 host[p] \in Above[visiting] \/ (host[p] = visiting /\ p \notin pending)
                    => Assigned(p) /\ slots[p] < nextSlot

\* In a tree, slots grow along the path from the root.
TreeSlots ==
    \A p, q \in Param :
        InTree(host[q]) /\ Assigned(q) =>
            /\ host[p] \in Above[host[q]] => Assigned(p) /\ slots[p] < slots[q]
            /\ p # q /\ host[p] = host[q] /\ Assigned(p) => slots[p] # slots[q]

\* Elsewhere, every class with an entry for a parameter has its slot marked as
\* used, and every base of such a class has it marked as reserved.
LatticeSlots ==
    \A p \in Param :
        ~ InTree(host[p]) /\ Assigned(p) =>
            \A d \in derived[host[p]] :
                /\ slots[p] \in usedSlots[d]
                /\ IsComplete => \A b \in Above[d] : slots[p] \in reservedSlots[b]

\* Slots may only be shared where a base was lost.
NoSharedInv == IsComplete => NoSharedSlot

Inv ==
    /\ LatticeInv
    /\ WalkTypes
    /\ KindInv
    /\ ApartInv
    /\ UnseenInv
    /\ PathInv
    /\ TreeSlots
    /\ LatticeSlots
    /\ NoSharedInv
-----------------------------------------------------------------------------
(* What the lattice of the state is like *)

LEMMA LatticeFacts ==
    ASSUME LatticeInv
    PROVE  /\ Above \in [Class -> SUBSET Class]
           /\ \A c \in Class : c \in derived[c] /\ derived[c] \subseteq Class
           /\ \A c, d \in Class : d \in derived[c] <=> d = c \/ c \in Above[d]
           /\ \A c \in Class : \A d \in derived[c] : derived[d] \subseteq derived[c]
           /\ \A c \in Class : c \notin Above[c]
           /\ \A c \in Class : directBases[c] \subseteq Above[c]
           /\ \A c \in Class : \A b \in Above[c] : Above[b] \subseteq Above[c]
           /\ \A c \in Class : directBases[c] = {} => Above[c] = {}
<1> USE DEF LatticeInv
<1>1. Above \in [Class -> SUBSET Class]
    BY InheritanceFacts
<1>2. \A c \in Class : c \in derived[c] /\ derived[c] \subseteq Class
    BY DerivedFacts
<1>3. \A c, d \in Class : d \in derived[c] <=> d = c \/ c \in Above[d]
    BY DerivedFacts
<1>4. \A c \in Class : \A d \in derived[c] : derived[d] \subseteq derived[c]
    BY DerivedFacts
<1>5. \A c \in Class : c \notin Above[c]
    BY InheritanceFacts
<1>6. \A c \in Class : directBases[c] \subseteq Above[c]
    OBVIOUS
<1>7. \A c \in Class : \A b \in Above[c] : Above[b] \subseteq Above[c]
    BY InheritanceFacts
<1>8. ASSUME NEW c \in Class, directBases[c] = {}
      PROVE  Above[c] = {}
    <2>1. DirectOf(Above)[c] = {}
        BY <1>8
    <2> QED
        BY <2>1, RootHasNoBases
<1> QED
    BY <1>1, <1>2, <1>3, <1>4, <1>5, <1>6, <1>7, <1>8

\* A class of a part without several direct bases is in a tree of the program,
\* and has there the direct bases it has in the program.
LEMMA InTreeFacts ==
    ASSUME LatticeInv, NEW r \in Class, IsTreeRoot(r)
    PROVE  /\ TreeRoot(Above, r)
           /\ \A d \in derived[r] : directBases[d] = DirectOf(Above)[d]
<1> USE DEF LatticeInv
<1>1. derived[r] \subseteq Class
    BY LatticeFacts
<1>2. TreeRoot(Above, r)
    BY <1>1 DEF TreeRoot, IsTreeRoot
<1>3. ASSUME NEW d \in derived[r], NEW b \in directBases[d]
      PROVE  b \in DirectOf(Above)[d]
    <2>1. d \in Class /\ b \in Above[d]
        BY <1>1, <1>3
    <2>2. DirectOf(Above)[d] # {}
        BY <2>1, RootHasNoBases
    <2>3. PICK a \in DirectOf(Above)[d] : TRUE
        BY <2>2
    <2>4. a \in directBases[d]
        BY <2>1, <2>3
    <2> QED
        BY <1>3, <2>3, <2>4 DEF IsTreeRoot
<1> QED
    BY <1>1, <1>2, <1>3

LEMMA TreeFacts ==
    ASSUME LatticeInv
    PROVE  /\ \A c \in Class : \A d \in derived[c] : InTree(c) <=> InTree(d)
           /\ \A x, y \in Class : InTree(x) /\ derived[x] \cap derived[y] # {} =>
                 x = y \/ x \in Above[y] \/ y \in Above[x]
           /\ \A d \in Class : \A c \in directBases[d] : InTree(d) =>
                 Above[d] = {c} \cup Above[c]
           /\ \A x, y \in Class : \A c \in directBases[x] \cap directBases[y] :
                 x # y /\ InTree(x) /\ InTree(y) => derived[x] \cap derived[y] = {}
           /\ \A r \in Class : directBases[r] = {} =>
                 (InTree(r) <=> ~ InMultipleInheritance(r))
<1>0. ASSUME NEW c \in Class, InTree(c)
      PROVE  InTreeOf(Above, c) /\ directBases[c] = DirectOf(Above)[c]
    <2>1. PICK r \in Class : IsTreeRoot(r) /\ c \in derived[r]
        BY <1>0 DEF InTree
    <2> QED
        BY <2>1, InTreeFacts DEF InTreeOf, LatticeInv
<1>1. ASSUME NEW c \in Class, NEW d \in derived[c]
      PROVE  InTree(c) <=> InTree(d)
    <2>1. ASSUME InTree(c)
          PROVE  InTree(d)
        <3>1. PICK r \in Class : IsTreeRoot(r) /\ c \in derived[r]
            BY <2>1 DEF InTree
        <3> QED
            BY <1>1, <3>1, LatticeFacts DEF InTree
    <2>2. ASSUME InTree(d)
          PROVE  InTree(c)
        <3>1. PICK r \in Class : IsTreeRoot(r) /\ d \in derived[r]
            BY <2>2 DEF InTree
        <3>2. Above[d] \subseteq derived[r]
            BY <3>1, InTreeFacts, TreePath DEF LatticeInv
        <3>3. c = d \/ c \in Above[d]
            BY <1>1, LatticeFacts
        <3> QED
            BY <3>1, <3>2, <3>3 DEF InTree
    <2> QED
        BY <2>1, <2>2
<1>2. ASSUME NEW x \in Class, NEW y \in Class, InTree(x),
             derived[x] \cap derived[y] # {}
      PROVE  x = y \/ x \in Above[y] \/ y \in Above[x]
    BY <1>0, <1>2, TreeMeet DEF LatticeInv
<1>3. ASSUME NEW d \in Class, NEW c \in directBases[d], InTree(d)
      PROVE  Above[d] = {c} \cup Above[c]
    BY <1>0, <1>3, TreeParent DEF LatticeInv
<1>4. ASSUME NEW x \in Class, NEW y \in Class,
             NEW c \in directBases[x] \cap directBases[y],
             x # y, InTree(x), InTree(y)
      PROVE  derived[x] \cap derived[y] = {}
    <2>1. /\ InTreeOf(Above, x) /\ c \in DirectOf(Above)[x]
          /\ InTreeOf(Above, y) /\ c \in DirectOf(Above)[y]
        BY <1>0, <1>4
    <2> QED
        BY <1>4, <2>1, SiblingsAreApart DEF LatticeInv
<1>5. ASSUME NEW r \in Class, directBases[r] = {}
      PROVE  InTree(r) <=> ~ InMultipleInheritance(r)
    <2>1. IsTreeRoot(r) <=> ~ InMultipleInheritance(r)
        BY <1>5 DEF IsTreeRoot, InMultipleInheritance
    <2>2. IsTreeRoot(r) => InTree(r)
        BY LatticeFacts DEF InTree
    <2>3. ASSUME NEW s \in Class, IsTreeRoot(s), r \in derived[s]
          PROVE  IsTreeRoot(r)
        BY <1>5, <2>3, LatticeFacts
    <2> QED
        BY <2>1, <2>2, <2>3 DEF InTree
<1> QED
    BY <1>1, <1>2, <1>3, <1>4, <1>5
-----------------------------------------------------------------------------
(* What the three things done to the stack of loops do to it *)

\* A new loop is the innermost one.
LEMMA PushFrame ==
    ASSUME NEW F \in Seq(Frame), NEW f \in Frame, NEW G, G = << f >> \o F
    PROVE  /\ G \in Seq(Frame) /\ Len(G) = Len(F) + 1
           /\ G[1] = f
           /\ \A i \in 2 .. Len(G) : i - 1 \in 1 .. Len(F) /\ G[i] = F[i - 1]
<1>1. << f >> \in Seq(Frame) /\ Len(<< f >>) = 1 /\ << f >>[1] = f /\ Len(F) \in Nat
    OBVIOUS
<1>2. G \in Seq(Frame) /\ Len(G) = Len(F) + 1
    BY <1>1, ConcatProperties
<1>3. \A i \in 1 .. Len(G) : G[i] = IF i <= 1 THEN f ELSE F[i - 1]
    BY <1>1, <1>2, ConcatProperties
<1> QED
    BY <1>1, <1>2, <1>3

\* A call takes one class out of the innermost loop.
LEMMA CalledFrame ==
    ASSUME NEW F \in Seq(Frame), F # <<>>, NEW c,
           NEW f, f = [Head(F) EXCEPT !.classes = @ \ {c}]
    PROVE  /\ Head(F) = F[1] /\ 1 \in 1 .. Len(F) /\ F[1] \in Frame
           /\ f \in Frame /\ f.base = F[1].base
           /\ f.classes = F[1].classes \ {c}
<1>1. Head(F) = F[1] /\ 1 \in 1 .. Len(F) /\ F[1] \in Frame
    OBVIOUS
<1> QED
    BY <1>1 DEF Frame

LEMMA ReplacedFrame ==
    ASSUME NEW F \in Seq(Frame), F # <<>>, NEW f \in Frame
    PROVE  LET G == << f >> \o Tail(F)
           IN  /\ G \in Seq(Frame) /\ Len(G) = Len(F)
               /\ G[1] = f
               /\ \A i \in 2 .. Len(F) : G[i] = F[i]
<1>1. /\ Tail(F) \in Seq(Frame) /\ Len(Tail(F)) = Len(F) - 1
      /\ \A i \in 1 .. Len(F) - 1 : Tail(F)[i] = F[i + 1]
      /\ Len(F) \in Nat
    OBVIOUS
<1> QED
    BY <1>1, PushFrame

\* Without the innermost loop, the others are as they were.
LEMMA PopFrame ==
    ASSUME NEW F \in Seq(Frame), F # <<>>
    PROVE  /\ Tail(F) \in Seq(Frame)
           /\ \A i \in 1 .. Len(Tail(F)) :
                 i + 1 \in 1 .. Len(F) /\ Tail(F)[i] = F[i + 1]
    OBVIOUS
-----------------------------------------------------------------------------
(* What most steps leave alone *)

LEMMA SameLattice ==
    ASSUME LatticeInv, UNCHANGED lattice
    PROVE  /\ LatticeInv'
           /\ \A c : InTree(c)' <=> InTree(c)
           /\ Above' = Above /\ directBases' = directBases
           /\ derived' = derived /\ host' = host
           /\ IsComplete' <=> IsComplete
<1>1. /\ bases' = bases /\ directBases' = directBases
      /\ derived' = derived /\ host' = host
    BY DEF lattice
<1>2. Above' = Above
    BY <1>1 DEF Above
<1>3. \A c : InTree(c)' <=> InTree(c)
    BY <1>1 DEF InTree, IsTreeRoot
<1>4. LatticeInv'
    BY <1>1, <1>2 DEF LatticeInv
<1> QED
    BY <1>1, <1>2, <1>3, <1>4 DEF IsComplete

LEMMA SameSlots ==
    ASSUME LatticeInv, TreeSlots, LatticeSlots, NoSharedInv,
           UNCHANGED <<lattice, slots, usedSlots, reservedSlots>>
    PROVE  TreeSlots' /\ LatticeSlots' /\ NoSharedInv'
<1>1. /\ \A c : InTree(c)' <=> InTree(c)
      /\ Above' = Above /\ derived' = derived /\ host' = host
      /\ IsComplete' <=> IsComplete
      /\ slots' = slots /\ usedSlots' = usedSlots
      /\ reservedSlots' = reservedSlots
    BY SameLattice
<1>2. TreeSlots'
    BY <1>1 DEF TreeSlots, Assigned
<1>3. LatticeSlots'
    BY <1>1 DEF LatticeSlots, Assigned
<1>4. NoSharedInv'
    BY <1>1 DEF NoSharedInv, NoSharedSlot, Assigned
<1> QED
    BY <1>2, <1>3, <1>4

-----------------------------------------------------------------------------
(* The steps preserve the invariant *)

LEMMA StartInv ==
    ASSUME LatticeInv, Start
    PROVE  Inv
<1> USE NumParamsAssumption
<1>1. WalkTypes
    BY DEF Start, WalkTypes, Frame, NoClass, NotAssigned
<1>2. /\ frames = <<>> /\ Len(frames) = 0 /\ visiting = NoClass /\ pending = {}
      /\ \A p \in Param : ~ Assigned(p)
    BY DEF Start, Assigned, NotAssigned
<1>3. KindInv /\ ApartInv /\ PathInv
    BY <1>2 DEF KindInv, ApartInv, PathInv
<1>4. UnseenInv
    BY <1>2 DEF UnseenInv
<1>5. TreeSlots /\ LatticeSlots /\ NoSharedInv
    BY <1>2 DEF TreeSlots, LatticeSlots, NoSharedInv, NoSharedSlot
<1> QED
    BY <1>1, <1>3, <1>4, <1>5 DEF Inv

\* The bases are those derived from the other direction's relation.
LEMMA BasesOf ==
    ASSUME NEW B \in Inheritances, derived = DerivedOf(B)
    PROVE  Above = B
<1>1. B \in [Class -> SUBSET Class] /\ \A c \in Class : c \notin B[c]
    BY InheritanceFacts
<1>2. \A c, d \in Class : d \in derived[c] <=> d = c \/ c \in B[d]
    BY DerivedFacts
<1>3. \A c \in Class : B[c] = { b \in Class \ {c} : c \in derived[b] }
    BY <1>1, <1>2
<1> QED
    BY <1>1, <1>3 DEF Above

\* In the specification of the component, no base is lost.
LEMMA InitLattice ==
    ASSUME Init
    PROVE  LatticeInv /\ IsComplete
<1>1. Above = bases
    BY BasesOf DEF Init
<1>2. bases \in [Class -> SUBSET Class]
    BY InheritanceFacts DEF Init
<1>3. directBases \in [Class -> SUBSET Class]
    BY <1>2 DEF Init, DirectOf
<1>4. \A c \in Class : DirectOf(bases)[c] \subseteq bases[c]
    BY DirectFacts DEF Init
<1> QED
    BY <1>1, <1>2, <1>3, <1>4 DEF Init, LatticeInv, IsComplete

LEMMA InitInv ==
    ASSUME Init
    PROVE  Inv
    BY InitLattice, StartInv DEF Init

LEMMA NextClassInv ==
    ASSUME Inv, NextClass
    PROVE  Inv'
<1> USE DEF Inv
<1>1. /\ frames = <<>> /\ Len(frames) = 0 /\ visiting = NoClass
      /\ UNCHANGED <<lattice, visiting, pending, nextSlot, marked, slots,
                     usedSlots, reservedSlots>>
    BY DEF NextClass, tables
<1>2. PICK c \in roots :
          /\ roots' = roots \ {c}
          /\ IF directBases[c] = {}
             THEN /\ kind' = IF InMultipleInheritance(c)
                             THEN "lattice" ELSE "tree"
                  /\ frames' = << [classes |-> {c}, base |-> 0] >>
             ELSE UNCHANGED <<kind, frames>>
    BY DEF NextClass
<1>3. c \in Class /\ roots \subseteq Class /\ pending = {}
    <2>1. roots \subseteq Class /\ pending \subseteq Param
        BY DEF WalkTypes
    <2>2. \A p \in pending : host[p] = NoClass /\ host[p] \in Class
        BY <1>1, <2>1 DEF UnseenInv, LatticeInv
    <2> QED
        BY <2>1, <2>2 DEF NoClass, Class
<1>4. /\ LatticeInv'
      /\ \A x : InTree(x)' <=> InTree(x)
      /\ Above' = Above /\ directBases' = directBases
      /\ derived' = derived /\ host' = host
      /\ \A p : Assigned(p)' <=> Assigned(p)
    BY <1>1, SameLattice DEF Assigned
<1>5. TreeSlots' /\ LatticeSlots' /\ NoSharedInv'
    BY <1>1, SameSlots
<1>6. CASE directBases[c] # {}
    <2>1. kind' = kind /\ frames' = frames /\ Len(frames') = 0
        BY <1>1, <1>2, <1>6
    <2>2. WalkTypes'
        BY <1>1, <1>2, <1>4, <2>1 DEF WalkTypes
    <2>3. KindInv' /\ ApartInv' /\ PathInv'
        BY <1>1, <2>1 DEF KindInv, ApartInv, PathInv
    <2>4. UnseenInv'
        BY <1>1, <1>2, <1>3, <1>4, <2>1 DEF UnseenInv
    <2> QED
        BY <1>4, <1>5, <2>2, <2>3, <2>4
<1>7. CASE directBases[c] = {}
    <2>1. /\ frames' = << [classes |-> {c}, base |-> 0] >>
          /\ kind' \in {"tree", "lattice"}
          /\ kind' = "tree" <=> InTree(c)
        BY <1>2, <1>3, <1>7, TreeFacts
    <2>2. /\ frames' \in Seq(Frame) /\ Len(frames') = 1
          /\ \A i \in 1 .. Len(frames') : i = 1 /\ frames'[i].classes = {c}
        BY <1>3, <2>1 DEF Frame
    <2>3. WalkTypes'
        BY <1>1, <1>2, <1>4, <2>1, <2>2 DEF WalkTypes
    <2>4. KindInv'
        BY <1>1, <1>4, <2>1, <2>2 DEF KindInv
    <2>5. ApartInv'
        <3>1. ASSUME NEW r \in roots, r # c, directBases[r] = {}, InTree(c)
              PROVE  derived[c] \cap derived[r] = {}
            BY <1>3, <1>7, <3>1, TreeFacts, LatticeFacts
        <3> QED
            BY <1>1, <1>2, <1>4, <2>1, <2>2, <3>1 DEF ApartInv
    <2>6. UnseenInv'
        <3>1. (\A r \in roots : directBases[r] = {} /\ InTree(r) =>
                 \A p \in Param : host[p] \in derived[r] => ~ Assigned(p))'
            BY <1>2, <1>4 DEF UnseenInv
        <3>2. InTree(c) => \A p \in Param : host[p] \in derived[c] => ~ Assigned(p)
            BY <1>7 DEF UnseenInv
        <3>3. (\A p \in Param : ~ InTree(host[p]) /\ host[p] \notin marked =>
                 ~ Assigned(p))'
            BY <1>1, <1>4 DEF UnseenInv
        <3>4. ASSUME kind' = "tree", NEW i \in 1 .. Len(frames'),
                     NEW x \in frames'[i].classes, NEW p \in Param,
                     host'[p] \in derived'[x]
              PROVE  ~ Assigned(p)'
            BY <1>4, <2>1, <2>2, <3>2, <3>4
        <3>5. visiting' = NoClass /\ pending' = {}
            BY <1>1, <1>3
        <3> QED
            BY <3>1, <3>3, <3>4, <3>5 DEF UnseenInv
    <2>7. PathInv'
        BY <1>1, <1>3, <1>4, <1>7, <2>2, LatticeFacts DEF PathInv
    <2> QED
        BY <1>4, <1>5, <2>3, <2>4, <2>5, <2>6, <2>7
<1> QED
    BY <1>6, <1>7

\* What a call does to the loops, in the terms the invariant uses.
LEMMA CallFacts ==
    ASSUME WalkTypes, NEW c \in Class, Call(c)
    PROVE  /\ visiting = NoClass
           /\ 1 \in 1 .. Len(frames) /\ Head(frames) = frames[1]
           /\ c \in frames[1].classes
           /\ frames' \in Seq(Frame) /\ Len(frames') = Len(frames)
           /\ frames'[1].classes = frames[1].classes \ {c}
           /\ \A i \in 1 .. Len(frames) :
                 /\ frames'[i].classes \subseteq frames[i].classes
                 /\ frames'[i].base = frames[i].base
           /\ frames[1].base \in Nat
<1>1. /\ frames \in Seq(Frame) /\ frames # <<>> /\ c \in Head(frames).classes
      /\ frames' = << [Head(frames) EXCEPT !.classes = @ \ {c}] >> \o Tail(frames)
      /\ visiting = NoClass
    BY DEF WalkTypes, Call
<1>2. PICK f : /\ f = [Head(frames) EXCEPT !.classes = @ \ {c}]
               /\ frames' = << f >> \o Tail(frames)
    BY <1>1
<1>3. /\ Head(frames) = frames[1] /\ 1 \in 1 .. Len(frames) /\ frames[1] \in Frame
      /\ f \in Frame /\ f.base = frames[1].base
      /\ f.classes = frames[1].classes \ {c}
    BY <1>1, <1>2, CalledFrame
<1>4. /\ frames' \in Seq(Frame) /\ Len(frames') = Len(frames)
      /\ frames'[1] = f
      /\ \A i \in 2 .. Len(frames) : frames'[i] = frames[i]
    BY <1>1, <1>2, <1>3, ReplacedFrame
<1>5. frames[1].base \in Nat /\ \A i \in 1 .. Len(frames) : i = 1 \/ i \in 2 .. Len(frames)
    BY <1>1, <1>3 DEF Frame
<1> QED
    BY <1>1, <1>3, <1>4, <1>5, Zenon

LEMMA EnterTreeClassInv ==
    ASSUME Inv, EnterTreeClass
    PROVE  Inv'
<1> USE DEF Inv
<1>1. PICK c \in Class :
          /\ Call(c)
          /\ visiting' = c
          /\ pending' = UsedByVp(c)
          /\ nextSlot' = Head(frames).base
    BY DEF EnterTreeClass
<1>2. /\ kind = "tree"
      /\ UNCHANGED <<lattice, phase, roots, kind, marked, slots, usedSlots,
                     reservedSlots>>
    BY DEF EnterTreeClass, tables
<1>3. /\ visiting = NoClass
      /\ 1 \in 1 .. Len(frames) /\ Head(frames) = frames[1]
      /\ c \in frames[1].classes
      /\ frames' \in Seq(Frame) /\ Len(frames') = Len(frames)
      /\ frames'[1].classes = frames[1].classes \ {c}
      /\ \A i \in 1 .. Len(frames) :
            /\ frames'[i].classes \subseteq frames[i].classes
            /\ frames'[i].base = frames[i].base
      /\ frames[1].base \in Nat
    BY <1>1, CallFacts
<1>4. /\ LatticeInv'
      /\ \A x : InTree(x)' <=> InTree(x)
      /\ Above' = Above /\ directBases' = directBases
      /\ derived' = derived /\ host' = host
      /\ \A p : Assigned(p)' <=> Assigned(p)
    BY <1>2, SameLattice DEF Assigned
<1>5. TreeSlots' /\ LatticeSlots' /\ NoSharedInv'
    BY <1>2, SameSlots
<1>6. WalkTypes'
    BY <1>1, <1>2, <1>3, <1>4 DEF WalkTypes, UsedByVp
<1>7. KindInv'
    BY <1>1, <1>2, <1>3, <1>4 DEF KindInv
<1>8. ApartInv'
    <2>1. ASSUME NEW i \in 1 .. Len(frames'), NEW x \in frames'[i].classes
          PROVE  derived[x] \cap derived[c] = {}
        <3>1. ~ (i = 1 /\ x = c)
            BY <1>3, <2>1
        <3> QED
            BY <1>2, <1>3, <2>1, <3>1 DEF ApartInv
    <2>2. ASSUME NEW i \in 1 .. Len(frames'), NEW j \in 1 .. Len(frames'),
                 NEW x \in frames'[i].classes, NEW y \in frames'[j].classes
          PROVE  (i = j /\ x = y) \/ derived[x] \cap derived[y] = {}
        BY <1>2, <1>3, <2>2 DEF ApartInv
    <2>3. ASSUME NEW r \in roots', directBases[r] = {}
          PROVE  /\ \A i \in 1 .. Len(frames') : \A x \in frames'[i].classes :
                        derived[x] \cap derived[r] = {}
                 /\ derived[c] \cap derived[r] = {}
        BY <1>2, <1>3, <2>3 DEF ApartInv
    <2> QED
        BY <1>1, <1>4, <2>1, <2>2, <2>3 DEF ApartInv
<1>9. UnseenInv'
    <2>1. ASSUME NEW i \in 1 .. Len(frames'), NEW x \in frames'[i].classes,
                 NEW p \in Param, host[p] \in derived[x]
          PROVE  ~ Assigned(p)
        BY <1>2, <1>3, <2>1 DEF UnseenInv
    <2>2. ASSUME NEW p \in Param, host[p] \in derived[c]
          PROVE  ~ Assigned(p)
        BY <1>2, <1>3, <2>2 DEF UnseenInv
    <2>3. \A p \in pending' : p \in Param /\ host[p] = c /\ c \in derived[c]
        BY <1>1, LatticeFacts DEF UsedByVp
    <2>4. (\A r \in roots : directBases[r] = {} /\ InTree(r) =>
              \A p \in Param : host[p] \in derived[r] => ~ Assigned(p))'
        BY <1>2, <1>4 DEF UnseenInv
    <2>5. (\A p \in Param : ~ InTree(host[p]) /\ host[p] \notin marked =>
              ~ Assigned(p))'
        BY <1>2, <1>4 DEF UnseenInv
    <2> QED
        BY <1>1, <1>2, <1>4, <2>1, <2>2, <2>3, <2>4, <2>5 DEF UnseenInv
<1>10. PathInv'
    <2>1. ASSUME NEW i \in 1 .. Len(frames'), NEW x \in frames'[i].classes,
                 NEW p \in Param, host[p] \in Above[x]
          PROVE  Assigned(p) /\ slots[p] < frames'[i].base
        BY <1>2, <1>3, <2>1 DEF PathInv
    <2>2. ASSUME NEW p \in Param,
                 host[p] \in Above[c] \/ (host[p] = c /\ p \notin pending')
          PROVE  Assigned(p) /\ slots[p] < nextSlot'
        BY <1>1, <1>2, <1>3, <2>2 DEF PathInv, UsedByVp
    <2> QED
        BY <1>1, <1>2, <1>4, <2>1, <2>2 DEF PathInv
<1> QED
    BY <1>4, <1>5, <1>6, <1>7, <1>8, <1>9, <1>10

LEMMA EnterLatticeClassInv ==
    ASSUME Inv, EnterLatticeClass
    PROVE  Inv'
<1> USE DEF Inv
<1>1. PICK c \in Class :
          /\ Call(c)
          /\ IF c \in marked
             THEN UNCHANGED <<visiting, pending, marked>>
             ELSE /\ visiting' = c
                  /\ pending' = UsedByVp(c)
                  /\ marked' = marked \cup {c}
    BY DEF EnterLatticeClass
<1>2. /\ kind = "lattice"
      /\ UNCHANGED <<lattice, phase, roots, kind, nextSlot, slots, usedSlots,
                     reservedSlots>>
    BY DEF EnterLatticeClass, tables
<1>3. /\ visiting = NoClass
      /\ 1 \in 1 .. Len(frames)
      /\ c \in frames[1].classes
      /\ frames' \in Seq(Frame) /\ Len(frames') = Len(frames)
      /\ \A i \in 1 .. Len(frames) :
            frames'[i].classes \subseteq frames[i].classes
    BY <1>1, CallFacts
<1>4. /\ LatticeInv'
      /\ \A x : InTree(x)' <=> InTree(x)
      /\ Above' = Above /\ directBases' = directBases
      /\ derived' = derived /\ host' = host
      /\ \A p : Assigned(p)' <=> Assigned(p)
    BY <1>2, SameLattice DEF Assigned
<1>5. TreeSlots' /\ LatticeSlots' /\ NoSharedInv'
    BY <1>2, SameSlots
<1>6. WalkTypes'
    BY <1>1, <1>2, <1>3, <1>4 DEF WalkTypes, UsedByVp
<1>7. ~ InTree(c)
    BY <1>2, <1>3 DEF KindInv
<1>8. KindInv'
    BY <1>1, <1>2, <1>3, <1>4, <1>7 DEF KindInv
<1>9. ApartInv' /\ PathInv'
    BY <1>2 DEF ApartInv, PathInv
<1>10. UnseenInv'
    <2>1. (\A r \in roots : directBases[r] = {} /\ InTree(r) =>
              \A p \in Param : host[p] \in derived[r] => ~ Assigned(p))'
        BY <1>2, <1>4 DEF UnseenInv
    <2>2. (\A p \in Param : ~ InTree(host[p]) /\ host[p] \notin marked =>
              ~ Assigned(p))'
        BY <1>1, <1>2, <1>4 DEF UnseenInv
    <2>3. CASE c \in marked
        BY <1>1, <1>2, <1>3, <1>4, <2>1, <2>2, <2>3 DEF UnseenInv
    <2>4. CASE c \notin marked
        <3>1. \A p \in pending' : p \in Param /\ host[p] = c
            BY <1>1, <2>4 DEF UsedByVp
        <3>2. \A p \in pending' : ~ Assigned(p)
            BY <1>7, <2>4, <3>1 DEF UnseenInv
        <3> QED
            BY <1>1, <1>2, <1>4, <2>1, <2>2, <2>4, <3>1, <3>2 DEF UnseenInv
    <2> QED
        BY <2>3, <2>4
<1> QED
    BY <1>4, <1>5, <1>6, <1>8, <1>9, <1>10

LEMMA AllocateInTreeInv ==
    ASSUME Inv, AllocateInTree
    PROVE  Inv'
<1> USE DEF Inv
<1>1. PICK p \in pending :
          /\ slots' = [slots EXCEPT ![p] = nextSlot]
          /\ nextSlot' = nextSlot + 1
          /\ pending' = pending \ {p}
    BY DEF AllocateInTree
<1>2. /\ kind = "tree" /\ visiting # NoClass
      /\ UNCHANGED <<lattice, phase, roots, kind, frames, visiting, marked,
                     usedSlots, reservedSlots>>
    BY DEF AllocateInTree
<1>3. /\ nextSlot \in Nat /\ visiting \in Class /\ p \in Param
      /\ pending \subseteq Param
      /\ slots \in [Param -> Nat \cup {NotAssigned}]
      /\ slots' \in [Param -> Nat \cup {NotAssigned}]
      /\ slots'[p] = nextSlot
      /\ \A q \in Param : q # p => slots'[q] = slots[q]
    BY <1>1, <1>2 DEF WalkTypes
<1>4. /\ LatticeInv'
      /\ \A x : InTree(x)' <=> InTree(x)
      /\ Above' = Above /\ directBases' = directBases
      /\ IsComplete' <=> IsComplete
      /\ derived' = derived /\ host' = host
      /\ host \in [Param -> Class]
    BY <1>2, SameLattice DEF LatticeInv
<1>5. /\ Assigned(p)' /\ ~ Assigned(p) /\ host[p] = visiting
      /\ \A q \in Param : q # p => (Assigned(q)' <=> Assigned(q))
    BY <1>3 DEF Assigned, NotAssigned, UnseenInv
<1>6. InTree(visiting)
    BY <1>2 DEF KindInv
<1>7. WalkTypes'
    BY <1>1, <1>2, <1>3, <1>4 DEF WalkTypes
<1>8. KindInv'
    BY <1>2, <1>4 DEF KindInv
<1>9. ApartInv'
    BY <1>2, <1>4 DEF ApartInv
<1>10. UnseenInv'
    <2>1. ASSUME NEW i \in 1 .. Len(frames), NEW x \in frames[i].classes,
                 NEW q \in Param, host[q] \in derived[x]
          PROVE  ~ Assigned(q)'
        <3>1. derived[x] \cap derived[visiting] = {} /\ visiting \in derived[visiting]
            BY <1>2, <1>3, LatticeFacts DEF ApartInv
        <3>2. q # p
            BY <1>5, <2>1, <3>1
        <3> QED
            BY <1>2, <1>5, <2>1, <3>2 DEF UnseenInv
    <2>2. ASSUME NEW q \in Param, host[q] \in derived[visiting], host[q] # visiting
          PROVE  ~ Assigned(q)'
        BY <1>2, <1>5, <2>2 DEF UnseenInv
    <2>3. ASSUME NEW r \in roots, directBases[r] = {}, InTree(r),
                 NEW q \in Param, host[q] \in derived[r]
          PROVE  ~ Assigned(q)'
        <3>1. derived[visiting] \cap derived[r] = {} /\ visiting \in derived[visiting]
            BY <1>2, <1>3, <2>3, LatticeFacts DEF ApartInv
        <3>2. q # p
            BY <1>5, <2>3, <3>1
        <3> QED
            BY <1>5, <2>3, <3>2 DEF UnseenInv
    <2>4. \A q \in pending' : host[q] = visiting /\ ~ Assigned(q)'
        BY <1>1, <1>3, <1>5 DEF UnseenInv
    <2>5. (\A q \in Param : ~ InTree(host[q]) /\ host[q] \notin marked =>
              ~ Assigned(q))'
        BY <1>2, <1>4, <1>5, <1>6 DEF UnseenInv
    <2> QED
        BY <1>2, <1>4, <2>1, <2>2, <2>3, <2>4, <2>5 DEF UnseenInv
<1>11. PathInv'
    <2>1. ASSUME NEW i \in 1 .. Len(frames), NEW x \in frames[i].classes,
                 NEW q \in Param, host[q] \in Above[x]
          PROVE  Assigned(q)' /\ slots'[q] < frames[i].base
        BY <1>2, <1>3, <1>5, <2>1 DEF PathInv
    <2>2. ASSUME NEW q \in Param,
                 host[q] \in Above[visiting] \/ (host[q] = visiting /\ q \notin pending')
          PROVE  Assigned(q)' /\ slots'[q] < nextSlot'
        <3>1. CASE q = p
            BY <1>1, <1>3, <1>5, <3>1
        <3>2. CASE q # p
            <4>1. Assigned(q) /\ slots[q] < nextSlot
                BY <1>1, <1>2, <2>2, <3>2 DEF PathInv
            <4>2. slots[q] \in Nat
                BY <1>3, <4>1 DEF Assigned
            <4> QED
                BY <1>1, <1>3, <1>5, <3>2, <4>1, <4>2
        <3> QED
            BY <3>1, <3>2
    <2> QED
        BY <1>2, <1>4, <2>1, <2>2 DEF PathInv
<1>12. TreeSlots'
    <2> SUFFICES ASSUME NEW a \in Param, NEW b \in Param,
                        InTree(host[b]), Assigned(b)'
                 PROVE  /\ host[a] \in Above[host[b]] =>
                              Assigned(a)' /\ slots'[a] < slots'[b]
                        /\ a # b /\ host[a] = host[b] /\ Assigned(a)' =>
                              slots'[a] # slots'[b]
        BY <1>4 DEF TreeSlots
    <2>1. visiting \notin Above[visiting]
        BY <1>3, LatticeFacts
    <2>2. \A q \in Param : host[q] = visiting /\ Assigned(q) => slots[q] < nextSlot
        BY <1>2 DEF PathInv, UnseenInv
    <2>3. CASE b = p
        <3>1. ASSUME host[a] \in Above[host[b]]
              PROVE  Assigned(a)' /\ slots'[a] < slots'[b]
            <4>1. a # p /\ Assigned(a) /\ slots[a] < nextSlot
                BY <1>2, <1>5, <2>1, <2>3, <3>1 DEF PathInv
            <4> QED
                BY <1>3, <1>5, <2>3, <4>1
        <3>2. ASSUME a # b, host[a] = host[b], Assigned(a)'
              PROVE  slots'[a] # slots'[b]
            <4>1. Assigned(a) /\ slots[a] < nextSlot
                BY <1>5, <2>2, <2>3, <3>2
            <4> QED
                BY <1>3, <2>3, <3>2, <4>1
        <3> QED
            BY <3>1, <3>2
    <2>4. CASE b # p
        <3>1. Assigned(b)
            BY <1>5, <2>4
        <3>2. ASSUME host[a] \in Above[host[b]]
              PROVE  Assigned(a)' /\ slots'[a] < slots'[b]
            <4>1. Assigned(a) /\ slots[a] < slots[b]
                BY <3>1, <3>2 DEF TreeSlots
            <4> QED
                BY <1>3, <1>5, <2>4, <4>1
        <3>3. ASSUME a # b, host[a] = host[b], Assigned(a)'
              PROVE  slots'[a] # slots'[b]
            <4>1. CASE a = p
                <5>1. slots[b] < nextSlot
                    BY <1>5, <2>2, <3>1, <3>3, <4>1
                <5> QED
                    BY <1>3, <2>4, <4>1, <5>1
            <4>2. CASE a # p
                BY <1>3, <1>5, <2>4, <3>1, <3>3, <4>2 DEF TreeSlots
            <4> QED
                BY <4>1, <4>2
        <3> QED
            BY <3>2, <3>3
    <2> QED
        BY <2>3, <2>4
<1>13. LatticeSlots'
    BY <1>2, <1>3, <1>4, <1>5, <1>6 DEF LatticeSlots
<1>14. NoSharedInv'
    <2> SUFFICES ASSUME IsComplete, NEW a \in Param, NEW b \in Param, a # b,
                        Assigned(a)', Assigned(b)',
                        derived[host[a]] \cap derived[host[b]] # {}
                 PROVE  slots'[a] # slots'[b]
        BY <1>4 DEF NoSharedInv, NoSharedSlot
    <2>1. CASE InTree(host[a])
        <3>1. \/ host[a] = host[b]
              \/ host[a] \in Above[host[b]]
              \/ host[b] \in Above[host[a]]
            BY <1>4, <2>1, TreeFacts
        <3>2. InTree(host[b])
            BY <1>4, <2>1, TreeFacts, LatticeFacts
        <3>3. slots'[a] \in Nat /\ slots'[b] \in Nat
            BY <1>3 DEF Assigned
        <3> QED
            BY <1>4, <1>12, <2>1, <3>1, <3>2, <3>3 DEF TreeSlots
    <2>2. CASE ~ InTree(host[a])
        <3>1. ~ InTree(host[b])
            BY <1>4, <2>2, TreeFacts, LatticeFacts
        <3>2. a # p /\ b # p
            BY <1>5, <1>6, <2>2, <3>1
        <3> QED
            BY <1>3, <1>5, <3>2 DEF NoSharedInv, NoSharedSlot
    <2> QED
        BY <2>1, <2>2
<1> QED
    BY <1>4, <1>7, <1>8, <1>9, <1>10, <1>11, <1>12, <1>13, <1>14

LEMMA AllocateInLatticeInv ==
    ASSUME Inv, AllocateInLattice
    PROVE  Inv'
<1> USE DEF Inv
<1> DEFINE v == visiting
<1>1. PICK p \in pending, s \in 0 .. NumParams :
          /\ IsFirstAvailable(s, v)
          /\ slots' = [slots EXCEPT ![p] = s]
          /\ pending' = pending \ {p}
          /\ LET inUse == usedSlots[v] \cup {s}
             IN  /\ usedSlots' = [c \in Class |->
                        IF c \in derived[v] \cup {v}
                        THEN usedSlots[c] \cup inUse ELSE usedSlots[c]]
                 /\ reservedSlots' = [c \in Class |->
                        IF c \in Surroundings(v)
                        THEN reservedSlots[c] \cup inUse
                        ELSE IF c = v THEN reservedSlots[c] \cup {s}
                        ELSE reservedSlots[c]]
    BY DEF AllocateInLattice
<1>2. /\ kind = "lattice" /\ v # NoClass
      /\ UNCHANGED <<lattice, phase, roots, kind, frames, visiting, nextSlot,
                     marked>>
    BY DEF AllocateInLattice
<1>3. /\ v \in Class /\ p \in Param /\ pending \subseteq Param
      /\ slots \in [Param -> Nat \cup {NotAssigned}]
      /\ slots' \in [Param -> Nat \cup {NotAssigned}]
      /\ slots'[p] = s /\ s \in Nat
      /\ \A q \in Param : q # p => slots'[q] = slots[q]
      /\ usedSlots \in [Class -> SUBSET (0 .. NumParams)]
      /\ reservedSlots \in [Class -> SUBSET (0 .. NumParams)]
    BY <1>1, <1>2, NumParamsAssumption DEF WalkTypes
<1>4. /\ LatticeInv'
      /\ \A x : InTree(x)' <=> InTree(x)
      /\ Above' = Above /\ directBases' = directBases
      /\ IsComplete' <=> IsComplete
      /\ derived' = derived /\ host' = host
      /\ host \in [Param -> Class]
    BY <1>2, SameLattice DEF LatticeInv
<1>5. /\ Assigned(p)' /\ ~ Assigned(p) /\ host[p] = v
      /\ \A q \in Param : q # p => (Assigned(q)' <=> Assigned(q))
    BY <1>3 DEF Assigned, NotAssigned, UnseenInv
<1>6. ~ InTree(v) /\ v \in marked
    BY <1>2 DEF KindInv, UnseenInv
<1>7. /\ \A c \in Class : usedSlots[c] \subseteq usedSlots'[c]
      /\ \A c \in Class : reservedSlots[c] \subseteq reservedSlots'[c]
      /\ \A c \in derived[v] : s \in usedSlots'[c]
      /\ IsComplete =>
            \A d \in derived[v] : \A b \in Above[d] : s \in reservedSlots'[b]
    <2> HIDE DEF v
    <2>1. \A d \in derived[v] : d \in Class
        BY <1>3, LatticeFacts
    <2>2. IsComplete => \A d \in derived[v] : \A b \in Above[d] :
                            b \in Surroundings(v) /\ b \in Class
        BY <1>3, <2>1, LatticeFacts DEF Surroundings, IsComplete
    <2> QED
        BY <1>1, <1>3, <2>1, <2>2
<1>8. WalkTypes'
    <2>1. /\ usedSlots' \in [Class -> SUBSET (0 .. NumParams)]
          /\ reservedSlots' \in [Class -> SUBSET (0 .. NumParams)]
        BY <1>1, <1>3
    <2> QED
        BY <1>1, <1>2, <1>3, <1>4, <2>1 DEF WalkTypes
<1>9. KindInv' /\ ApartInv' /\ PathInv'
    BY <1>2, <1>4 DEF KindInv, ApartInv, PathInv
<1>10. UnseenInv'
    <2>1. ASSUME NEW r \in roots, directBases[r] = {}, InTree(r),
                 NEW q \in Param, host[q] \in derived[r]
          PROVE  ~ Assigned(q)'
        <3>1. r \in Class
            BY DEF WalkTypes
        <3>2. q # p
            BY <1>5, <1>6, <2>1, <3>1, TreeFacts
        <3> QED
            BY <1>5, <2>1, <3>2 DEF UnseenInv
    <2>2. \A q \in pending' : host[q] = visiting /\ ~ Assigned(q)'
        BY <1>1, <1>3, <1>5 DEF UnseenInv
    <2>3. (\A q \in Param : ~ InTree(host[q]) /\ host[q] \notin marked =>
              ~ Assigned(q))'
        BY <1>2, <1>4, <1>5, <1>6 DEF UnseenInv
    <2> QED
        BY <1>2, <1>4, <1>6, <2>1, <2>2, <2>3 DEF UnseenInv
<1>11. TreeSlots'
    <2> SUFFICES ASSUME NEW a \in Param, NEW b \in Param,
                        InTree(host[b]), Assigned(b)'
                 PROVE  /\ host[a] \in Above[host[b]] =>
                              Assigned(a)' /\ slots'[a] < slots'[b]
                        /\ a # b /\ host[a] = host[b] /\ Assigned(a)' =>
                              slots'[a] # slots'[b]
        BY <1>4 DEF TreeSlots
    <2>1. b # p
        BY <1>5, <1>6
    <2>2. ASSUME host[a] \in Above[host[b]] \/ host[a] = host[b]
          PROVE  a # p
        <3>1. host[b] \in derived[host[a]]
            BY <1>4, <2>2, LatticeFacts
        <3>2. InTree(host[a])
            BY <1>4, <3>1, TreeFacts
        <3> QED
            BY <1>5, <1>6, <3>2
    <2> QED
        BY <1>3, <1>5, <2>1, <2>2 DEF TreeSlots
<1>12. LatticeSlots'
    <2> SUFFICES ASSUME NEW q \in Param, ~ InTree(host[q]), Assigned(q)',
                        NEW d \in derived[host[q]]
                 PROVE  /\ slots'[q] \in usedSlots'[d]
                        /\ IsComplete => \A b \in Above[d] : slots'[q] \in reservedSlots'[b]
        BY <1>4 DEF LatticeSlots
    <2>1. CASE q = p
        BY <1>3, <1>5, <1>7, <2>1
    <2>2. CASE q # p
        <3>1. d \in Class /\ \A b \in Above[d] : b \in Class
            BY <1>4, LatticeFacts
        <3>2. /\ slots[q] \in usedSlots[d]
              /\ IsComplete => \A b \in Above[d] : slots[q] \in reservedSlots[b]
            BY <1>5, <2>2 DEF LatticeSlots
        <3> QED
            BY <1>3, <1>7, <2>2, <3>1, <3>2
    <2> QED
        BY <2>1, <2>2
<1>13. NoSharedInv'
    <2>1. ASSUME IsComplete, NEW q \in Param, q # p, Assigned(q),
                 derived[host[q]] \cap derived[v] # {}
          PROVE  slots[q] # s
        <3>1. PICK d : d \in derived[host[q]] /\ d \in derived[v]
            BY <2>1
        <3>2. ~ InTree(host[q])
            BY <1>3, <1>4, <1>6, <3>1, TreeFacts
        <3>3. d = v \/ v \in Above[d]
            BY <1>3, <1>4, <3>1, LatticeFacts
        <3>4. slots[q] \in usedSlots[v] \/ slots[q] \in reservedSlots[v]
            BY <2>1, <3>1, <3>2, <3>3 DEF LatticeSlots
        <3> QED
            BY <1>1, <3>4 DEF IsFirstAvailable
    <2> QED
        BY <1>3, <1>4, <1>5, <2>1 DEF NoSharedInv, NoSharedSlot
<1> QED
    BY <1>4, <1>8, <1>9, <1>10, <1>11, <1>12, <1>13

LEMMA LeaveClassInv ==
    ASSUME Inv, LeaveClass
    PROVE  Inv'
<1> USE DEF Inv
<1> DEFINE f == [classes |-> DirectDerived(visiting), base |-> nextSlot]
<1>1. /\ visiting # NoClass /\ pending = {}
      /\ frames' = << f >> \o frames
      /\ visiting' = NoClass
      /\ UNCHANGED <<lattice, phase, roots, kind, pending, nextSlot, marked,
                     slots, usedSlots, reservedSlots>>
    BY DEF LeaveClass
<1>2. /\ visiting \in Class /\ nextSlot \in Nat /\ frames \in Seq(Frame)
      /\ roots \subseteq Class
    BY <1>1 DEF WalkTypes
<1>3. /\ LatticeInv'
      /\ \A x : InTree(x)' <=> InTree(x)
      /\ Above' = Above /\ directBases' = directBases
      /\ derived' = derived /\ host' = host
      /\ host \in [Param -> Class]
      /\ \A p : Assigned(p)' <=> Assigned(p)
    BY <1>1, SameLattice DEF LatticeInv, Assigned
<1>4. TreeSlots' /\ LatticeSlots' /\ NoSharedInv'
    BY <1>1, SameSlots
<1>5. /\ f \in Frame
      /\ f.classes = DirectDerived(visiting) /\ f.base = nextSlot
    BY <1>2 DEF Frame, DirectDerived
<1> HIDE DEF f
<1>6. /\ frames' \in Seq(Frame) /\ Len(frames') = Len(frames) + 1
      /\ frames'[1] = f
      /\ \A i \in 2 .. Len(frames') :
            i - 1 \in 1 .. Len(frames) /\ frames'[i] = frames[i - 1]
    BY <1>1, <1>2, <1>5, PushFrame
\* An entry of the stack is one of the new loop or one that was there.
<1>7. ASSUME NEW i \in 1 .. Len(frames')
      PROVE  \/ i = 1 /\ frames'[i] = f
             \/ i # 1 /\ i - 1 \in 1 .. Len(frames) /\ frames'[i] = frames[i - 1]
    BY <1>2, <1>6
<1>8. ASSUME NEW x \in f.classes
      PROVE  /\ x \in Class /\ visiting \in directBases[x] /\ visiting \in Above[x]
             /\ derived[x] \subseteq derived[visiting] /\ visiting \notin derived[x]
             /\ InTree(x) <=> InTree(visiting)
             /\ InTree(x) => Above[x] = {visiting} \cup Above[visiting]
    <2>1. x \in Class /\ visiting \in directBases[x] /\ visiting \in Above[x]
        BY <1>2, <1>5, <1>8, LatticeFacts DEF DirectDerived
    <2>2. x \in derived[visiting] /\ derived[x] \subseteq derived[visiting]
        BY <1>2, <2>1, LatticeFacts
    <2>3. visiting \notin derived[x]
        BY <1>2, <2>1, LatticeFacts
    <2>4. InTree(x) <=> InTree(visiting)
        BY <1>2, <2>2, TreeFacts
    <2>5. InTree(x) => Above[x] = {visiting} \cup Above[visiting]
        BY <2>1, TreeFacts
    <2> QED
        BY <2>1, <2>2, <2>3, <2>4, <2>5
<1>9. WalkTypes'
    BY <1>1, <1>3, <1>6 DEF WalkTypes
<1>10. KindInv'
    <2>1. ASSUME NEW i \in 1 .. Len(frames'), NEW x \in frames'[i].classes
          PROVE  InTree(x) <=> kind = "tree"
        BY <1>1, <1>7, <1>8, <2>1 DEF KindInv
    <2> QED
        BY <1>1, <1>3, <2>1 DEF KindInv
<1>11. ApartInv'
    <2> SUFFICES ASSUME kind = "tree"
                 PROVE  ApartInv'
        BY <1>1 DEF ApartInv
    <2>1. InTree(visiting)
        BY <1>1 DEF KindInv
    <2>2. ASSUME NEW x \in f.classes, NEW y \in f.classes, x # y
          PROVE  derived[x] \cap derived[y] = {}
        BY <1>8, <2>1, <2>2, TreeFacts
    <2>3. ASSUME NEW x \in f.classes,
                 NEW j \in 1 .. Len(frames), NEW y \in frames[j].classes
          PROVE  derived[x] \cap derived[y] = {} /\ derived[y] \cap derived[x] = {}
        BY <1>1, <1>8, <2>3 DEF ApartInv
    <2>4. ASSUME NEW i \in 1 .. Len(frames), NEW x \in frames[i].classes,
                 NEW j \in 1 .. Len(frames), NEW y \in frames[j].classes
          PROVE  (i = j /\ x = y) \/ derived[x] \cap derived[y] = {}
        BY <2>4 DEF ApartInv
    <2>5. ASSUME NEW i \in 1 .. Len(frames'), NEW j \in 1 .. Len(frames'),
                 NEW x \in frames'[i].classes, NEW y \in frames'[j].classes
          PROVE  (i = j /\ x = y) \/ derived[x] \cap derived[y] = {}
        <3>1. CASE i = 1 /\ j = 1
            <4>1. x \in f.classes /\ y \in f.classes
                BY <1>7, <3>1
            <4> QED
                BY <2>2, <3>1, <4>1
        <3>2. CASE i = 1 /\ j # 1
            <4>1. x \in f.classes
                BY <1>7, <3>2
            <4>2. j - 1 \in 1 .. Len(frames) /\ y \in frames[j - 1].classes
                BY <1>7, <3>2
            <4> QED
                BY <2>3, <4>1, <4>2
        <3>3. CASE i # 1 /\ j = 1
            <4>1. y \in f.classes
                BY <1>7, <3>3
            <4>2. i - 1 \in 1 .. Len(frames) /\ x \in frames[i - 1].classes
                BY <1>7, <3>3
            <4> QED
                BY <2>3, <4>1, <4>2
        <3>4. CASE i # 1 /\ j # 1
            <4>1. /\ i - 1 \in 1 .. Len(frames) /\ x \in frames[i - 1].classes
                  /\ j - 1 \in 1 .. Len(frames) /\ y \in frames[j - 1].classes
                BY <1>7, <2>5, <3>4
            <4>2. (i - 1 = j - 1 /\ x = y) \/ derived[x] \cap derived[y] = {}
                BY <2>4, <4>1
            <4> QED
                BY <4>2
        <3> QED
            BY <3>1, <3>2, <3>3, <3>4
    <2>6. ASSUME NEW r \in roots, directBases[r] = {},
                 NEW i \in 1 .. Len(frames'), NEW x \in frames'[i].classes
          PROVE  derived[x] \cap derived[r] = {}
        BY <1>1, <1>7, <1>8, <2>6 DEF ApartInv
    <2> QED
        BY <1>1, <1>3, <2>5, <2>6 DEF ApartInv
<1>12. UnseenInv'
    <2>1. ASSUME kind = "tree", NEW i \in 1 .. Len(frames'),
                 NEW x \in frames'[i].classes,
                 NEW p \in Param, host[p] \in derived[x]
          PROVE  ~ Assigned(p)
        BY <1>1, <1>7, <1>8, <2>1 DEF UnseenInv
    <2>2. (\A r \in roots : directBases[r] = {} /\ InTree(r) =>
              \A p \in Param : host[p] \in derived[r] => ~ Assigned(p))'
        BY <1>1, <1>3 DEF UnseenInv
    <2>3. (\A p \in Param : ~ InTree(host[p]) /\ host[p] \notin marked =>
              ~ Assigned(p))'
        BY <1>1, <1>3 DEF UnseenInv
    <2> QED
        BY <1>1, <1>3, <2>1, <2>2, <2>3 DEF UnseenInv
<1>13. PathInv'
    <2>1. ASSUME kind = "tree", NEW i \in 1 .. Len(frames'),
                 NEW x \in frames'[i].classes,
                 NEW p \in Param, host[p] \in Above[x]
          PROVE  Assigned(p) /\ slots[p] < frames'[i].base
        <3>1. CASE i = 1
            <4>1. x \in f.classes /\ frames'[i].base = nextSlot
                BY <1>5, <1>7, <2>1, <3>1
            <4>2. host[p] = visiting \/ host[p] \in Above[visiting]
                BY <1>1, <1>8, <2>1, <4>1 DEF KindInv
            <4> QED
                BY <1>1, <2>1, <4>1, <4>2 DEF PathInv
        <3>2. CASE i # 1
            BY <1>7, <2>1, <3>2 DEF PathInv
        <3> QED
            BY <3>1, <3>2
    <2> QED
        BY <1>1, <1>3, <2>1 DEF PathInv
<1> QED
    BY <1>3, <1>4, <1>9, <1>10, <1>11, <1>12, <1>13

LEMMA ReturnInv ==
    ASSUME Inv, Return
    PROVE  Inv'
<1> USE DEF Inv
<1>1. /\ visiting = NoClass /\ frames # <<>> /\ frames' = Tail(frames)
      /\ UNCHANGED <<lattice, phase, roots, kind, visiting, pending, nextSlot,
                     marked, slots, usedSlots, reservedSlots>>
    BY DEF Return, tables
<1>2. /\ LatticeInv'
      /\ \A x : InTree(x)' <=> InTree(x)
      /\ Above' = Above /\ directBases' = directBases
      /\ derived' = derived /\ host' = host
      /\ \A p : Assigned(p)' <=> Assigned(p)
    BY <1>1, SameLattice DEF Assigned
<1>3. TreeSlots' /\ LatticeSlots' /\ NoSharedInv'
    BY <1>1, SameSlots
<1>4. frames \in Seq(Frame)
    BY DEF WalkTypes
<1>5. /\ frames' \in Seq(Frame)
      /\ \A i \in 1 .. Len(frames') :
            i + 1 \in 1 .. Len(frames) /\ frames'[i] = frames[i + 1]
    BY <1>1, <1>4, PopFrame
<1>6. WalkTypes'
    BY <1>1, <1>2, <1>5 DEF WalkTypes
<1>7. KindInv'
    BY <1>1, <1>2, <1>5 DEF KindInv
<1>8. ApartInv'
    <2>1. ASSUME kind = "tree",
                 NEW i \in 1 .. Len(frames'), NEW j \in 1 .. Len(frames'),
                 NEW x \in frames'[i].classes, NEW y \in frames'[j].classes
          PROVE  (i = j /\ x = y) \/ derived[x] \cap derived[y] = {}
        <3>1. /\ i + 1 \in 1 .. Len(frames) /\ x \in frames[i + 1].classes
              /\ j + 1 \in 1 .. Len(frames) /\ y \in frames[j + 1].classes
            BY <1>5
        <3>2. (i + 1 = j + 1 /\ x = y) \/ derived[x] \cap derived[y] = {}
            BY <2>1, <3>1 DEF ApartInv
        <3> QED
            BY <3>2
    <2>2. ASSUME kind = "tree", NEW r \in roots, directBases[r] = {},
                 NEW i \in 1 .. Len(frames'), NEW x \in frames'[i].classes
          PROVE  derived[x] \cap derived[r] = {}
        BY <1>5, <2>2 DEF ApartInv
    <2> QED
        BY <1>1, <1>2, <2>1, <2>2 DEF ApartInv
<1>9. UnseenInv'
    <2>1. ASSUME kind = "tree", NEW i \in 1 .. Len(frames'),
                 NEW x \in frames'[i].classes,
                 NEW p \in Param, host[p] \in derived[x]
          PROVE  ~ Assigned(p)
        BY <1>5, <2>1 DEF UnseenInv
    <2>2. (\A r \in roots : directBases[r] = {} /\ InTree(r) =>
              \A p \in Param : host[p] \in derived[r] => ~ Assigned(p))'
        BY <1>1, <1>2 DEF UnseenInv
    <2>3. (\A p \in pending : host[p] = visiting /\ ~ Assigned(p))'
        BY <1>1, <1>2 DEF UnseenInv
    <2>4. (\A p \in Param : ~ InTree(host[p]) /\ host[p] \notin marked =>
              ~ Assigned(p))'
        BY <1>1, <1>2 DEF UnseenInv
    <2> QED
        BY <1>1, <1>2, <2>1, <2>2, <2>3, <2>4 DEF UnseenInv
<1>10. PathInv'
    <2>1. ASSUME kind = "tree", NEW i \in 1 .. Len(frames'),
                 NEW x \in frames'[i].classes,
                 NEW p \in Param, host[p] \in Above[x]
          PROVE  Assigned(p) /\ slots[p] < frames'[i].base
        BY <1>5, <2>1 DEF PathInv
    <2> QED
        BY <1>1, <1>2, <2>1 DEF PathInv
<1> QED
    BY <1>2, <1>3, <1>6, <1>7, <1>8, <1>9, <1>10

\* A step that changes nothing but the phase and the v-tables.
LEMMA SameWalkInv ==
    ASSUME Inv,
           UNCHANGED <<lattice, roots, kind, frames, visiting, pending,
                       nextSlot, marked, slots, usedSlots, reservedSlots>>
    PROVE  Inv'
<1> USE DEF Inv
<1>1. /\ LatticeInv'
      /\ \A x : InTree(x)' <=> InTree(x)
      /\ Above' = Above /\ directBases' = directBases
      /\ derived' = derived /\ host' = host
      /\ \A p : Assigned(p)' <=> Assigned(p)
    BY SameLattice DEF Assigned
<1>2. TreeSlots' /\ LatticeSlots' /\ NoSharedInv'
    BY SameSlots
<1>3. WalkTypes'
    BY <1>1 DEF WalkTypes
<1>4. KindInv'
    BY <1>1 DEF KindInv
<1>5. ApartInv'
    BY <1>1 DEF ApartInv
<1>6. UnseenInv'
    BY <1>1 DEF UnseenInv
<1>7. PathInv'
    BY <1>1 DEF PathInv
<1> QED
    BY <1>1, <1>2, <1>3, <1>4, <1>5, <1>6, <1>7

LEMMA NextInv ==
    ASSUME Inv, [Next]_vars
    PROVE  Inv'
<1>1. CASE NextClass
    BY <1>1, NextClassInv
<1>2. CASE EnterTreeClass
    BY <1>2, EnterTreeClassInv
<1>3. CASE EnterLatticeClass
    BY <1>3, EnterLatticeClassInv
<1>4. CASE AllocateInTree
    BY <1>4, AllocateInTreeInv
<1>5. CASE AllocateInLattice
    BY <1>5, AllocateInLatticeInv
<1>6. CASE LeaveClass
    BY <1>6, LeaveClassInv
<1>7. CASE Return
    BY <1>7, ReturnInv
<1>8. CASE AllocateVtables
    BY <1>8, SameWalkInv DEF AllocateVtables
<1>9. CASE UNCHANGED vars
    BY <1>9, SameWalkInv DEF vars, walk, tables
<1> QED
    BY <1>1, <1>2, <1>3, <1>4, <1>5, <1>6, <1>7, <1>8, <1>9
       DEF Next, Step, Finished

-----------------------------------------------------------------------------
(* The theorems *)

\* The inductive invariant holds in every run, for every lattice, every number
\* of parameters and every placement of them.
THEOREM Invariance == Spec => []Inv
<1>1. Init => Inv
    BY InitInv
<1>2. Inv /\ [Next]_vars => Inv'
    BY NextInv
<1> QED
    BY <1>1, <1>2, PTL DEF Spec

\* No step changes the lattice.
LEMMA LatticeStays ==
    ASSUME [Next]_vars
    PROVE  UNCHANGED lattice
BY DEF Next, Step, Finished, vars, NextClass, EnterTreeClass, EnterLatticeClass,
       AllocateInTree, AllocateInLattice, LeaveClass, Return, AllocateVtables

LEMMA Completeness == Spec => []IsComplete
<1>1. Init => IsComplete
    BY InitLattice
<1>2. IsComplete /\ [Next]_vars => IsComplete'
    BY LatticeStays DEF lattice, IsComplete, Above
<1> QED
    BY <1>1, <1>2, PTL DEF Spec

\* No two parameters that some class needs entries for ever share a slot,
\* whichever of the two algorithms gave them theirs.
THEOREM SlotsAreNeverShared == Spec => []NoSharedSlot
<1>1. Inv /\ IsComplete => NoSharedSlot
    BY DEF Inv, NoSharedInv
<1> QED
    BY <1>1, Invariance, Completeness, PTL

\* A set of naturals with an upper bound has a least and a greatest member.
LEMMA SmallestMember ==
    ASSUME NEW S, S \subseteq Nat, S # {}
    PROVE  SmallestOf(S) \in S /\ \A y \in S : SmallestOf(S) <= y
<1>1. \E x \in S : \A y \in S : x <= y
    BY LeastMember
<1> QED
    BY <1>1 DEF SmallestOf

LEMMA LargestMember ==
    ASSUME NEW n \in Nat, NEW S, S \subseteq 0 .. n, S # {}
    PROVE  LargestOf(S) \in S /\ \A y \in S : y <= LargestOf(S)
<1> DEFINE T == { n - y : y \in S }
<1>1. T \subseteq Nat /\ T # {}
    OBVIOUS
<1>2. PICK t \in T : \A u \in T : t <= u
    BY <1>1, SmallestMember
<1>3. PICK x \in S : t = n - x
    BY <1>2
<1>4. \A y \in S : n - y \in T
    OBVIOUS
<1>5. \A y \in S : y <= x
    <2> SUFFICES ASSUME NEW y \in S
                 PROVE  y <= x
        OBVIOUS
    <2>1. n - x <= n - y
        BY <1>2, <1>3, <1>4
    <2> QED
        BY <2>1
<1>6. \E z \in S : \A y \in S : y <= z
    BY <1>5
<1> QED
    BY <1>6 DEF LargestOf

\* The v-tables stay of the types they are declared with.
LEMMA TablesInv ==
    ASSUME Inv, TableTypes, [Next]_vars
    PROVE  TableTypes'
<1> USE NumParamsAssumption DEF Inv, TableTypes
<1>1. CASE LeaveClass
    <2>1. nextSlot \in Nat
        BY DEF WalkTypes
    <2> QED
        BY <1>1, <2>1 DEF LeaveClass
<1>2. CASE AllocateVtables
    <2>1. ASSUME NEW c \in Class, usedSlots[c] # {}
          PROVE  SmallestOf(usedSlots[c]) \in Nat /\ TrimmedSize(usedSlots[c]) \in Nat
        <3>1. usedSlots[c] \subseteq 0 .. NumParams
            BY DEF WalkTypes
        <3>2. usedSlots[c] \subseteq Nat
            BY <3>1
        <3>3. /\ SmallestOf(usedSlots[c]) \in usedSlots[c]
              /\ \A y \in usedSlots[c] : SmallestOf(usedSlots[c]) <= y
            BY <2>1, <3>2, SmallestMember
        <3>4. LargestOf(usedSlots[c]) \in usedSlots[c]
            BY <2>1, <3>1, LargestMember
        <3>5. SmallestOf(usedSlots[c]) <= LargestOf(usedSlots[c])
            BY <3>3, <3>4
        <3> QED
            BY <3>2, <3>3, <3>4, <3>5 DEF TrimmedSize
    <2> QED
        BY <1>2, <2>1 DEF AllocateVtables
<1>3. CASE UNCHANGED <<phase, firstSlot, vtblSize>>
    BY <1>3
<1> QED
    BY <1>1, <1>2, <1>3
       DEF Next, Step, Finished, vars, walk, tables, NextClass, EnterTreeClass,
           EnterLatticeClass, AllocateInTree, AllocateInLattice, Return

\* The type invariant is part of the inductive one.
LEMMA TypesFollow ==
    ASSUME Inv, TableTypes
    PROVE  TypeOK
<1>1. LatticeInv /\ WalkTypes
    BY DEF Inv
<1>2. derived \in [Class -> SUBSET Class]
    BY <1>1 DEF LatticeInv, DerivedOf
<1>3. usedSlots \in [Class -> SUBSET Nat] /\ reservedSlots \in [Class -> SUBSET Nat]
    BY <1>1, NumParamsAssumption DEF WalkTypes
<1> QED
    BY <1>1, <1>2, <1>3 DEF TypeOK, TableTypes, LatticeInv, WalkTypes, Frame

\* Every variable stays of its type; in particular the scan for a free slot
\* never leaves the NumParams + 1 bits it is given.
THEOREM TypeCorrectness == Spec => []TypeOK
<1>1. Init => TableTypes
    BY DEF Init, Start, TableTypes
<1>2. Inv /\ TableTypes /\ [Next]_vars => TableTypes'
    BY TablesInv
<1>3. Inv /\ TableTypes => TypeOK
    BY TypesFollow
<1> QED
    BY <1>1, <1>2, <1>3, Invariance, PTL DEF Spec

\* A step that gives p a slot is a step of the abstract allocation.
LEMMA AllocationStep ==
    ASSUME Inv, NoSharedSlot', NEW p \in pending, NEW s \in Nat,
           slots' = [slots EXCEPT ![p] = s],
           UNCHANGED lattice
    PROVE  Allocation!Next
<1>1. /\ p \in Param /\ ~ Assigned(p)
      /\ slots \in [Param -> Nat \cup {NotAssigned}]
      /\ derived' = derived /\ host' = host
    BY DEF Inv, WalkTypes, UnseenInv, lattice
<1>2. /\ slots'[p] = s
      /\ \A q \in Param \ {p} : slots'[q] = slots[q]
      /\ slots' = [slots EXCEPT ![p] = slots'[p]]
    BY <1>1
<1>3. ASSUME NEW q \in Param \ {p}, Assigned(q),
             derived[host[p]] \cap derived[host[q]] # {}
      PROVE  slots[q] # slots'[p]
    <2>1. Assigned(p)' /\ Assigned(q)'
        BY <1>1, <1>2, <1>3 DEF Assigned, NotAssigned
    <2> QED
        BY <1>1, <1>2, <1>3, <2>1 DEF NoSharedSlot
<1>4. Allocation!Allocate(p)
    BY <1>1, <1>2, <1>3
       DEF Allocation!Allocate, Allocation!Assigned, Allocation!Meet,
           Allocation!NotAssigned, Assigned, NotAssigned
<1> QED
    BY <1>1, <1>4 DEF Allocation!Next

\* assign_slots implements the abstract allocation: the slots it gives out are
\* free of conflict at every moment and are never taken back or changed.
THEOREM AllocationIsImplemented == Spec => ImplementsAllocation
<1>1. Init => Allocation!Init
    BY DEF Init, Start, Allocation!Init, NotAssigned, Allocation!NotAssigned
<1>2. Inv /\ NoSharedSlot' /\ [Next]_vars => [Allocation!Next]_<<derived, host, slots>>
    <2> SUFFICES ASSUME Inv, NoSharedSlot', [Next]_vars
                 PROVE  Allocation!Next \/ UNCHANGED <<derived, host, slots>>
        OBVIOUS
    <2>1. CASE AllocateInTree
        <3>1. PICK p \in pending : slots' = [slots EXCEPT ![p] = nextSlot]
            BY <2>1 DEF AllocateInTree
        <3>2. nextSlot \in Nat /\ UNCHANGED lattice
            BY <2>1 DEF Inv, WalkTypes, AllocateInTree
        <3> QED
            BY <3>1, <3>2, AllocationStep
    <2>2. CASE AllocateInLattice
        <3>1. PICK p \in pending, s \in 0 .. NumParams :
                  slots' = [slots EXCEPT ![p] = s]
            BY <2>2 DEF AllocateInLattice
        <3>2. s \in Nat /\ UNCHANGED lattice
            BY <2>2, NumParamsAssumption DEF AllocateInLattice
        <3> QED
            BY <3>1, <3>2, AllocationStep
    <2>3. CASE UNCHANGED <<derived, host, slots>>
        BY <2>3
    <2> QED
        BY <2>1, <2>2, <2>3
           DEF Next, Step, Finished, vars, lattice, tables, NextClass,
               EnterTreeClass, EnterLatticeClass, LeaveClass, Return,
               AllocateVtables
<1> QED
    BY <1>1, <1>2, Invariance, SlotsAreNeverShared, PTL
       DEF Spec, ImplementsAllocation, Allocation!Spec

-----------------------------------------------------------------------------
(****************************************************************************)
(* When assign_slots ends, every parameter has a slot and every v-table has *)
(* exactly the size its parameters need, for every lattice and every number *)
(* of parameters.                                                           *)
(*                                                                          *)
(* Two invariants say that the walk forgets nothing.  In a tree every class *)
(* is ahead of the walk, at work, or settled: SettledInv.  In a lattice a   *)
(* class may be come to several times and is skipped but once; there the    *)
(* marks say what is done, and every class below a marked one is marked     *)
(* itself or still in a loop: ReachInv.                                     *)
(****************************************************************************)

\* The walk has yet to enter class c of a tree.
Ahead(c) ==
    \/ \E r \in roots : directBases[r] = {} /\ c \in derived[r]
    \/ \E i \in 1 .. Len(frames) : \E x \in frames[i].classes : c \in derived[x]
    \/ visiting # NoClass /\ c \in derived[visiting] /\ c # visiting

\* Class c has an entry, in slot s, for one of its parameters or its bases'.
Uses(c, s) == \E p \in Param : c \in derived[host[p]] /\ slots[p] = s

\* The v-table of c is made of the slots of its parameters, with no gap.
Settled(c) ==
    /\ \A p \in Param : c \in derived[host[p]] =>
          Assigned(p) /\ slots[p] < vtblSize[c]
    /\ \A s \in Nat : s < vtblSize[c] => Uses(c, s)

SettledInv ==
    \A c \in Class : InTree(c) => Ahead(c) \/ c = visiting \/ Settled(c)

\* In a tree, the slots below the next one are all in use on the path to the
\* class at work, as are those below the first slot of a class ahead.
DenseInv ==
    kind = "tree" =>
        /\ \A i \in 1 .. Len(frames) : \A x \in frames[i].classes :
              \A s \in Nat : s < frames[i].base =>
                 \E p \in Param : host[p] \in Above[x] /\ slots[p] = s
        /\ visiting # NoClass =>
              \A s \in Nat : s < nextSlot =>
                 \E p \in Param :
                    /\ host[p] \in Above[visiting] \/ host[p] = visiting
                    /\ slots[p] = s

\* In a lattice, no class is lost between its bases' marks and its own, and no
\* parameter of a marked class is.
ReachInv ==
    /\ \A c \in Class : ~ InTree(c) /\ c \notin marked =>
          /\ directBases[c] = {} =>
                c \in roots \/ \E i \in 1 .. Len(frames) : c \in frames[i].classes
          /\ \A b \in directBases[c] : b \in marked =>
                b = visiting \/ \E i \in 1 .. Len(frames) : c \in frames[i].classes
    /\ \A p \in Param : ~ InTree(host[p]) /\ host[p] \in marked =>
          Assigned(p) \/ p \in pending

\* The used mask of a class holds no slot but those of its parameters, and of
\* its bases'; the classes of trees have none.
UsedInv ==
    \A c \in Class : \A s \in usedSlots[c] :
        \E p \in Param :
            ~ InTree(host[p]) /\ Assigned(p) /\ c \in derived[host[p]] /\ slots[p] = s

\* The v-tables of lattices are not made before the walk ends.
UntrimmedInv ==
    phase = "walk" =>
        \A c \in Class : firstSlot[c] = 0 /\ (~ InTree(c) => vtblSize[c] = 0)

StoppedInv == phase = "done" => frames = <<>> /\ visiting = NoClass

WalkInv ==
    /\ Inv
    /\ TableTypes
    /\ SettledInv
    /\ DenseInv
    /\ ReachInv
    /\ UsedInv
    /\ UntrimmedInv
    /\ StoppedInv

\* What the v-table of class c is like in the end.
Fits(c) ==
    /\ \A p \in Param : c \in derived[host[p]] =>
          /\ Assigned(p)
          /\ firstSlot[c] <= slots[p] /\ slots[p] < firstSlot[c] + vtblSize[c]
    /\ vtblSize[c] # 0 =>
          Uses(c, firstSlot[c]) /\ Uses(c, firstSlot[c] + vtblSize[c] - 1)

FitsInv == phase = "done" => \A c \in Class : Fits(c)

-----------------------------------------------------------------------------
(* What the walk does to what lies ahead *)

\* Between a class and one that derives from it lies a direct heir.
LEMMA DirectHeir ==
    ASSUME LatticeInv, NEW c \in Class, NEW d \in derived[c], d # c
    PROVE  \E x \in DirectDerived(c) : d \in derived[x]
<1> DEFINE S == { x \in Class : c \in Above[x] /\ d \in derived[x] }
<1>1. d \in Class /\ c \in Above[d] /\ d \in derived[d]
    BY LatticeFacts
<1>2. S \subseteq Class /\ S # {} /\ Above \in Inheritances
    BY <1>1 DEF LatticeInv
<1> HIDE DEF S
<1>3. PICK m \in S : Above[m] \cap S = {}
    BY <1>2, MostBasicMember
<1>4. m \in Class /\ c \in Above[m] /\ d \in derived[m]
    BY <1>3 DEF S
<1>5. \A e \in Above[m] : c \notin Above[e]
    <2>1. SUFFICES ASSUME NEW e \in Above[m], c \in Above[e] PROVE FALSE
        OBVIOUS
    <2>2. e \in Class /\ m \in derived[e]
        BY <1>4, <2>1, LatticeFacts
    <2>3. d \in derived[e]
        BY <1>4, <2>2, LatticeFacts
    <2>4. e \in S
        BY <2>1, <2>2, <2>3 DEF S
    <2> QED
        BY <1>3, <2>1, <2>4
<1>6. c \in directBases[m]
    BY <1>4, <1>5 DEF LatticeInv, DirectOf
<1> QED
    BY <1>4, <1>6 DEF DirectDerived

\* A class that has bases has one without any among them, and a direct base
\* that is that one or derives from it.
LEMMA HasRoot ==
    ASSUME LatticeInv, NEW c \in Class
    PROVE  \E r \in Class : directBases[r] = {} /\ c \in derived[r]
<1> DEFINE S == {c} \cup Above[c]
<1>1. S \subseteq Class /\ S # {} /\ Above \in Inheritances
    BY LatticeFacts DEF LatticeInv
<1>2. c \in S /\ \A x \in S : x \in Class /\ c \in derived[x] /\ Above[x] \subseteq S
    BY <1>1, LatticeFacts
<1> HIDE DEF S
<1>3. PICK r \in S : Above[r] \cap S = {}
    BY <1>1, MostBasicMember
<1>4. r \in Class /\ c \in derived[r] /\ Above[r] = {}
    BY <1>2, <1>3
<1>5. directBases[r] = {}
    BY <1>4, LatticeFacts
<1> QED
    BY <1>4, <1>5

\* A call leaves every class but the called one where it is.
LEMMA CallKeeps ==
    ASSUME WalkTypes, NEW c \in Class, Call(c)
    PROVE  /\ Len(frames') = Len(frames)
           /\ \A i \in 1 .. Len(frames) : \A x \in frames[i].classes :
                 x # c => x \in frames'[i].classes
<1>1. /\ frames \in Seq(Frame) /\ frames # <<>>
      /\ frames' = << [Head(frames) EXCEPT !.classes = @ \ {c}] >> \o Tail(frames)
    BY DEF WalkTypes, Call
<1>2. PICK f : /\ f = [Head(frames) EXCEPT !.classes = @ \ {c}]
               /\ frames' = << f >> \o Tail(frames)
    BY <1>1
<1>3. /\ f \in Frame /\ f.classes = frames[1].classes \ {c}
    BY <1>1, <1>2, CalledFrame
<1>4. /\ Len(frames') = Len(frames) /\ frames'[1] = f
      /\ \A i \in 2 .. Len(frames) : frames'[i] = frames[i]
    BY <1>1, <1>2, <1>3, ReplacedFrame
<1>5. \A i \in 1 .. Len(frames) : i = 1 \/ i \in 2 .. Len(frames)
    BY <1>1
<1> QED
    BY <1>3, <1>4, <1>5, Zenon

\* What a class uses, and whether its v-table is settled, depends on nothing
\* but the slots and the v-tables.
LEMMA SameUses ==
    ASSUME UNCHANGED <<lattice, slots>>
    PROVE  /\ \A c, s : Uses(c, s)' <=> Uses(c, s)
           /\ \A c : vtblSize'[c] = vtblSize[c] => (Settled(c)' <=> Settled(c))
<1>1. derived' = derived /\ host' = host /\ slots' = slots
    BY DEF lattice
<1>2. \A c, s : Uses(c, s)' <=> Uses(c, s)
    BY <1>1 DEF Uses
<1>3. \A c : vtblSize'[c] = vtblSize[c] => (Settled(c)' <=> Settled(c))
    BY <1>1, <1>2 DEF Settled, Assigned
<1> QED
    BY <1>2, <1>3

LEMMA SameUsed ==
    ASSUME LatticeInv, UsedInv, UNCHANGED <<lattice, slots, usedSlots>>
    PROVE  UsedInv'
<1>1. /\ \A c : InTree(c)' <=> InTree(c)
      /\ derived' = derived /\ host' = host /\ slots' = slots /\ usedSlots' = usedSlots
    BY SameLattice
<1> QED
    BY <1>1 DEF UsedInv, Assigned

-----------------------------------------------------------------------------
(* The steps *)

LEMMA NextClassCovers ==
    ASSUME WalkInv, NextClass
    PROVE  SettledInv' /\ DenseInv' /\ ReachInv' /\ UsedInv'
<1> USE DEF WalkInv, Inv
<1>1. /\ frames = <<>> /\ Len(frames) = 0 /\ visiting = NoClass /\ visiting' = NoClass
      /\ UNCHANGED <<lattice, pending, nextSlot, marked, slots, usedSlots, vtblSize>>
    BY DEF NextClass, tables
<1>2. PICK c \in roots :
          /\ roots' = roots \ {c}
          /\ IF directBases[c] = {}
             THEN frames' = << [classes |-> {c}, base |-> 0] >>
             ELSE UNCHANGED <<kind, frames>>
    BY DEF NextClass
<1>3. /\ \A x : InTree(x)' <=> InTree(x)
      /\ Above' = Above /\ directBases' = directBases
      /\ derived' = derived /\ host' = host
      /\ \A p : Assigned(p)' <=> Assigned(p)
    BY <1>1, SameLattice DEF Assigned
\* The loops, before, are over.
<1>4. \A i \in 1 .. Len(frames) : FALSE
    BY <1>1
<1>5. directBases[c] = {} =>
          /\ Len(frames') = 1 /\ 1 \in 1 .. Len(frames')
          /\ frames'[1].classes = {c} /\ frames'[1].base = 0
    BY <1>2
<1>6. SettledInv'
    <2>1. ASSUME NEW d \in Class, Ahead(d)
          PROVE  Ahead(d)'
        <3>1. PICK r \in roots : directBases[r] = {} /\ d \in derived[r]
            BY <1>1, <1>4, <2>1 DEF Ahead
        <3>2. CASE r = c
            BY <1>3, <1>5, <3>1, <3>2 DEF Ahead
        <3>3. CASE r # c
            BY <1>2, <1>3, <3>1, <3>3 DEF Ahead
        <3> QED
            BY <3>2, <3>3
    <2>2. \A d \in Class : Settled(d) => Settled(d)'
        BY <1>1, SameUses
    <2> QED
        BY <1>1, <1>3, <2>1, <2>2 DEF SettledInv
<1>7. DenseInv'
    <2>1. \A i \in 1 .. Len(frames') : frames'[i].base = 0
        <3>1. CASE directBases[c] = {}
            BY <1>2, <3>1
        <3>2. CASE directBases[c] # {}
            BY <1>1, <1>2, <3>2
        <3> QED
            BY <3>1, <3>2
    <2> QED
        BY <1>1, <2>1 DEF DenseInv
<1>8. ReachInv'
    <2>1. ASSUME NEW d \in Class, ~ InTree(d), d \notin marked, directBases[d] = {}
          PROVE  d \in roots' \/ \E i \in 1 .. Len(frames') : d \in frames'[i].classes
        <3>1. d \in roots
            BY <1>4, <2>1 DEF ReachInv
        <3> QED
            BY <1>2, <1>5, <2>1, <3>1
    <2>2. ASSUME NEW d \in Class, ~ InTree(d), d \notin marked,
                 NEW b \in directBases[d]
          PROVE  b \notin marked
        <3>1. b \in Class
            BY <2>2, LatticeFacts
        <3>2. b # visiting
            BY <1>1, <3>1 DEF NoClass, Class
        <3> QED
            BY <1>4, <2>2, <3>2 DEF ReachInv
    <2> QED
        BY <1>1, <1>3, <2>1, <2>2 DEF ReachInv
<1>9. UsedInv'
    BY <1>1, SameUsed
<1> QED
    BY <1>6, <1>7, <1>8, <1>9

LEMMA EnterTreeClassCovers ==
    ASSUME WalkInv, EnterTreeClass
    PROVE  SettledInv' /\ DenseInv' /\ ReachInv' /\ UsedInv'
<1> USE DEF WalkInv, Inv
<1>1. PICK c \in Class :
          Call(c) /\ visiting' = c /\ nextSlot' = Head(frames).base
    BY DEF EnterTreeClass
<1>2. /\ kind = "tree" /\ kind' = "tree"
      /\ UNCHANGED <<lattice, roots, marked, slots, usedSlots, vtblSize>>
    BY DEF EnterTreeClass, tables
<1>3. /\ visiting = NoClass
      /\ 1 \in 1 .. Len(frames) /\ Head(frames) = frames[1]
      /\ c \in frames[1].classes
      /\ Len(frames') = Len(frames)
      /\ \A i \in 1 .. Len(frames) :
            /\ frames'[i].classes \subseteq frames[i].classes
            /\ frames'[i].base = frames[i].base
    BY <1>1, CallFacts
<1>4. \A i \in 1 .. Len(frames) : \A x \in frames[i].classes :
          x # c => x \in frames'[i].classes
    BY <1>1, CallKeeps
<1>5. /\ \A x : InTree(x)' <=> InTree(x)
      /\ Above' = Above /\ directBases' = directBases
      /\ derived' = derived /\ host' = host
      /\ \A p : Assigned(p)' <=> Assigned(p)
    BY <1>2, SameLattice DEF Assigned
<1>6. InTree(c) /\ c # NoClass
    BY <1>2, <1>3 DEF KindInv, NoClass, Class
<1>7. SettledInv'
    <2>1. ASSUME NEW d \in Class, Ahead(d)
          PROVE  Ahead(d)' \/ d = visiting'
        <3>1. CASE \E r \in roots : directBases[r] = {} /\ d \in derived[r]
            BY <1>2, <1>5, <3>1 DEF Ahead
        <3>2. CASE \E i \in 1 .. Len(frames) : \E x \in frames[i].classes : d \in derived[x]
            <4>1. PICK i \in 1 .. Len(frames) :
                         \E x \in frames[i].classes : d \in derived[x]
                BY <3>2
            <4>2. PICK x \in frames[i].classes : d \in derived[x]
                BY <4>1
            <4>3. CASE x = c
                BY <1>1, <1>5, <1>6, <4>2, <4>3 DEF Ahead
            <4>4. CASE x # c
                BY <1>3, <1>4, <1>5, <4>2, <4>4 DEF Ahead
            <4> QED
                BY <4>3, <4>4
        <3> QED
            BY <1>3, <2>1, <3>1, <3>2 DEF Ahead
    <2>2. \A d \in Class : Settled(d) => Settled(d)'
        BY <1>2, SameUses
    <2>3. \A d \in Class : d # visiting
        BY <1>3 DEF NoClass, Class
    <2> QED
        BY <1>5, <2>1, <2>2, <2>3 DEF SettledInv
<1>8. DenseInv'
    <2>1. ASSUME NEW i \in 1 .. Len(frames'), NEW x \in frames'[i].classes,
                 NEW s \in Nat, s < frames'[i].base
          PROVE  \E p \in Param : host[p] \in Above[x] /\ slots[p] = s
        BY <1>2, <1>3, <2>1 DEF DenseInv
    <2>2. ASSUME NEW s \in Nat, s < nextSlot'
          PROVE  \E p \in Param : host[p] \in Above[c] /\ slots[p] = s
        BY <1>1, <1>2, <1>3, <2>2 DEF DenseInv
    <2>3. slots' = slots
        BY <1>2
    <2> QED
        BY <1>1, <1>5, <2>1, <2>2, <2>3 DEF DenseInv
<1>9. ReachInv'
    <2>1. \A d : ~ InTree(d) => d # c
        BY <1>6
    <2>2. ASSUME NEW d \in Class, ~ InTree(d), d \notin marked, directBases[d] = {}
          PROVE  d \in roots \/ \E i \in 1 .. Len(frames') : d \in frames'[i].classes
        BY <1>3, <1>4, <2>1, <2>2 DEF ReachInv
    <2>3. ASSUME NEW d \in Class, ~ InTree(d), d \notin marked,
                 NEW b \in directBases[d], b \in marked
          PROVE  \E i \in 1 .. Len(frames') : d \in frames'[i].classes
        <3>1. b # visiting
            BY <1>3, <2>3, LatticeFacts DEF NoClass, Class
        <3> QED
            BY <1>3, <1>4, <2>1, <2>3, <3>1 DEF ReachInv
    <2>4. ASSUME NEW p \in Param, ~ InTree(host[p]), host[p] \in marked
          PROVE  Assigned(p)
        <3>1. p \notin pending
            BY <1>3, <2>4 DEF UnseenInv, LatticeInv, NoClass, Class
        <3> QED
            BY <2>4, <3>1 DEF ReachInv
    <2> QED
        BY <1>2, <1>5, <2>2, <2>3, <2>4 DEF ReachInv
<1>10. UsedInv'
    BY <1>2, SameUsed
<1> QED
    BY <1>7, <1>8, <1>9, <1>10

LEMMA EnterLatticeClassCovers ==
    ASSUME WalkInv, EnterLatticeClass
    PROVE  SettledInv' /\ DenseInv' /\ ReachInv' /\ UsedInv'
<1> USE DEF WalkInv, Inv
<1>1. PICK c \in Class :
          /\ Call(c)
          /\ IF c \in marked
             THEN UNCHANGED <<visiting, pending, marked>>
             ELSE /\ visiting' = c
                  /\ pending' = UsedByVp(c)
                  /\ marked' = marked \cup {c}
    BY DEF EnterLatticeClass
<1>2. /\ kind = "lattice" /\ kind' = "lattice"
      /\ UNCHANGED <<lattice, roots, slots, usedSlots, vtblSize>>
    BY DEF EnterLatticeClass, tables
<1>3. /\ visiting = NoClass
      /\ 1 \in 1 .. Len(frames) /\ c \in frames[1].classes
      /\ Len(frames') = Len(frames)
    BY <1>1, CallFacts
<1>4. \A i \in 1 .. Len(frames) : \A x \in frames[i].classes :
          x # c => x \in frames'[i].classes
    BY <1>1, CallKeeps
<1>5. /\ \A x : InTree(x)' <=> InTree(x)
      /\ Above' = Above /\ directBases' = directBases
      /\ derived' = derived /\ host' = host
      /\ \A p : Assigned(p)' <=> Assigned(p)
    BY <1>2, SameLattice DEF Assigned
<1>6. ~ InTree(c) /\ c # NoClass /\ \A d \in Class : d # visiting
    BY <1>2, <1>3 DEF KindInv, NoClass, Class
<1>7. SettledInv'
    <2>1. ASSUME NEW d \in Class, InTree(d), Ahead(d)
          PROVE  Ahead(d)'
        <3>1. CASE \E r \in roots : directBases[r] = {} /\ d \in derived[r]
            BY <1>2, <1>5, <3>1 DEF Ahead
        <3>2. CASE \E i \in 1 .. Len(frames) : \E x \in frames[i].classes : d \in derived[x]
            <4>1. PICK i \in 1 .. Len(frames) :
                         \E x \in frames[i].classes : d \in derived[x]
                BY <3>2
            <4>2. PICK x \in frames[i].classes : d \in derived[x]
                BY <4>1
            <4>3. x # c
                BY <1>6, <2>1, <4>2, TreeFacts
            <4> QED
                BY <1>3, <1>4, <1>5, <4>2, <4>3 DEF Ahead
        <3> QED
            BY <1>3, <2>1, <3>1, <3>2 DEF Ahead
    <2>2. \A d \in Class : Settled(d) => Settled(d)'
        BY <1>2, SameUses
    <2> QED
        BY <1>5, <1>6, <2>1, <2>2 DEF SettledInv
<1>8. DenseInv'
    BY <1>2 DEF DenseInv
<1>9. ReachInv'
    <2>1. c \in marked' /\ \A d \in Class : d \in marked' <=> d \in marked \/ d = c
        BY <1>1
    <2>2. ASSUME NEW d \in Class, ~ InTree(d), d \notin marked', directBases[d] = {}
          PROVE  d \in roots \/ \E i \in 1 .. Len(frames') : d \in frames'[i].classes
        BY <1>3, <1>4, <2>1, <2>2 DEF ReachInv
    <2>3. ASSUME NEW d \in Class, ~ InTree(d), d \notin marked',
                 NEW b \in directBases[d], b \in marked'
          PROVE  b = visiting' \/ \E i \in 1 .. Len(frames') : d \in frames'[i].classes
        <3>1. CASE b \in marked
            <4>1. b # visiting
                BY <1>6, <2>3, LatticeFacts
            <4> QED
                BY <1>3, <1>4, <2>1, <2>3, <3>1, <4>1 DEF ReachInv
        <3>2. CASE b \notin marked
            BY <1>1, <2>3, <3>2
        <3> QED
            BY <3>1, <3>2
    <2>4. ASSUME NEW p \in Param, ~ InTree(host[p]), host[p] \in marked'
          PROVE  Assigned(p) \/ p \in pending'
        <3>1. CASE host[p] \in marked
            <4>1. p \notin pending
                BY <1>3, <2>4 DEF UnseenInv, LatticeInv, NoClass, Class
            <4> QED
                BY <2>4, <3>1, <4>1 DEF ReachInv
        <3>2. CASE host[p] \notin marked
            BY <1>1, <2>4, <3>2 DEF UsedByVp
        <3> QED
            BY <3>1, <3>2
    <2> QED
        BY <1>2, <1>5, <2>2, <2>3, <2>4 DEF ReachInv
<1>10. UsedInv'
    BY <1>2, SameUsed
<1> QED
    BY <1>7, <1>8, <1>9, <1>10

\* Giving a parameter a slot takes none from a class that has all of its own.
LEMMA AllocationKeepsSettled ==
    ASSUME Inv, NEW p \in pending, NEW s \in Nat,
           slots' = [slots EXCEPT ![p] = s], UNCHANGED <<lattice, vtblSize>>
    PROVE  /\ \A d \in Class : Settled(d) => Settled(d)'
           /\ \A q \in Param : slots[q] \in Nat => slots'[q] = slots[q]
           /\ \A q \in Param : Assigned(q) => Assigned(q)'
           /\ p \in Param /\ slots'[p] = s /\ Assigned(p)'
<1> USE DEF Inv
<1>1. /\ p \in Param /\ ~ Assigned(p) /\ slots[p] \notin Nat
      /\ slots \in [Param -> Nat \cup {NotAssigned}]
      /\ derived' = derived /\ host' = host /\ vtblSize' = vtblSize
    BY DEF WalkTypes, UnseenInv, lattice, Assigned, NotAssigned
<1>2. /\ slots'[p] = s /\ s # NotAssigned
      /\ \A q \in Param : q # p => slots'[q] = slots[q]
    BY <1>1 DEF NotAssigned
<1>3. /\ \A q \in Param : slots[q] \in Nat => slots'[q] = slots[q]
      /\ \A q \in Param : Assigned(q) => slots'[q] = slots[q] /\ Assigned(q)'
    BY <1>1, <1>2 DEF Assigned
<1>4. ASSUME NEW d \in Class, Settled(d)
      PROVE  Settled(d)'
    <2>1. ASSUME NEW q \in Param, d \in derived[host[q]]
          PROVE  Assigned(q)' /\ slots'[q] < vtblSize[d]
        BY <1>3, <1>4, <2>1 DEF Settled
    <2>2. ASSUME NEW t \in Nat, t < vtblSize[d]
          PROVE  \E q \in Param : d \in derived[host[q]] /\ slots'[q] = t
        <3>1. PICK q \in Param : d \in derived[host[q]] /\ slots[q] = t
            BY <1>4, <2>2 DEF Settled, Uses
        <3> QED
            BY <1>3, <3>1
    <2> QED
        BY <1>1, <2>1, <2>2 DEF Settled, Uses
<1> QED
    BY <1>1, <1>2, <1>3, <1>4 DEF Assigned

LEMMA AllocateInTreeCovers ==
    ASSUME WalkInv, AllocateInTree
    PROVE  SettledInv' /\ DenseInv' /\ ReachInv' /\ UsedInv'
<1> USE DEF WalkInv, Inv
<1>1. PICK p \in pending :
          /\ slots' = [slots EXCEPT ![p] = nextSlot]
          /\ nextSlot' = nextSlot + 1
          /\ pending' = pending \ {p}
    BY DEF AllocateInTree
<1>2. /\ kind = "tree" /\ visiting # NoClass
      /\ UNCHANGED <<lattice, roots, kind, frames, visiting, marked, usedSlots, vtblSize>>
    BY DEF AllocateInTree
<1>3. nextSlot \in Nat /\ host[p] = visiting
    BY DEF WalkTypes, UnseenInv
<1>4. /\ \A d \in Class : Settled(d) => Settled(d)'
      /\ \A q \in Param : slots[q] \in Nat => slots'[q] = slots[q]
      /\ \A q \in Param : Assigned(q) => Assigned(q)'
      /\ p \in Param /\ slots'[p] = nextSlot /\ Assigned(p)'
    BY <1>1, <1>2, <1>3, AllocationKeepsSettled
<1>5. /\ \A x : InTree(x)' <=> InTree(x)
      /\ Above' = Above /\ directBases' = directBases
      /\ derived' = derived /\ host' = host
    BY <1>2, SameLattice
<1>6. SettledInv'
    <2>1. \A d \in Class : Ahead(d) => Ahead(d)'
        BY <1>2, <1>5 DEF Ahead
    <2> QED
        BY <1>2, <1>4, <1>5, <2>1 DEF SettledInv
<1>7. DenseInv'
    <2>1. ASSUME NEW i \in 1 .. Len(frames), NEW x \in frames[i].classes,
                 NEW s \in Nat, s < frames[i].base
          PROVE  \E q \in Param : host[q] \in Above[x] /\ slots'[q] = s
        <3>1. PICK q \in Param : host[q] \in Above[x] /\ slots[q] = s
            BY <1>2, <2>1 DEF DenseInv
        <3> QED
            BY <1>4, <3>1
    <2>2. ASSUME NEW s \in Nat, s < nextSlot'
          PROVE  \E q \in Param :
                    /\ host[q] \in Above[visiting] \/ host[q] = visiting
                    /\ slots'[q] = s
        <3>1. CASE s = nextSlot
            BY <1>3, <1>4, <3>1
        <3>2. CASE s # nextSlot
            <4>1. s < nextSlot
                BY <1>1, <1>3, <2>2, <3>2
            <4>2. PICK q \in Param :
                          /\ host[q] \in Above[visiting] \/ host[q] = visiting
                          /\ slots[q] = s
                BY <1>2, <4>1 DEF DenseInv
            <4> QED
                BY <1>4, <4>2
        <3> QED
            BY <3>1, <3>2
    <2> QED
        BY <1>2, <1>5, <2>1, <2>2 DEF DenseInv
<1>8. ReachInv'
    <2>1. ASSUME NEW q \in Param, ~ InTree(host[q]), host[q] \in marked
          PROVE  Assigned(q)' \/ q \in pending'
        BY <1>1, <1>4, <2>1 DEF ReachInv
    <2> QED
        BY <1>2, <1>5, <2>1 DEF ReachInv
<1>9. UsedInv'
    <2>1. ASSUME NEW c \in Class, NEW s \in usedSlots[c]
          PROVE  \E q \in Param : /\ ~ InTree(host[q]) /\ Assigned(q)'
                                  /\ c \in derived[host[q]] /\ slots'[q] = s
        <3>1. PICK q \in Param : /\ ~ InTree(host[q]) /\ Assigned(q)
                                 /\ c \in derived[host[q]] /\ slots[q] = s
            BY <2>1 DEF UsedInv
        <3>2. slots[q] \in Nat
            BY <3>1 DEF WalkTypes, Assigned
        <3> QED
            BY <1>4, <3>1, <3>2
    <2> QED
        BY <1>2, <1>5, <2>1 DEF UsedInv
<1> QED
    BY <1>6, <1>7, <1>8, <1>9

LEMMA AllocateInLatticeCovers ==
    ASSUME WalkInv, AllocateInLattice
    PROVE  SettledInv' /\ DenseInv' /\ ReachInv' /\ UsedInv'
<1> USE DEF WalkInv, Inv
<1> DEFINE v == visiting
<1>1. PICK p \in pending, s \in 0 .. NumParams :
          /\ slots' = [slots EXCEPT ![p] = s]
          /\ pending' = pending \ {p}
          /\ usedSlots' = [c \in Class |->
                IF c \in derived[v] \cup {v}
                THEN usedSlots[c] \cup (usedSlots[v] \cup {s}) ELSE usedSlots[c]]
    BY DEF AllocateInLattice
<1>2. /\ kind = "lattice" /\ v # NoClass
      /\ UNCHANGED <<lattice, roots, kind, frames, visiting, marked, vtblSize>>
    BY DEF AllocateInLattice
<1>3. s \in Nat /\ host[p] = v /\ v \in Class /\ ~ InTree(v) /\ v \in derived[v]
    BY <1>2, NumParamsAssumption, LatticeFacts DEF WalkTypes, UnseenInv, KindInv
<1>4. /\ \A d \in Class : Settled(d) => Settled(d)'
      /\ \A q \in Param : slots[q] \in Nat => slots'[q] = slots[q]
      /\ \A q \in Param : Assigned(q) => Assigned(q)'
      /\ p \in Param /\ slots'[p] = s /\ Assigned(p)'
    BY <1>1, <1>2, <1>3, AllocationKeepsSettled
<1>5. /\ \A x : InTree(x)' <=> InTree(x)
      /\ Above' = Above /\ directBases' = directBases
      /\ derived' = derived /\ host' = host
    BY <1>2, SameLattice
<1>6. SettledInv'
    <2>1. \A d \in Class : Ahead(d) => Ahead(d)'
        BY <1>2, <1>5 DEF Ahead
    <2> QED
        BY <1>2, <1>4, <1>5, <2>1 DEF SettledInv
<1>7. DenseInv'
    BY <1>2 DEF DenseInv
<1>8. ReachInv'
    <2>1. ASSUME NEW q \in Param, ~ InTree(host[q]), host[q] \in marked
          PROVE  Assigned(q)' \/ q \in pending'
        BY <1>1, <1>4, <2>1 DEF ReachInv
    <2> QED
        BY <1>2, <1>5, <2>1 DEF ReachInv
<1>9. UsedInv'
    <2>1. ASSUME NEW c \in Class, NEW d \in Class, c \in derived[d],
                 NEW t \in usedSlots[d]
          PROVE  \E q \in Param : /\ ~ InTree(host[q]) /\ Assigned(q)'
                                  /\ c \in derived[host[q]] /\ slots'[q] = t
        <3>1. PICK q \in Param : /\ ~ InTree(host[q]) /\ Assigned(q)
                                 /\ d \in derived[host[q]] /\ slots[q] = t
            BY <2>1 DEF UsedInv
        <3>2. slots[q] \in Nat /\ host[q] \in Class
            BY <3>1 DEF WalkTypes, Assigned, LatticeInv
        <3>3. c \in derived[host[q]]
            BY <2>1, <3>1, <3>2, LatticeFacts
        <3> QED
            BY <1>4, <3>1, <3>2, <3>3
    <2>2. ASSUME NEW c \in Class, NEW t \in usedSlots'[c]
          PROVE  \E q \in Param : /\ ~ InTree(host[q]) /\ Assigned(q)'
                                  /\ c \in derived[host[q]] /\ slots'[q] = t
        <3>1. CASE t \in usedSlots[c]
            BY <2>1, <3>1, LatticeFacts
        <3>2. CASE t \notin usedSlots[c]
            <4>1. c \in derived[v] /\ t \in usedSlots[v] \cup {s}
                BY <1>1, <1>3, <2>2, <3>2
            <4>2. CASE t \in usedSlots[v]
                BY <1>3, <2>1, <4>1, <4>2
            <4>3. CASE t = s
                BY <1>3, <1>4, <4>1, <4>3
            <4> QED
                BY <4>1, <4>2, <4>3
        <3> QED
            BY <3>1, <3>2
    <2> QED
        BY <1>5, <2>2 DEF UsedInv
<1> QED
    BY <1>6, <1>7, <1>8, <1>9

LEMMA LeaveClassCovers ==
    ASSUME WalkInv, LeaveClass
    PROVE  SettledInv' /\ DenseInv' /\ ReachInv' /\ UsedInv'
<1> USE DEF WalkInv, Inv
<1> DEFINE f == [classes |-> DirectDerived(visiting), base |-> nextSlot]
<1>1. /\ visiting # NoClass /\ pending = {}
      /\ frames' = << f >> \o frames
      /\ visiting' = NoClass
      /\ vtblSize' = IF kind = "tree"
                     THEN [vtblSize EXCEPT ![visiting] = nextSlot] ELSE vtblSize
      /\ UNCHANGED <<lattice, roots, kind, pending, nextSlot, marked, slots, usedSlots>>
    BY DEF LeaveClass
<1>2. /\ visiting \in Class /\ nextSlot \in Nat /\ frames \in Seq(Frame)
      /\ vtblSize \in [Class -> Nat]
    BY <1>1 DEF WalkTypes, TableTypes
<1>3. /\ \A x : InTree(x)' <=> InTree(x)
      /\ Above' = Above /\ directBases' = directBases
      /\ derived' = derived /\ host' = host
      /\ \A p : Assigned(p)' <=> Assigned(p)
    BY <1>1, SameLattice DEF Assigned
<1>4. /\ f \in Frame
      /\ f.classes = DirectDerived(visiting) /\ f.base = nextSlot
    BY <1>2 DEF Frame, DirectDerived
<1> HIDE DEF f
<1>5. /\ frames' \in Seq(Frame) /\ Len(frames') = Len(frames) + 1
      /\ frames'[1] = f
      /\ \A i \in 2 .. Len(frames') :
            i - 1 \in 1 .. Len(frames) /\ frames'[i] = frames[i - 1]
    BY <1>1, <1>2, <1>4, PushFrame
\* An entry of the stack is one of the new loop or one that was there; all that
\* were there still are.
<1>6. ASSUME NEW i \in 1 .. Len(frames')
      PROVE  \/ i = 1 /\ frames'[i] = f
             \/ i # 1 /\ i - 1 \in 1 .. Len(frames) /\ frames'[i] = frames[i - 1]
    BY <1>2, <1>5
<1>7. 1 \in 1 .. Len(frames') /\ Len(frames) \in Nat
    BY <1>2, <1>5
<1>8. ASSUME NEW i \in 1 .. Len(frames)
      PROVE  i + 1 \in 1 .. Len(frames') /\ frames'[i + 1] = frames[i]
    <2>1. i + 1 \in 2 .. Len(frames') /\ (i + 1) - 1 = i
        BY <1>5, <1>7
    <2> QED
        BY <1>5, <1>7, <2>1
<1>9. SettledInv'
    <2>1. ASSUME NEW d \in Class, Ahead(d)
          PROVE  Ahead(d)'
        <3>1. CASE \E r \in roots : directBases[r] = {} /\ d \in derived[r]
            BY <1>1, <1>3, <3>1 DEF Ahead
        <3>2. CASE \E i \in 1 .. Len(frames) : \E x \in frames[i].classes : d \in derived[x]
            BY <1>3, <1>8, <3>2 DEF Ahead
        <3>3. CASE d \in derived[visiting] /\ d # visiting
            <4>1. \E x \in f.classes : d \in derived[x]
                BY <1>2, <1>4, <3>3, DirectHeir
            <4> QED
                BY <1>3, <1>5, <1>7, <4>1 DEF Ahead
        <3> QED
            BY <2>1, <3>1, <3>2, <3>3 DEF Ahead
    <2>2. ASSUME NEW v \in Class, v = visiting, InTree(v)
          PROVE  Settled(v)'
        <3>1. kind = "tree" /\ vtblSize'[v] = nextSlot
            BY <1>1, <1>2, <2>2 DEF KindInv
        <3>2. \A p \in Param : v \in derived[host[p]] <=>
                  host[p] \in Above[v] \/ host[p] = v
            BY <2>2, LatticeFacts DEF LatticeInv
        <3>3. ASSUME NEW p \in Param, v \in derived[host[p]]
              PROVE  Assigned(p) /\ slots[p] < nextSlot
            BY <1>1, <2>2, <3>1, <3>2, <3>3 DEF PathInv
        <3>4. \A s \in Nat : s < nextSlot => Uses(v, s)
            BY <1>1, <2>2, <3>1, <3>2 DEF DenseInv, Uses
        <3> QED
            BY <1>1, <1>3, <3>1, <3>3, <3>4, SameUses DEF Settled
    <2>3. ASSUME NEW d \in Class, d # visiting, Settled(d)
          PROVE  Settled(d)'
        <3>1. vtblSize'[d] = vtblSize[d]
            BY <1>1, <1>2, <2>3
        <3> QED
            BY <1>1, <2>3, <3>1, SameUses
    <2>4. \A d \in Class : InTree(d) => Ahead(d)' \/ Settled(d)'
        BY <2>1, <2>2, <2>3 DEF SettledInv
    <2> QED
        BY <1>3, <2>4 DEF SettledInv
<1>10. DenseInv'
    <2>1. ASSUME kind = "tree",
                 NEW i \in 1 .. Len(frames'), NEW x \in frames'[i].classes,
                 NEW s \in Nat, s < frames'[i].base
          PROVE  \E p \in Param : host[p] \in Above[x] /\ slots[p] = s
        <3>1. CASE i = 1
            <4>1. x \in f.classes /\ frames'[i].base = nextSlot
                BY <1>4, <1>6, <2>1, <3>1
            <4>2. x \in Class /\ visiting \in directBases[x]
                BY <1>4, <4>1 DEF DirectDerived
            <4>3. visiting \in Above[x] /\ x \in derived[visiting]
                BY <1>2, <4>2, LatticeFacts
            <4>4. Above[x] = {visiting} \cup Above[visiting]
                BY <1>1, <1>2, <2>1, <4>2, <4>3, TreeFacts DEF KindInv
            <4> QED
                BY <1>1, <2>1, <4>1, <4>4 DEF DenseInv
        <3>2. CASE i # 1
            BY <1>6, <2>1, <3>2 DEF DenseInv
        <3> QED
            BY <3>1, <3>2
    <2> QED
        BY <1>1, <1>3, <2>1 DEF DenseInv
<1>11. ReachInv'
    <2>1. ASSUME NEW d \in Class, ~ InTree(d), d \notin marked, directBases[d] = {}
          PROVE  d \in roots \/ \E i \in 1 .. Len(frames') : d \in frames'[i].classes
        BY <1>8, <2>1 DEF ReachInv
    <2>2. ASSUME NEW d \in Class, ~ InTree(d), d \notin marked,
                 NEW b \in directBases[d], b \in marked
          PROVE  \E i \in 1 .. Len(frames') : d \in frames'[i].classes
        <3>1. CASE b = visiting
            BY <1>4, <1>5, <1>7, <2>2, <3>1 DEF DirectDerived
        <3>2. CASE b # visiting
            BY <1>8, <2>2, <3>2 DEF ReachInv
        <3> QED
            BY <3>1, <3>2
    <2>3. (\A p \in Param : ~ InTree(host[p]) /\ host[p] \in marked =>
              Assigned(p) \/ p \in pending)'
        BY <1>1, <1>3 DEF ReachInv
    <2> QED
        BY <1>1, <1>3, <2>1, <2>2, <2>3 DEF ReachInv
<1>12. UsedInv'
    BY <1>1, SameUsed
<1> QED
    BY <1>9, <1>10, <1>11, <1>12

LEMMA ReturnCovers ==
    ASSUME WalkInv, Return
    PROVE  SettledInv' /\ DenseInv' /\ ReachInv' /\ UsedInv'
<1> USE DEF WalkInv, Inv
<1>1. /\ visiting = NoClass /\ frames # <<>> /\ frames' = Tail(frames)
      /\ Head(frames).classes = {}
      /\ UNCHANGED <<lattice, roots, kind, visiting, pending, nextSlot, marked,
                     slots, usedSlots, vtblSize>>
    BY DEF Return, tables
<1>2. /\ \A x : InTree(x)' <=> InTree(x)
      /\ Above' = Above /\ directBases' = directBases
      /\ derived' = derived /\ host' = host
      /\ \A p : Assigned(p)' <=> Assigned(p)
    BY <1>1, SameLattice DEF Assigned
<1>3. frames \in Seq(Frame)
    BY DEF WalkTypes
<1>4. \A i \in 1 .. Len(frames') :
          i + 1 \in 1 .. Len(frames) /\ frames'[i] = frames[i + 1]
    BY <1>1, <1>3, PopFrame
\* Whatever is in a loop is in one of the others.
<1>5. ASSUME NEW i \in 1 .. Len(frames), NEW x \in frames[i].classes
      PROVE  i - 1 \in 1 .. Len(frames') /\ frames'[i - 1] = frames[i]
    <2>1. Len(frames') = Len(frames) - 1 /\ Len(frames) \in Nat /\ Head(frames) = frames[1]
        BY <1>1, <1>3
    <2>2. i # 1
        BY <1>1, <1>5, <2>1
    <2>3. i - 1 \in 1 .. Len(frames') /\ (i - 1) + 1 = i
        BY <2>1, <2>2
    <2> QED
        BY <1>4, <2>3
<1>6. SettledInv'
    <2>1. ASSUME NEW d \in Class, Ahead(d)
          PROVE  Ahead(d)'
        <3>1. CASE \E r \in roots : directBases[r] = {} /\ d \in derived[r]
            BY <1>1, <1>2, <3>1 DEF Ahead
        <3>2. CASE \E i \in 1 .. Len(frames) : \E x \in frames[i].classes : d \in derived[x]
            BY <1>2, <1>5, <3>2 DEF Ahead
        <3> QED
            BY <1>1, <2>1, <3>1, <3>2 DEF Ahead
    <2>2. \A d \in Class : Settled(d) => Settled(d)'
        BY <1>1, SameUses
    <2> QED
        BY <1>1, <1>2, <2>1, <2>2 DEF SettledInv
<1>7. DenseInv'
    <2>1. ASSUME kind = "tree",
                 NEW i \in 1 .. Len(frames'), NEW x \in frames'[i].classes,
                 NEW s \in Nat, s < frames'[i].base
          PROVE  \E p \in Param : host[p] \in Above[x] /\ slots[p] = s
        BY <1>4, <2>1 DEF DenseInv
    <2> QED
        BY <1>1, <1>2, <2>1 DEF DenseInv
<1>8. ReachInv'
    <2>1. ASSUME NEW d \in Class, ~ InTree(d), d \notin marked, directBases[d] = {}
          PROVE  d \in roots \/ \E i \in 1 .. Len(frames') : d \in frames'[i].classes
        BY <1>5, <2>1 DEF ReachInv
    <2>2. ASSUME NEW d \in Class, ~ InTree(d), d \notin marked,
                 NEW b \in directBases[d], b \in marked
          PROVE  b = visiting \/ \E i \in 1 .. Len(frames') : d \in frames'[i].classes
        BY <1>5, <2>2 DEF ReachInv
    <2>3. (\A p \in Param : ~ InTree(host[p]) /\ host[p] \in marked =>
              Assigned(p) \/ p \in pending)'
        BY <1>1, <1>2 DEF ReachInv
    <2> QED
        BY <1>1, <1>2, <2>1, <2>2, <2>3 DEF ReachInv
<1>9. UsedInv'
    BY <1>1, SameUsed
<1> QED
    BY <1>6, <1>7, <1>8, <1>9

\* A step that changes nothing but the phase and the v-tables of lattices.
LEMMA SameWalkCovers ==
    ASSUME WalkInv, \A c \in Class : InTree(c) => vtblSize'[c] = vtblSize[c],
           UNCHANGED <<lattice, roots, kind, frames, visiting, pending,
                       nextSlot, marked, slots, usedSlots>>
    PROVE  SettledInv' /\ DenseInv' /\ ReachInv' /\ UsedInv'
<1> USE DEF WalkInv, Inv
<1>1. /\ \A x : InTree(x)' <=> InTree(x)
      /\ Above' = Above /\ directBases' = directBases
      /\ derived' = derived /\ host' = host
      /\ \A p : Assigned(p)' <=> Assigned(p)
    BY SameLattice DEF Assigned
<1>2. \A c \in Class : InTree(c) => (Settled(c) => Settled(c)')
    BY SameUses
<1>3. SettledInv'
    BY <1>1, <1>2 DEF SettledInv, Ahead
<1>4. DenseInv'
    BY <1>1 DEF DenseInv
<1>5. ReachInv'
    BY <1>1 DEF ReachInv
<1>6. UsedInv'
    BY SameUsed
<1> QED
    BY <1>3, <1>4, <1>5, <1>6

\* The v-tables of lattices wait for the end, and nothing comes after it.
LEMMA TablesWait ==
    ASSUME WalkInv, [Next]_vars
    PROVE  UntrimmedInv' /\ StoppedInv'
<1> USE DEF WalkInv, Inv
<1>1. /\ \A x : UNCHANGED lattice => (InTree(x)' <=> InTree(x))
      /\ visiting # NoClass \/ frames # <<>> => phase = "walk"
    BY SameLattice DEF StoppedInv, TableTypes
<1>2. CASE LeaveClass
    <2>1. /\ phase = "walk" /\ phase' = phase /\ visiting # NoClass
          /\ firstSlot' = firstSlot
          /\ vtblSize' = IF kind = "tree"
                         THEN [vtblSize EXCEPT ![visiting] = nextSlot] ELSE vtblSize
          /\ UNCHANGED lattice
        BY <1>1, <1>2 DEF LeaveClass
    <2>2. ASSUME NEW c \in Class, ~ InTree(c)
          PROVE  vtblSize'[c] = vtblSize[c]
        <3>1. kind = "tree" => c # visiting
            BY <2>1, <2>2 DEF KindInv
        <3> QED
            BY <2>1, <3>1 DEF TableTypes
    <2> QED
        BY <1>1, <2>1, <2>2 DEF UntrimmedInv, StoppedInv
<1>3. CASE AllocateVtables
    BY <1>3 DEF AllocateVtables, UntrimmedInv, StoppedInv
<1>4. CASE Return
    BY <1>1, <1>4 DEF Return, tables, UntrimmedInv, StoppedInv
<1>5. CASE /\ phase = "walk"
           /\ UNCHANGED <<lattice, phase, firstSlot, vtblSize>>
    BY <1>1, <1>5 DEF UntrimmedInv, StoppedInv
<1>6. CASE UNCHANGED <<lattice, phase, frames, visiting, firstSlot, vtblSize>>
    BY <1>1, <1>6 DEF UntrimmedInv, StoppedInv
<1>7. NextClass \/ EnterTreeClass \/ EnterLatticeClass =>
          phase = "walk" /\ UNCHANGED <<lattice, phase, firstSlot, vtblSize>>
    BY DEF NextClass, EnterTreeClass, EnterLatticeClass, Call, tables
<1>8. AllocateInTree \/ AllocateInLattice =>
          phase = "walk" /\ UNCHANGED <<lattice, phase, firstSlot, vtblSize>>
    BY <1>1 DEF AllocateInTree, AllocateInLattice
<1>9. Finished \/ UNCHANGED vars =>
          UNCHANGED <<lattice, phase, frames, visiting, firstSlot, vtblSize>>
    BY DEF Finished, vars, walk, tables
<1> QED
    BY <1>2, <1>3, <1>4, <1>5, <1>6, <1>7, <1>8, <1>9 DEF Next, Step

\* The classes of trees have nothing in their used masks.
LEMMA TreesHaveNoMask ==
    ASSUME LatticeInv, UsedInv, NEW c \in Class, InTree(c)
    PROVE  usedSlots[c] = {}
<1>1. SUFFICES ASSUME NEW s \in usedSlots[c] PROVE FALSE
    OBVIOUS
<1>2. PICK p \in Param : ~ InTree(host[p]) /\ c \in derived[host[p]]
    BY <1>1 DEF UsedInv
<1> QED
    BY <1>2, TreeFacts DEF LatticeInv

LEMMA WalkInvStep ==
    ASSUME WalkInv, [Next]_vars
    PROVE  WalkInv'
<1>1. Inv' /\ TableTypes' /\ UntrimmedInv' /\ StoppedInv'
    BY NextInv, TablesInv, TablesWait DEF WalkInv
<1>2. SettledInv' /\ DenseInv' /\ ReachInv' /\ UsedInv'
    <2>1. CASE NextClass
        BY <2>1, NextClassCovers
    <2>2. CASE EnterTreeClass
        BY <2>2, EnterTreeClassCovers
    <2>3. CASE EnterLatticeClass
        BY <2>3, EnterLatticeClassCovers
    <2>4. CASE AllocateInTree
        BY <2>4, AllocateInTreeCovers
    <2>5. CASE AllocateInLattice
        BY <2>5, AllocateInLatticeCovers
    <2>6. CASE LeaveClass
        BY <2>6, LeaveClassCovers
    <2>7. CASE Return
        BY <2>7, ReturnCovers
    <2>8. CASE AllocateVtables
        <3>1. ASSUME NEW c \in Class, InTree(c)
              PROVE  vtblSize'[c] = vtblSize[c]
            BY <2>8, <3>1, TreesHaveNoMask DEF AllocateVtables, WalkInv, Inv
        <3> QED
            BY <2>8, <3>1, SameWalkCovers DEF AllocateVtables
    <2>9. CASE UNCHANGED vars
        BY <2>9, SameWalkCovers DEF vars, walk, tables
    <2> QED
        BY <2>1, <2>2, <2>3, <2>4, <2>5, <2>6, <2>7, <2>8, <2>9
           DEF Next, Step, Finished
<1> QED
    BY <1>1, <1>2 DEF WalkInv

\* All of it holds where assign_slots starts.
LEMMA StartWalkInv ==
    ASSUME LatticeInv, Start
    PROVE  WalkInv /\ FitsInv
<1>1. Inv
    BY StartInv
<1>2. /\ frames = <<>> /\ Len(frames) = 0 /\ visiting = NoClass /\ roots = Class
      /\ marked = {} /\ phase = "walk"
      /\ usedSlots = [c \in Class |-> {}]
      /\ firstSlot = [c \in Class |-> 0] /\ vtblSize = [c \in Class |-> 0]
    BY DEF Start
<1>3. \A c \in Class : Ahead(c)
    BY <1>1, <1>2, HasRoot DEF Inv, Ahead
<1>4. ASSUME NEW c \in Class, NEW b \in directBases[c]
      PROVE  b \notin marked
    BY <1>2
<1> QED
    BY <1>1, <1>2, <1>3, <1>4
       DEF WalkInv, TableTypes, SettledInv, DenseInv, ReachInv, UsedInv,
           UntrimmedInv, StoppedInv, FitsInv

-----------------------------------------------------------------------------
(* The end *)

\* When the loops are over, every class of the lattices has been visited.
LEMMA AllMarked ==
    ASSUME WalkInv, roots = {}, frames = <<>>, visiting = NoClass,
           NEW c \in Class, ~ InTree(c)
    PROVE  c \in marked
<1> USE DEF WalkInv, Inv
<1> DEFINE S == { x \in Class : ~ InTree(x) /\ x \notin marked }
<1>1. SUFFICES ASSUME S # {} PROVE FALSE
    OBVIOUS
<1>2. S \subseteq Class /\ Above \in Inheritances
    BY DEF LatticeInv
<1>3. PICK m \in S : Above[m] \cap S = {}
    <2> HIDE DEF S
    <2> QED
        BY <1>1, <1>2, MostBasicMember
<1>4. /\ m \in Class /\ ~ InTree(m) /\ m \notin marked
      /\ \A i \in 1 .. Len(frames) : FALSE
    BY <1>3
<1>5. directBases[m] # {}
    BY <1>4 DEF ReachInv
<1>6. PICK b \in directBases[m] : TRUE
    BY <1>5
<1>7. b \in Above[m] /\ b \in Class /\ m \in derived[b]
    BY <1>4, <1>6, LatticeFacts
<1>8. ~ InTree(b)
    BY <1>4, <1>7, TreeFacts
<1>9. b \in marked /\ b # visiting
    BY <1>3, <1>7, <1>8 DEF NoClass, Class
<1> QED
    BY <1>4, <1>6, <1>9 DEF ReachInv

LEMMA LatticeFits ==
    ASSUME WalkInv, AllocateVtables, NEW c \in Class, ~ InTree(c)
    PROVE  Fits(c)'
<1> USE DEF WalkInv, Inv
<1> DEFINE U == usedSlots[c]
<1>1. /\ phase = "walk" /\ roots = {} /\ frames = <<>> /\ visiting = NoClass
      /\ firstSlot'[c] = IF U = {} THEN firstSlot[c] ELSE SmallestOf(U)
      /\ vtblSize'[c] = IF U = {} THEN vtblSize[c] ELSE TrimmedSize(U)
      /\ derived' = derived /\ host' = host /\ slots' = slots
    BY DEF AllocateVtables, lattice
<1>2. vtblSize[c] = 0 /\ U \subseteq 0 .. NumParams
    BY <1>1 DEF UntrimmedInv, WalkTypes
<1>3. ASSUME NEW p \in Param, c \in derived[host[p]]
      PROVE  Assigned(p) /\ slots[p] \in U
    <2>1. host[p] \in Class /\ ~ InTree(host[p])
        BY <1>3, TreeFacts DEF LatticeInv
    <2>2. host[p] \in marked
        BY <1>1, <2>1, AllMarked
    <2>3. p \notin pending
        BY <1>1, <2>1 DEF UnseenInv, NoClass, Class
    <2>4. Assigned(p)
        BY <2>1, <2>2, <2>3 DEF ReachInv
    <2> QED
        BY <1>3, <2>1, <2>4 DEF LatticeSlots
<1>4. \A s \in U : \E p \in Param : c \in derived[host[p]] /\ slots[p] = s
    BY DEF UsedInv
<1>5. CASE U = {}
    BY <1>1, <1>2, <1>3, <1>5 DEF Fits
<1>6. CASE U # {}
    <2> HIDE DEF U
    <2>1. U \subseteq Nat
        BY <1>2
    <2>2. SmallestOf(U) \in U /\ \A y \in U : SmallestOf(U) <= y
        BY <1>6, <2>1, SmallestMember
    <2>3. LargestOf(U) \in U /\ \A y \in U : y <= LargestOf(U)
        BY <1>2, <1>6, NumParamsAssumption, LargestMember
    <2>4. /\ SmallestOf(U) \in Nat /\ LargestOf(U) \in Nat
          /\ firstSlot'[c] = SmallestOf(U)
          /\ vtblSize'[c] = LargestOf(U) + 1 - SmallestOf(U)
        BY <1>1, <1>6, <2>1, <2>2, <2>3 DEF TrimmedSize
    <2>5. ASSUME NEW p \in Param, c \in derived[host[p]]
          PROVE  /\ Assigned(p)
                 /\ firstSlot'[c] <= slots[p]
                 /\ slots[p] < firstSlot'[c] + vtblSize'[c]
        <3>1. slots[p] \in Nat /\ SmallestOf(U) <= slots[p] /\ slots[p] <= LargestOf(U)
            BY <1>3, <2>1, <2>2, <2>3, <2>5
        <3> QED
            BY <1>3, <2>4, <2>5, <3>1
    <2>6. firstSlot'[c] \in U /\ firstSlot'[c] + vtblSize'[c] - 1 \in U
        BY <2>2, <2>3, <2>4
    <2> QED
        BY <1>1, <1>4, <2>5, <2>6 DEF Fits, Uses, Assigned
<1> QED
    BY <1>5, <1>6

LEMMA TreeFits ==
    ASSUME WalkInv, AllocateVtables, NEW c \in Class, InTree(c)
    PROVE  Fits(c)'
<1> USE DEF WalkInv, Inv
<1>1. usedSlots[c] = {}
    BY TreesHaveNoMask
<1>2. /\ phase = "walk" /\ roots = {} /\ frames = <<>> /\ visiting = NoClass
      /\ firstSlot'[c] = firstSlot[c] /\ vtblSize'[c] = vtblSize[c]
      /\ derived' = derived /\ host' = host /\ slots' = slots
    BY <1>1 DEF AllocateVtables, lattice
<1>3. firstSlot[c] = 0 /\ vtblSize[c] \in Nat
    BY <1>2 DEF UntrimmedInv, TableTypes
<1>4. Settled(c)
    <2>1. ~ Ahead(c)
        BY <1>2 DEF Ahead
    <2> QED
        BY <1>2, <2>1 DEF SettledInv, NoClass, Class
<1>5. ASSUME NEW p \in Param, c \in derived[host[p]]
      PROVE  Assigned(p) /\ 0 <= slots[p] /\ slots[p] < 0 + vtblSize[c]
    <2>1. Assigned(p) /\ slots[p] < vtblSize[c]
        BY <1>4, <1>5 DEF Settled
    <2>2. slots[p] \in Nat
        BY <2>1 DEF WalkTypes, Assigned
    <2> QED
        BY <1>3, <2>1, <2>2
<1>6. vtblSize[c] # 0 => Uses(c, 0) /\ Uses(c, 0 + vtblSize[c] - 1)
    <2>1. vtblSize[c] # 0 =>
              /\ 0 < vtblSize[c]
              /\ 0 + vtblSize[c] - 1 \in Nat /\ 0 + vtblSize[c] - 1 < vtblSize[c]
        BY <1>3
    <2> QED
        BY <1>4, <2>1 DEF Settled
<1> QED
    BY <1>2, <1>3, <1>5, <1>6 DEF Fits, Uses, Assigned

LEMMA FitsStep ==
    ASSUME WalkInv, FitsInv, [Next]_vars
    PROVE  FitsInv'
<1>1. CASE AllocateVtables
    BY <1>1, TreeFits, LatticeFits DEF FitsInv
<1>2. CASE phase = "done" /\ ~ AllocateVtables
    <2>1. frames = <<>> /\ visiting = NoClass
        BY <1>2 DEF WalkInv, StoppedInv
    <2>2. UNCHANGED vars
        BY <1>2, <2>1
           DEF Next, Step, Finished, NextClass, EnterTreeClass, EnterLatticeClass,
               Call, AllocateInTree, AllocateInLattice, LeaveClass, Return
    <2> QED
        BY <2>2 DEF vars, lattice, walk, tables, FitsInv, Fits, Uses, Assigned
<1>3. CASE phase # "done" /\ ~ AllocateVtables
    <2>1. phase' = phase
        BY <1>3
           DEF Next, Step, Finished, NextClass, EnterTreeClass, EnterLatticeClass,
               AllocateInTree, AllocateInLattice, LeaveClass, Return, vars, walk
    <2> QED
        BY <1>3, <2>1 DEF FitsInv
<1> QED
    BY <1>1, <1>2, <1>3

LEMMA EndIsRight == Spec => [](WalkInv /\ FitsInv)
<1>1. Init => WalkInv /\ FitsInv
    BY InitLattice, StartWalkInv DEF Init
<1>2. WalkInv /\ FitsInv /\ [Next]_vars => WalkInv' /\ FitsInv'
    BY WalkInvStep, FitsStep
<1> QED
    BY <1>1, <1>2, PTL DEF Spec

\* Every parameter has a slot, and every class room for its parameters.
LEMMA EndFacts ==
    ASSUME WalkInv, FitsInv
    PROVE  /\ phase = "done" => \A p \in Param : Assigned(p)
           /\ SlotsInsideVtables
<1>1. \A p \in Param : /\ host[p] \in Class /\ host[p] \in derived[host[p]]
                       /\ derived[host[p]] \subseteq Class
    BY LatticeFacts DEF WalkInv, Inv, LatticeInv
<1>2. phase = "done" => \A p \in Param : Assigned(p)
    BY <1>1 DEF FitsInv, Fits
<1>3. SlotsInsideVtables
    BY <1>1 DEF FitsInv, Fits, SlotsInsideVtables
<1> QED
    BY <1>2, <1>3

-----------------------------------------------------------------------------
(* The theorems *)

\* When assign_slots returns, whatever the lattice and however its branches
\* meet again, no virtual parameter is left without a slot.
THEOREM EveryParameterHasASlot ==
    Spec => [](phase = "done" => \A p \in Param : Assigned(p))
<1>1. WalkInv /\ FitsInv => (phase = "done" => \A p \in Param : Assigned(p))
    BY EndFacts
<1> QED
    BY <1>1, EndIsRight, PTL

\* The index m.slots[dim] - cls->first_slot is inside vtbl for every class that
\* can be passed for the parameter, whether the v-table was sized by the walk
\* along a tree or trimmed at the end.
THEOREM IndicesAreInsideVtables == Spec => []SlotsInsideVtables
<1>1. WalkInv /\ FitsInv => SlotsInsideVtables
    BY EndFacts
<1> QED
    BY <1>1, EndIsRight, PTL

\* No v-table has a word before the first or after the last of its class's slots.
THEOREM NoWordIsWasted == Spec => []VtablesAreTight
<1>1. WalkInv /\ FitsInv => VtablesAreTight
    <2> SUFFICES ASSUME WalkInv, FitsInv, phase = "done", NEW c \in Class
                 PROVE  LET mine == { slots[p] : p \in { q \in Param : c \in derived[host[q]] } }
                        IN  IF mine = {} THEN vtblSize[c] = 0
                            ELSE {firstSlot[c], firstSlot[c] + vtblSize[c] - 1} \subseteq mine
        BY DEF VtablesAreTight
    <2> DEFINE mine == { slots[p] : p \in { q \in Param : c \in derived[host[q]] } }
    <2>1. Fits(c)
        BY DEF FitsInv
    <2>2. \A s : Uses(c, s) => s \in mine
        BY DEF Uses
    <2>3. CASE mine = {}
        BY <2>1, <2>2, <2>3 DEF Fits
    <2>4. CASE mine # {}
        <3>1. PICK p \in Param : c \in derived[host[p]]
            BY <2>4
        <3>2. firstSlot[c] <= slots[p] /\ slots[p] < firstSlot[c] + vtblSize[c]
            BY <2>1, <3>1 DEF Fits
        <3>3. firstSlot[c] \in Nat /\ slots[p] \in Nat
            BY <2>1, <3>1
               DEF Fits, WalkInv, Inv, TableTypes, WalkTypes, Assigned
        <3>4. vtblSize[c] # 0
            BY <3>2, <3>3
        <3> QED
            BY <2>1, <2>2, <2>4, <3>4 DEF Fits
    <2> QED
        BY <2>3, <2>4
<1> QED
    BY <1>1, EndIsRight, PTL
=============================================================================
