------------------------ MODULE AugmentClassesProofs ------------------------
(****************************************************************************)
(* What holds of the lattice for any classes and inheritance, any number    *)
(* and order of use_classes lists, and any ties in the sort.                *)
(****************************************************************************)
EXTENDS AugmentClasses, CompilerTheorems, FiniteSetTheorems

-----------------------------------------------------------------------------
(* Reach *)

\* Nothing outside a set that is closed along the edges is reached from inside.
LEMMA ReachWithin ==
    ASSUME NEW edges, NEW c \in Class, NEW S \in SUBSET Class, c \in S,
           \A y \in S : edges[y] \subseteq S
    PROVE  Reach(edges, c) \subseteq S
BY DEF Reach

\* What a class has an edge to is reached from it, and so is the class itself.
LEMMA ReachHolds ==
    ASSUME NEW edges, NEW c \in Class, edges[c] \subseteq Class
    PROVE  c \in Reach(edges, c) /\ edges[c] \subseteq Reach(edges, c)
           /\ Reach(edges, c) \subseteq Class
BY DEF Reach

\* Along any edges that are inheritance, a class reaches no more than its bases.
LEMMA ReachIsSound ==
    ASSUME NEW B \in Inheritances, NEW edges \in [Class -> SUBSET Class],
           \A c \in Class : edges[c] \subseteq B[c],
           NEW c \in Class
    PROVE  Reach(edges, c) \subseteq {c} \cup B[c]
<1> DEFINE S == {c} \cup B[c]
<1>1. S \in SUBSET Class /\ c \in S
  BY InheritanceFacts
<1>2. \A y \in S : edges[y] \subseteq S
  BY InheritanceFacts
<1>3. Reach(edges, c) \subseteq S
  <2> HIDE DEF S
  <2> QED
    BY <1>1, <1>2, ReachWithin
<1> QED
  BY <1>3

\* Along edges that lead to all direct bases, a class reaches all its bases.
LEMMA ReachIsComplete ==
    ASSUME NEW B \in Inheritances, NEW edges,
           \A c \in Class : DirectOf(B)[c] \subseteq edges[c],
           NEW c \in Class
    PROVE  {c} \cup B[c] \subseteq Reach(edges, c)
<1> SUFFICES ASSUME NEW S \in SUBSET Class, c \in S,
                    \A y \in S : edges[y] \subseteq S,
                    NEW m \in B[c], m \notin S
             PROVE  FALSE
  BY InheritanceFacts DEF Reach
<1> DEFINE U == { x \in S : (x = c \/ x \in B[c]) /\ m \in B[x] }
<1>1. U \subseteq Class /\ c \in U
  OBVIOUS
<1>2. PICK x \in U : B[x] \cap U = {}
  <2> HIDE DEF U
  <2> QED
    BY <1>1, MostBasicMember
<1>3. x \in Class /\ x \in S /\ m \in B[x] /\ (x = c \/ x \in B[c])
  OBVIOUS
<1>4. m \notin DirectOf(B)[x]
  BY <1>3
<1>5. PICK e \in DirectOf(B)[x] : m \in B[e]
  BY <1>3, <1>4, DirectCover
<1>6. e \in B[x] /\ e \in S
  BY <1>3, DirectFacts
<1>7. e \in B[c]
  BY <1>3, <1>6, InheritanceFacts
<1> QED
  BY <1>2, <1>5, <1>6, <1>7

-----------------------------------------------------------------------------
(* The inductive invariant *)

\* Every class_info names proper bases of its class, and perhaps the class.
InfosInv ==
    \A i \in DOMAIN infos :
        infos[i].bases \subseteq {infos[i].type} \cup inherits[infos[i].type]

\* The class_infos the first loop has been through.
IsSeen(i) == stage \in {"direct", "done"} \/ (stage = "collect" /\ i < cursor)

CollectInv ==
    /\ stage = "register" => cursor = 1
    /\ stage # "register" => RegistrationRule
    /\ \A i \in DOMAIN infos : IsSeen(i) =>
          infos[i].bases \ {infos[i].type} \subseteq bases[infos[i].type]
    /\ BasesFirst =>
          \A i \in DOMAIN infos : IsSeen(i) =>
              \A b \in infos[i].bases \ {infos[i].type} :
                  inherits[b] \subseteq bases[infos[i].type]

Direct == DirectOf(inherits)

\* The second loop: what it has covered is behind a base, so that no direct base
\* is; when the bases are complete, all that is behind a base it has passed is
\* covered.
SortInv ==
  /\ stage = "direct" /\ cursor \notin Class => left = {}
  /\ stage = "direct" /\ cursor \in Class =>
        /\ left \subseteq bases[cursor]
        /\ \A x \in covered : \E b \in inherits[cursor] : x \in inherits[b]
        /\ Direct[cursor] \subseteq left \cup directBases[cursor]
        /\ BasesFirst =>
              /\ \A d \in bases[cursor] \ left : bases[d] \subseteq covered
              /\ \A x \in covered : bases[x] \subseteq covered

DirectInv ==
    /\ stage \notin {"direct", "done"} => \A c \in Class : directBases[c] = {}
    /\ \A c \in Class : directBases[c] \subseteq bases[c]
    /\ stage = "direct" =>
          \A c \in Class : c < cursor => Direct[c] \subseteq directBases[c]
    /\ stage = "done" => \A c \in Class : Direct[c] \subseteq directBases[c]
    /\ BasesFirst => \A c \in Class : directBases[c] \subseteq Direct[c]

Inv ==
    /\ TypeOK
    /\ BasesAreSound
    /\ InfosInv
    /\ CollectInv
    /\ SortInv
    /\ DirectInv
    /\ DerivedIsExact

-----------------------------------------------------------------------------
(* What the invariant implies *)

\* When all class_infos have been seen, no direct base is missing.
LEMMA DirectAreCollected ==
    ASSUME Inv, stage # "register", \A i \in DOMAIN infos : IsSeen(i),
           NEW c \in Class
    PROVE  Direct[c] \subseteq bases[c]
<1> SUFFICES ASSUME NEW b \in Direct[c] PROVE b \in bases[c]
  OBVIOUS
<1>1. RegistrationRule
  BY DEF Inv, CollectInv
<1>2. PICK i \in DOMAIN infos : infos[i].type = c /\ b \in infos[i].bases
  BY <1>1 DEF RegistrationRule, Direct
<1>3. b # c
  BY InheritanceFacts, DirectFacts DEF Inv, TypeOK, Direct
<1> QED
  BY <1>2, <1>3 DEF Inv, CollectInv

\* When the class_infos of a class have been seen, and bases come first, all the
\* bases of the class have been found.
LEMMA SeenAreComplete ==
    ASSUME Inv, BasesFirst, stage # "register", NEW c \in Class,
           \A i \in DOMAIN infos : infos[i].type = c => IsSeen(i)
    PROVE  bases[c] = inherits[c]
<1>1. inherits \in Inheritances /\ bases[c] \subseteq inherits[c]
  BY DEF Inv, TypeOK, BasesAreSound
<1>2. ASSUME NEW d \in Direct[c]
      PROVE  {d} \cup inherits[d] \subseteq bases[c]
  <2>1. PICK i \in DOMAIN infos : infos[i].type = c /\ d \in infos[i].bases
    BY DEF Inv, CollectInv, RegistrationRule, Direct
  <2>2. d # c
    BY <1>1, InheritanceFacts, DirectFacts DEF Direct
  <2> QED
    BY <2>1, <2>2 DEF Inv, CollectInv
<1>3. ASSUME NEW x \in inherits[c] PROVE x \in bases[c]
  <2>1. CASE x \in Direct[c]
    BY <1>2, <2>1
  <2>2. CASE x \notin Direct[c]
    <3>1. PICK e \in Direct[c] : x \in inherits[e]
      BY <1>1, <2>2, DirectCover DEF Direct
    <3> QED
      BY <3>1, <1>2
  <2> QED
    BY <2>1, <2>2
<1> QED
  BY <1>1, <1>3

\* A class has more bases than each of its bases.
LEMMA BasesHaveFewer ==
    ASSUME NEW B \in Inheritances, NEW c \in Class, NEW b \in B[c]
    PROVE  Cardinality(B[b]) < Cardinality(B[c])
<1>1. /\ B[c] \subseteq Class /\ B[b] \subseteq B[c]
      /\ b \in Class /\ b \notin B[b]
  BY InheritanceFacts
<1>2. IsFiniteSet(Class)
  BY FS_Interval, NumClassesAssumption DEF Class
<1>3. IsFiniteSet(B[c])
  BY <1>1, <1>2, FS_Subset
<1>4. B[b] # B[c]
  BY <1>1
<1>5. ASSUME NEW S, IsFiniteSet(S), NEW T \in SUBSET S, T # S
      PROVE  Cardinality(T) < Cardinality(S)
  <2>1. Cardinality(S) \in Nat /\ Cardinality(T) \in Nat
    BY <1>5, FS_Subset, FS_CardinalityType
  <2> QED
    BY <1>5, <2>1, FS_Subset
<1> QED
  BY <1>1, <1>3, <1>4, <1>5

-----------------------------------------------------------------------------
(* The steps *)

LEMMA Initially == ASSUME Init PROVE Inv
<1>1. inherits \in Inheritances
  BY HierarchiesAssumption DEF Init
<1>2. TypeOK
  BY <1>1, NumClassesAssumption, MaxListsAssumption
     DEF Init, TypeOK, NoBases, ClassInfo
<1>3. BasesAreSound /\ InfosInv /\ SortInv /\ DerivedIsExact
  BY DEF Init, BasesAreSound, InfosInv, SortInv, DerivedIsExact, NoBases
<1>4. CollectInv
  BY DEF Init, CollectInv, IsSeen
<1>5. DirectInv
  BY DEF Init, DirectInv, NoBases
<1> QED
  BY <1>2, <1>3, <1>4, <1>5 DEF Inv

\* The steps that register nothing leave the class_infos as they are.
LEMMA RegistrationIsKept ==
    ASSUME Inv, UNCHANGED registration
    PROVE  /\ InfosInv' /\ Direct' = Direct
           /\ BasesFirst' = BasesFirst /\ RegistrationRule' = RegistrationRule
BY DEF Inv, registration, InfosInv, Direct, BasesFirst, RegistrationRule, Registered

\* What the elements of a list are when another is appended to it.
LEMMA Appending ==
    ASSUME NEW S, NEW s \in Seq(S), NEW t \in Seq(S)
    PROVE  /\ s \o t \in Seq(S)
           /\ \A i \in DOMAIN s : i \in DOMAIN (s \o t) /\ (s \o t)[i] = s[i]
           /\ \A i \in DOMAIN (s \o t) : i \notin DOMAIN s =>
                  i - Len(s) \in DOMAIN t /\ (s \o t)[i] = t[i - Len(s)]
OBVIOUS

LEMMA Registering == ASSUME Inv, UseClasses PROVE Inv'
<1>1. /\ TypeOK /\ BasesAreSound /\ InfosInv /\ CollectInv /\ DirectInv
      /\ stage = "register"
      /\ UNCHANGED <<inherits, stage, cursor, left, covered, bases, directBases, derived>>
      /\ lists' \in 0 .. MaxLists
  BY MaxListsAssumption DEF Inv, UseClasses, result, TypeOK
<1>2. PICK list \in Orders :
          infos' = infos \o [i \in DOMAIN list |-> InfoOf(list[i], list)]
  BY DEF UseClasses
<1>3. PICK n \in 1 .. NumClasses : list \in [1 .. n -> Class]
  BY DEF Orders
<1> DEFINE added == [i \in 1 .. n |-> InfoOf(list[i], list)]
<1>4. DOMAIN list = 1 .. n /\ Range(list) \subseteq Class /\ n \in Nat
  BY <1>3, NumClassesAssumption DEF Range
<1>5. added \in Seq(ClassInfo) /\ DOMAIN added = 1 .. n
  <2>1. \A i \in 1 .. n : InfoOf(list[i], list) \in ClassInfo
    BY <1>3, <1>4 DEF InfoOf, ClassInfo
  <2>2. added \in [1 .. n -> ClassInfo]
    BY <2>1
  <2> QED
    BY <2>2, <1>4
<1>6. infos \in Seq(ClassInfo) /\ infos' = infos \o added
  BY <1>1, <1>2, <1>4 DEF TypeOK
<1>7. /\ infos' \in Seq(ClassInfo)
      /\ \A i \in DOMAIN infos : i \in DOMAIN infos' /\ infos'[i] = infos[i]
      /\ \A i \in DOMAIN infos' : i \notin DOMAIN infos =>
             i - Len(infos) \in 1 .. n /\ infos'[i] = added[i - Len(infos)]
  <2> HIDE DEF added
  <2> QED
    BY <1>5, <1>6, Appending
<1>8. TypeOK'
  <2>1. cursor' \in 1 .. (IF stage' = "collect" THEN Len(infos') + 1
                                                ELSE NumClasses + 1)
    BY <1>1 DEF TypeOK
  <2> QED
    BY <1>1, <1>7, <2>1 DEF TypeOK
<1>9. InfosInv'
  <2> SUFFICES ASSUME NEW i \in DOMAIN infos'
               PROVE  infos'[i].bases \subseteq {infos'[i].type} \cup inherits[infos'[i].type]
    BY <1>1 DEF InfosInv
  <2>1. CASE i \in DOMAIN infos
    BY <1>1, <1>7, <2>1 DEF InfosInv
  <2>2. CASE i \notin DOMAIN infos
    <3>1. PICK j \in 1 .. n : infos'[i] = added[j]
      BY <1>7, <2>2
    <3>2. infos'[i] = InfoOf(list[j], list)
      BY <3>1
    <3> QED
      BY <3>2 DEF InfoOf
  <2> QED
    BY <2>1, <2>2
<1>10. BasesAreSound' /\ SortInv' /\ DerivedIsExact'
  BY <1>1 DEF BasesAreSound, SortInv, DerivedIsExact
<1>11. CollectInv'
  BY <1>1 DEF CollectInv, IsSeen
<1>12. DirectInv'
  BY <1>1, InheritanceFacts DEF DirectInv
<1> QED
  BY <1>8, <1>9, <1>10, <1>11, <1>12 DEF Inv

LEMMA Initializing == ASSUME Inv, Initialize PROVE Inv'
<1>1. /\ TypeOK /\ BasesAreSound /\ CollectInv /\ DirectInv
      /\ stage = "register" /\ stage' = "collect" /\ RegistrationRule
      /\ UNCHANGED <<inherits, infos, lists, cursor, left, covered, bases,
                     directBases, derived>>
  BY DEF Inv, Initialize, registration, result
<1>2. /\ InfosInv' /\ Direct' = Direct /\ (BasesFirst' <=> BasesFirst)
      /\ RegistrationRule'
  BY <1>1, RegistrationIsKept DEF registration
<1>3. TypeOK'
  BY <1>1 DEF TypeOK, CollectInv
<1>4. CollectInv'
  <2>1. cursor' = 1
    BY <1>1 DEF CollectInv
  <2>2. \A i \in DOMAIN infos' : ~ IsSeen(i)'
    BY <1>1, <2>1 DEF IsSeen, TypeOK
  <2> QED
    BY <1>1, <1>2, <2>2 DEF CollectInv
<1>5. BasesAreSound' /\ SortInv' /\ DerivedIsExact'
  BY <1>1 DEF BasesAreSound, SortInv, DerivedIsExact
<1>6. DirectInv'
  BY <1>1, <1>2 DEF DirectInv
<1> QED
  BY <1>2, <1>3, <1>4, <1>5, <1>6 DEF Inv

\* What a class_info on the list holds.
LEMMA InfoHolds ==
    ASSUME infos \in Seq(ClassInfo), NEW i \in DOMAIN infos
    PROVE  /\ infos[i] \in ClassInfo
           /\ infos[i].type \in Class /\ infos[i].bases \subseteq Class
<1>1. infos[i] \in ClassInfo
  OBVIOUS
<1> QED
  BY <1>1 DEF ClassInfo

LEMMA Collecting == ASSUME Inv, CollectBases PROVE Inv'
<1> DEFINE info == infos[cursor]
           t == info.type
<1>1. /\ TypeOK /\ BasesAreSound /\ InfosInv /\ CollectInv /\ DirectInv
      /\ stage = "collect" /\ RegistrationRule
      /\ UNCHANGED <<inherits, infos, lists, left, covered, directBases, derived>>
  BY DEF Inv, CollectBases, registration, CollectInv
<1>2. cursor \in DOMAIN infos /\ cursor \in Nat /\ Len(infos) \in Nat
  BY <1>1 DEF CollectBases, TypeOK
<1>3. info \in ClassInfo /\ t \in Class /\ info.bases \subseteq Class
  BY <1>1, <1>2, InfoHolds DEF TypeOK
<1>4. /\ bases' = [bases EXCEPT ![t] = @ \cup Collected(info)]
      /\ cursor' = cursor + 1 /\ stage' = stage
  BY <1>1, <1>3 DEF CollectBases, RegistrationRule
<1>5. /\ inherits \in Inheritances /\ bases \in [Class -> SUBSET Class]
      /\ \A c \in Class : bases[c] \subseteq inherits[c]
  BY <1>1 DEF TypeOK, BasesAreSound
<1>6. ASSUME NEW b \in info.bases, b # t
      PROVE  /\ b \in inherits[t] /\ b \in Class
             /\ b \in Reach(bases, b) /\ bases[b] \subseteq Reach(bases, b)
             /\ Reach(bases, b) \subseteq inherits[t]
             /\ BasesFirst => bases[b] = inherits[b]
  <2>1. b \in inherits[t] /\ b \in Class
    BY <1>1, <1>2, <1>3, <1>6 DEF InfosInv
  <2>2. b \in Reach(bases, b) /\ bases[b] \subseteq Reach(bases, b)
    BY <1>5, <2>1, ReachHolds
  <2>3. Reach(bases, b) \subseteq {b} \cup inherits[b]
    BY <1>5, <2>1, ReachIsSound
  <2>4. inherits[b] \subseteq inherits[t]
    BY <1>3, <1>5, <2>1, InheritanceFacts
  <2>5. ASSUME BasesFirst PROVE bases[b] = inherits[b]
    <3>1. \A j \in DOMAIN infos : infos[j].type = b => IsSeen(j)
      BY <1>1, <1>2, <1>6, <2>5 DEF BasesFirst, IsSeen
    <3> QED
      BY <1>1, <2>1, <2>5, <3>1, SeenAreComplete
  <2> QED
    BY <2>1, <2>2, <2>3, <2>4, <2>5
<1>7. /\ Collected(info) \subseteq inherits[t]
      /\ info.bases \ {t} \subseteq Collected(info)
      /\ BasesFirst => \A b \in info.bases \ {t} :
                           inherits[b] \subseteq Collected(info)
  BY <1>6 DEF Collected
<1>8. /\ bases' \in [Class -> SUBSET Class]
      /\ \A c \in Class : bases[c] \subseteq bases'[c]
      /\ Collected(info) \subseteq bases'[t]
      /\ \A c \in Class : bases'[c] \subseteq inherits[c]
  <2>1. Collected(info) \subseteq Class
    BY <1>3, <1>5, <1>7, InheritanceFacts
  <2> HIDE DEF t, info
  <2> QED
    BY <1>3, <1>4, <1>5, <1>7, <2>1
<1>9. /\ InfosInv' /\ Direct' = Direct /\ (BasesFirst' <=> BasesFirst)
      /\ RegistrationRule'
  BY <1>1, RegistrationIsKept DEF registration, Inv, CollectBases
<1>10. TypeOK'
  BY <1>1, <1>2, <1>4, <1>8 DEF TypeOK
<1>11. CollectInv'
  <2>1. ASSUME NEW i \in DOMAIN infos, IsSeen(i)'
        PROVE  /\ infos[i].bases \ {infos[i].type} \subseteq bases'[infos[i].type]
               /\ BasesFirst => \A b \in infos[i].bases \ {infos[i].type} :
                                    inherits[b] \subseteq bases'[infos[i].type]
    <3>1. infos[i].type \in Class
      BY <1>1, InfoHolds DEF TypeOK
    <3>2. CASE i = cursor
      BY <1>7, <1>8, <3>2
    <3>3. CASE i # cursor
      <4>1. IsSeen(i)
        BY <1>1, <1>2, <1>4, <2>1, <3>3 DEF IsSeen, TypeOK
      <4> QED
        BY <1>1, <1>8, <3>1, <4>1 DEF CollectInv
    <3> QED
      BY <3>2, <3>3
  <2> QED
    BY <1>1, <1>4, <1>9, <2>1 DEF CollectInv
<1>12. BasesAreSound' /\ SortInv' /\ DerivedIsExact'
  BY <1>1, <1>4, <1>8 DEF BasesAreSound, SortInv, DerivedIsExact
<1>13. DirectInv'
  BY <1>1, <1>4, <1>9 DEF DirectInv
<1> QED
  BY <1>9, <1>10, <1>11, <1>12, <1>13 DEF Inv

LEMMA SortingStarts == ASSUME Inv, AllCollected PROVE Inv'
<1>1. /\ TypeOK /\ BasesAreSound /\ CollectInv /\ DirectInv
      /\ stage = "collect" /\ RegistrationRule
      /\ UNCHANGED <<inherits, infos, lists, bases, directBases, derived>>
      /\ stage' = "direct" /\ cursor > Len(infos) /\ cursor' = 1
      /\ left' = (IF 1 \in Class THEN bases[1] ELSE {}) /\ covered' = {}
  BY DEF Inv, AllCollected, StartSorting, registration, result, CollectInv
<1>2. /\ InfosInv' /\ Direct' = Direct /\ (BasesFirst' <=> BasesFirst)
      /\ RegistrationRule'
  BY <1>1, RegistrationIsKept DEF registration
<1>3. \A i \in DOMAIN infos : IsSeen(i)
  BY <1>1 DEF IsSeen, TypeOK
<1>4. \A c \in Class : Direct[c] \subseteq bases[c]
  BY <1>1, <1>3, DirectAreCollected
<1>5. TypeOK'
  BY <1>1, NumClassesAssumption DEF TypeOK
<1>6. CollectInv'
  BY <1>1, <1>2, <1>3 DEF CollectInv
<1>7. SortInv'
  BY <1>1, <1>2, <1>4 DEF SortInv
<1>8. BasesAreSound' /\ DerivedIsExact'
  BY <1>1 DEF BasesAreSound, DerivedIsExact
<1>9. DirectInv'
  BY <1>1, <1>2 DEF DirectInv, Class
<1> QED
  BY <1>2, <1>5, <1>6, <1>7, <1>8, <1>9 DEF Inv

LEMMA Taking == ASSUME Inv, TakeBase PROVE Inv'
<1>1. /\ TypeOK /\ BasesAreSound /\ CollectInv /\ SortInv /\ DirectInv
      /\ stage = "direct" /\ RegistrationRule
      /\ UNCHANGED <<inherits, infos, lists, stage, cursor, bases, derived>>
  BY DEF Inv, TakeBase, registration, CollectInv
<1>2. PICK b \in left :
          /\ MayComeFirst(b, left)
          /\ left' = left \ {b}
          /\ IF b \in covered
             THEN UNCHANGED <<covered, directBases>>
             ELSE /\ directBases' = [directBases EXCEPT ![cursor] = @ \cup {b}]
                  /\ covered' = covered \cup bases[b]
  BY DEF TakeBase
<1>3. /\ cursor \in Class /\ left \subseteq bases[cursor]
      /\ \A x \in covered : \E d \in inherits[cursor] : x \in inherits[d]
      /\ Direct[cursor] \subseteq left \cup directBases[cursor]
      /\ BasesFirst =>
            /\ \A d \in bases[cursor] \ left : bases[d] \subseteq covered
            /\ \A x \in covered : bases[x] \subseteq covered
  BY <1>1, <1>2 DEF SortInv
<1>4. /\ inherits \in Inheritances /\ bases \in [Class -> SUBSET Class]
      /\ directBases \in [Class -> SUBSET Class]
      /\ covered \subseteq Class /\ left \subseteq Class
      /\ \A c \in Class : bases[c] \subseteq inherits[c]
      /\ b \in Class /\ b \in inherits[cursor]
      /\ bases[b] \subseteq inherits[b] /\ bases[b] \subseteq Class
  BY <1>1, <1>3 DEF TypeOK, BasesAreSound
<1>5. /\ InfosInv' /\ Direct' = Direct /\ (BasesFirst' <=> BasesFirst)
      /\ RegistrationRule'
  BY <1>1, RegistrationIsKept DEF registration
<1>6. BasesFirst => bases = inherits
  <2>1. ASSUME BasesFirst, NEW c \in Class PROVE bases[c] = inherits[c]
    BY <1>1, <2>1, SeenAreComplete DEF IsSeen
  <2>2. inherits \in [Class -> SUBSET Class]
    BY <1>4, InheritanceFacts
  <2> QED
    BY <1>4, <2>1, <2>2
<1>7. /\ covered' \subseteq Class /\ left' \subseteq Class
      /\ directBases' \in [Class -> SUBSET Class]
      /\ \A c \in Class \ {cursor} : directBases'[c] = directBases[c]
      /\ directBases[cursor] \subseteq directBases'[cursor]
      /\ directBases'[cursor] \subseteq directBases[cursor] \cup {b}
  BY <1>2, <1>3, <1>4
<1>8. \A x \in covered : x \notin Direct[cursor]
  BY <1>3, <1>4 DEF Direct, DirectOf
<1>9. ASSUME BasesFirst, b \notin covered PROVE b \in Direct[cursor]
  <2>1. SUFFICES ASSUME NEW d \in inherits[cursor], b \in inherits[d]
                 PROVE  FALSE
    BY <1>3, <1>4, DirectFacts DEF Direct
  <2>2. d \in Class /\ bases = inherits
    BY <1>3, <1>4, <1>6, <1>9, InheritanceFacts
  <2>3. CASE d \in left
    <3>1. Cardinality(inherits[d]) <= Cardinality(inherits[b])
      BY <1>2, <2>2, <2>3 DEF MayComeFirst
    <3>2. Cardinality(inherits[b]) < Cardinality(inherits[d])
      BY <1>4, <2>1, <2>2, BasesHaveFewer
    <3>3. /\ Cardinality(inherits[b]) \in Nat
          /\ Cardinality(inherits[d]) \in Nat
      <4>1. IsFiniteSet(Class)
        BY FS_Interval, NumClassesAssumption DEF Class
      <4>2. inherits[b] \subseteq Class /\ inherits[d] \subseteq Class
        BY <1>4, <2>2
      <4> QED
        BY <4>1, <4>2, FS_Subset, FS_CardinalityType
    <3> QED
      BY <3>1, <3>2, <3>3
  <2>4. CASE d \notin left
    BY <1>3, <1>9, <2>1, <2>2, <2>4
  <2> QED
    BY <2>3, <2>4
<1>10. TypeOK'
  BY <1>1, <1>7 DEF TypeOK
<1>11. CollectInv'
  BY <1>1, <1>5 DEF CollectInv, IsSeen
<1>12. SortInv'
  <2>1. \A x \in covered' : \E d \in inherits[cursor] : x \in inherits[d]
    BY <1>2, <1>3, <1>4
  <2>2. Direct[cursor] \subseteq left' \cup directBases'[cursor]
    <3>1. CASE b \in covered
      BY <1>2, <1>3, <1>8, <3>1
    <3>2. CASE b \notin covered
      BY <1>2, <1>3, <1>4, <3>2
    <3> QED
      BY <3>1, <3>2
  <2>3. ASSUME BasesFirst
        PROVE  /\ \A d \in bases[cursor] \ left' : bases[d] \subseteq covered'
               /\ \A x \in covered' : bases[x] \subseteq covered'
    <3>1. CASE b \in covered
      BY <1>2, <1>3, <2>3, <3>1
    <3>2. CASE b \notin covered
      <4>1. \A x \in bases[b] : bases[x] \subseteq bases[b]
        BY <1>4, <1>6, <2>3, InheritanceFacts
      <4> QED
        BY <1>2, <1>3, <2>3, <3>2, <4>1
    <3> QED
      BY <3>1, <3>2
  <2> QED
    BY <1>1, <1>2, <1>3, <1>5, <2>1, <2>2, <2>3 DEF SortInv
<1>13. BasesAreSound' /\ DerivedIsExact'
  BY <1>1 DEF BasesAreSound, DerivedIsExact
<1>14. DirectInv'
  <2>1. \A c \in Class : directBases'[c] \subseteq bases[c]
    BY <1>1, <1>2, <1>3, <1>7 DEF DirectInv
  <2>2. \A c \in Class : c < cursor => Direct[c] \subseteq directBases'[c]
    BY <1>1, <1>7 DEF DirectInv
  <2>3. BasesFirst => \A c \in Class : directBases'[c] \subseteq Direct[c]
    <3>1. CASE b \in covered
      BY <1>1, <1>2, <3>1 DEF DirectInv
    <3>2. CASE b \notin covered
      BY <1>1, <1>7, <1>9, <3>2 DEF DirectInv
    <3> QED
      BY <3>1, <3>2
  <2> QED
    BY <1>1, <1>5, <2>1, <2>2, <2>3 DEF DirectInv
<1> QED
  BY <1>5, <1>10, <1>11, <1>12, <1>13, <1>14 DEF Inv

LEMMA Advancing == ASSUME Inv, NextClass PROVE Inv'
<1>1. /\ TypeOK /\ BasesAreSound /\ CollectInv /\ SortInv /\ DirectInv
      /\ stage = "direct" /\ RegistrationRule /\ left = {}
      /\ UNCHANGED <<inherits, infos, lists, stage, bases, directBases, derived>>
      /\ cursor <= NumClasses /\ cursor' = cursor + 1
      /\ left' = (IF cursor + 1 \in Class THEN bases[cursor + 1] ELSE {})
      /\ covered' = {}
  BY DEF Inv, NextClass, StartSorting, registration, result, CollectInv
<1>2. /\ InfosInv' /\ Direct' = Direct /\ (BasesFirst' <=> BasesFirst)
      /\ RegistrationRule'
  BY <1>1, RegistrationIsKept DEF registration
<1>3. cursor \in Class /\ cursor \in Nat /\ cursor' \in 1 .. NumClasses + 1
  BY <1>1, NumClassesAssumption DEF TypeOK, Class
<1>4. \A c \in Class : Direct[c] \subseteq bases[c]
  BY <1>1, DirectAreCollected DEF IsSeen
<1>5. TypeOK'
  BY <1>1, <1>3 DEF TypeOK
<1>6. CollectInv'
  BY <1>1, <1>2 DEF CollectInv, IsSeen
<1>7. SortInv'
  BY <1>1, <1>2, <1>4 DEF SortInv
<1>8. BasesAreSound' /\ DerivedIsExact'
  BY <1>1 DEF BasesAreSound, DerivedIsExact
<1>9. DirectInv'
  <2>1. ASSUME NEW c \in Class, c < cursor + 1
        PROVE  Direct[c] \subseteq directBases[c]
    <3>1. c = cursor \/ c < cursor
      BY <1>3, <2>1 DEF Class
    <3> QED
      BY <1>1, <1>3, <3>1 DEF SortInv, DirectInv
  <2> QED
    BY <1>1, <1>2, <2>1 DEF DirectInv
<1> QED
  BY <1>2, <1>5, <1>6, <1>7, <1>8, <1>9 DEF Inv

LEMMA Closing == ASSUME Inv, CalculateTransitiveDerived PROVE Inv'
<1>1. /\ TypeOK /\ BasesAreSound /\ CollectInv /\ DirectInv
      /\ stage = "direct" /\ stage' = "done" /\ RegistrationRule
      /\ UNCHANGED <<inherits, infos, lists, cursor, left, covered, bases,
                     directBases>>
      /\ cursor > NumClasses
      /\ derived' = [c \in Class |-> { d \in Class : c \in Reach(directBases, d) }]
  BY DEF Inv, CalculateTransitiveDerived, registration, CollectInv
<1>2. /\ InfosInv' /\ Direct' = Direct /\ (BasesFirst' <=> BasesFirst)
      /\ RegistrationRule'
  BY <1>1, RegistrationIsKept DEF registration
<1>3. \A c \in Class : Direct[c] \subseteq directBases[c]
  BY <1>1, NumClassesAssumption DEF DirectInv, Class, TypeOK
<1>4. /\ inherits \in Inheritances /\ directBases \in [Class -> SUBSET Class]
      /\ \A c \in Class : directBases[c] \subseteq inherits[c]
  BY <1>1 DEF TypeOK, BasesAreSound, DirectInv
<1>5. \A d \in Class : Reach(directBases, d) = {d} \cup inherits[d]
  BY <1>3, <1>4, ReachIsSound, ReachIsComplete DEF Direct
<1>6. derived' = DerivedOf(inherits)
  BY <1>1, <1>5 DEF DerivedOf
<1>7. TypeOK'
  BY <1>1 DEF TypeOK
<1>8. CollectInv'
  BY <1>1, <1>2 DEF CollectInv, IsSeen
<1>9. BasesAreSound' /\ SortInv' /\ DerivedIsExact'
  BY <1>1, <1>6 DEF BasesAreSound, SortInv, DerivedIsExact
<1>10. DirectInv'
  BY <1>1, <1>2, <1>3 DEF DirectInv
<1> QED
  BY <1>2, <1>7, <1>8, <1>9, <1>10 DEF Inv

LEMMA Stuttering == ASSUME Inv, UNCHANGED vars PROVE Inv'
<1>1. UNCHANGED <<inherits, infos, lists, stage, cursor, left, covered, bases,
                  directBases, derived>>
  BY DEF vars, registration, result
<1>2. /\ InfosInv' /\ Direct' = Direct /\ (BasesFirst' <=> BasesFirst)
      /\ RegistrationRule' <=> RegistrationRule
  BY <1>1, RegistrationIsKept DEF registration
<1>3. TypeOK' /\ BasesAreSound' /\ DerivedIsExact'
  BY <1>1 DEF Inv, TypeOK, BasesAreSound, DerivedIsExact
<1>4. CollectInv'
  BY <1>1, <1>2 DEF Inv, CollectInv, IsSeen
<1>5. SortInv' /\ DirectInv'
  BY <1>1, <1>2 DEF Inv, SortInv, DirectInv
<1> QED
  BY <1>2, <1>3, <1>4, <1>5 DEF Inv

-----------------------------------------------------------------------------
(* The theorems *)

\* The invariant holds whatever is registered, in any order.
THEOREM Invariance == Spec => []Inv
<1>1. Init => Inv
  BY Initially
<1>2. Inv /\ [Next]_vars => Inv'
  BY Registering, Initializing, Collecting, SortingStarts, Taking, Advancing,
     Closing, Stuttering DEF Next, Compile
<1> QED
  BY <1>1, <1>2, PTL DEF Spec

\* The loops of augment_classes stay within the lists they walk, and what they
\* build are relations between registered classes.
THEOREM TypeCorrectness == Spec => []TypeOK
BY Invariance, PTL DEF Inv

\* augment_classes never takes a class for a base of itself or of one of its own
\* bases, and with all bases registered it never reports a missing class.
THEOREM BasesAreAlwaysSound == Spec => []BasesAreSound
BY Invariance, PTL DEF Inv

\* transitive_derived is the documented relation for every order of registration
\* and every order std::sort leaves equal elements in.
THEOREM DerivedIsAlwaysExact == Spec => []DerivedIsExact
BY Invariance, PTL DEF Inv

\* No direct base is ever hidden behind another base.
THEOREM NoDirectBaseIsEverMissed == Spec => []NoDirectBaseIsMissed
<1>1. Inv => NoDirectBaseIsMissed
  BY DEF Inv, DirectInv, NoDirectBaseIsMissed, Direct
<1> QED
  BY <1>1, Invariance, PTL

\* When bases are registered first, the lattice is the inheritance relation.
THEOREM BasesFirstIsAlwaysExact == Spec => []BasesFirstIsExact
<1>1. Inv => BasesFirstIsExact
  <2> SUFFICES ASSUME Inv, stage = "done", BasesFirst
               PROVE  bases = inherits /\ directBases = Direct
    BY DEF BasesFirstIsExact, Direct
  <2>1. /\ inherits \in [Class -> SUBSET Class]
        /\ bases \in [Class -> SUBSET Class]
        /\ directBases \in [Class -> SUBSET Class]
    BY InheritanceFacts DEF Inv, TypeOK
  <2>2. \A c \in Class : bases[c] = inherits[c]
    BY SeenAreComplete DEF IsSeen
  <2>3. \A c \in Class : directBases[c] = Direct[c]
    BY DEF Inv, DirectInv
  <2>4. Direct = [c \in Class |-> Direct[c]]
    BY DEF Direct, DirectOf
  <2> QED
    BY <2>1, <2>2, <2>3, <2>4
<1> QED
  BY <1>1, Invariance, PTL
=============================================================================
