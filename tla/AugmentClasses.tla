--------------------------- MODULE AugmentClasses ---------------------------
(****************************************************************************)
(* Class registration and registry::compiler::augment_classes: from the     *)
(* class_info objects that use_classes put on the registry's list to the    *)
(* inheritance lattice the rest of the compiler works on.                   *)
(*                                                                          *)
(* Each class_info names the bases of its class among the classes of one    *)
(* use_classes list.  The lattice is put together from these fragments.     *)
(****************************************************************************)
EXTENDS Lattice, FiniteSets, Sequences, Functions

CONSTANTS
    Hierarchies,    \* the C++ inheritance relations considered
    MaxLists        \* bound on the number of use_classes objects

ASSUME HierarchiesAssumption == Hierarchies \subseteq Inheritances
ASSUME MaxListsAssumption == MaxLists \in Nat

VARIABLES
    inherits,       \* the relation the program's class definitions make
    infos,          \* registry::classes, as <<type, bases>> records
    lists,          \* how many use_classes objects were constructed
    stage,          \* "register", then the loops of augment_classes
    cursor,         \* the class_info, then the class the loop has come to
    left, covered,  \* sorted bases still to look at, bases with the loop's mark
    bases,          \* class_::transitive_bases, as a set
    directBases,    \* class_::direct_bases, as a set
    derived         \* class_::transitive_derived

registration == <<inherits, infos, lists>>
result == <<bases, directBases, derived>>
vars == <<registration, stage, cursor, left, covered, result>>

NoBases == [c \in Class |-> {}]

\* The classes with a class_info; class_map holds one class_ for each.
Registered == { infos[i].type : i \in DOMAIN infos }

\* What use_class_aux<Class, Bases...> holds for a class of a list: its bases
\* within the list, itself among them, as std::is_base_of has it.
InfoOf(c, list) ==
    [type |-> c, bases |-> { b \in Range(list) : b = c \/ b \in inherits[c] }]

\* All that can be reached from c along `edges', c included.
Reach(edges, c) ==
    { x \in Class :
        \A S \in SUBSET Class :
            c \in S /\ (\A y \in S : edges[y] \subseteq S) => x \in S }

-----------------------------------------------------------------------------
Init ==
    /\ inherits \in Hierarchies
    /\ infos = <<>>
    /\ lists = 0
    /\ stage = "register"
    /\ cursor = 1
    /\ left = {}
    /\ covered = {}
    /\ bases = NoBases
    /\ directBases = NoBases
    /\ derived = NoBases

\* The order in which a tuple constructs its members is unspecified, and so is
\* the order of static constructors across translation units.
Orders == { list \in UNION { [1 .. n -> Class] : n \in 1 .. NumClasses } :
                IsInjective(list) }

(****************************************************************************)
(* A use_classes object is constructed: its members append their class_info *)
(* to the registry.  Classes are numbered in the order of their first       *)
(* class_info, which is the order of the deque augment_classes fills.       *)
(****************************************************************************)
UseClasses ==
    /\ stage = "register" /\ lists < MaxLists
    /\ \E list \in Orders :
          /\ \A i \in DOMAIN list :
                list[i] > 1 =>
                    \/ list[i] - 1 \in Registered
                    \/ \E j \in 1 .. (i - 1) : list[j] = list[i] - 1
          /\ infos' = infos \o [i \in DOMAIN list |-> InfoOf(list[i], list)]
    /\ lists' = lists + 1
    /\ UNCHANGED <<inherits, stage, cursor, left, covered, result>>

\* The rule for registering classes: all of them, and each with every direct
\* base in at least one list.
RegistrationRule ==
    /\ Registered = Class
    /\ \A c \in Class : \A b \in DirectOf(inherits)[c] :
          \E i \in DOMAIN infos : infos[i].type = c /\ b \in infos[i].bases

\* initialize() is called, and augment_classes enters the classes in class_map.
Initialize ==
    /\ stage = "register"
    /\ RegistrationRule
    /\ stage' = "collect"
    /\ UNCHANGED <<registration, cursor, left, covered, result>>

\* Mutant: a class is a base of itself.
CollectedWithSelf(info) == UNION { Reach(bases, b) : b \in info.bases }

\* collect_transitive_bases(cls, base) for all the bases of one class_info:
\* what the bases have collected by now is collected with them.
Collected(info) ==
    UNION { Reach(bases, b) : b \in info.bases \ {info.type} }

CollectBases ==
    /\ stage = "collect" /\ cursor <= Len(infos)
    /\ LET info == infos[cursor]
       IN  IF info.bases \subseteq Registered
           THEN /\ bases' = [bases EXCEPT ![info.type] = @ \cup Collected(info)]
                /\ cursor' = cursor + 1
                /\ stage' = stage
           ELSE /\ stage' = "missing_class"
                /\ UNCHANGED <<bases, cursor>>
    /\ UNCHANGED <<registration, left, covered, directBases, derived>>

\* Mutant: the mark is not changed for the next class.
StartSortingWithMarks(c) ==
    /\ cursor' = c
    /\ left' = IF c \in Class THEN bases[c] ELSE {}
    /\ covered' = covered

\* The loop that finds direct bases comes to class c and sorts its bases.
StartSorting(c) ==
    /\ cursor' = c
    /\ left' = IF c \in Class THEN bases[c] ELSE {}
    /\ covered' = {}

AllCollected ==
    /\ stage = "collect" /\ cursor > Len(infos)
    /\ stage' = "direct"
    /\ StartSorting(1)
    /\ UNCHANGED <<registration, result>>

\* Mutant: fewer transitive bases first.
MayComeLast(b, S) == \A d \in S : Cardinality(bases[b]) <= Cardinality(bases[d])

\* The order std::sort leaves the bases in: more transitive bases first, in an
\* unspecified order where there are equally many.
MayComeFirst(b, S) ==
    \A d \in S : Cardinality(bases[d]) <= Cardinality(bases[b])

\* One turn of the loop over the sorted bases.
TakeBase ==
    /\ stage = "direct"
    /\ \E b \in left :
          /\ MayComeFirst(b, left)
          /\ left' = left \ {b}
          /\ IF b \in covered
             THEN UNCHANGED <<covered, directBases>>
             ELSE /\ directBases' = [directBases EXCEPT ![cursor] = @ \cup {b}]
                  /\ covered' = covered \cup bases[b]
    /\ UNCHANGED <<registration, stage, cursor, bases, derived>>

\* Mutant: off by one.
NextClassTooMany ==
    /\ stage = "direct" /\ left = {} /\ cursor <= NumClasses + 1
    /\ StartSorting(cursor + 1)
    /\ UNCHANGED <<registration, stage, result>>

NextClass ==
    /\ stage = "direct" /\ left = {} /\ cursor <= NumClasses
    /\ StartSorting(cursor + 1)
    /\ UNCHANGED <<registration, stage, result>>

\* direct_derived is the inverse of direct_bases; calculate_transitive_derived
\* closes it.
CalculateTransitiveDerived ==
    /\ stage = "direct" /\ cursor > NumClasses
    /\ stage' = "done"
    /\ derived' = [c \in Class |-> { d \in Class : c \in Reach(directBases, d) }]
    /\ UNCHANGED <<registration, cursor, left, covered, bases, directBases>>

Compile ==
    \/ CollectBases
    \/ AllCollected
    \/ TakeBase
    \/ NextClass
    \/ CalculateTransitiveDerived

Next == UseClasses \/ Initialize \/ Compile

Spec == Init /\ [][Next]_vars

-----------------------------------------------------------------------------
(* Properties *)

ClassInfo == [type : Class, bases : SUBSET Class]

\* Each variable has the type its C++ counterpart has, and the loops stay
\* within the lists they walk.
TypeOK ==
    /\ inherits \in Inheritances
    /\ infos \in Seq(ClassInfo)
    /\ lists \in 0 .. MaxLists
    /\ stage \in {"register", "collect", "direct", "done", "missing_class"}
    /\ cursor \in 1 .. (IF stage = "collect" THEN Len(infos) + 1
                                              ELSE NumClasses + 1)
    /\ left \in SUBSET Class
    /\ covered \in SUBSET Class
    /\ bases \in [Class -> SUBSET Class]
    /\ directBases \in [Class -> SUBSET Class]
    /\ derived \in [Class -> SUBSET Class]

\* Whatever the order the fragments are collected in, no class is ever taken
\* for a base of itself or of one of its own bases, and registering a class
\* with its bases is enough for initialize() to know all the classes.
BasesAreSound ==
    /\ \A c \in Class : bases[c] \subseteq inherits[c]
    /\ stage # "missing_class"

\* Whatever the order of registration and the ties of the sort, the set of
\* classes that are acceptable where c is expected comes out right, because
\* direct bases are found even when the bases behind them are not.
DerivedIsExact == stage = "done" => derived = DerivedOf(inherits)

\* No direct base is ever hidden behind another base, so a class with several
\* bases is always recognised and never numbered as part of a tree.
NoDirectBaseIsMissed ==
    stage = "done" =>
        \A c \in Class : DirectOf(inherits)[c] \subseteq directBases[c]

\* The class_infos of a class come before those that name it as a base.
BasesFirst ==
    \A i, j \in DOMAIN infos :
        infos[j].type \in infos[i].bases \ {infos[i].type} => j < i

\* When bases are registered before the classes derived from them, all of the
\* lattice is deduced: transitive bases completely, direct bases exactly.
BasesFirstIsExact ==
    stage = "done" /\ BasesFirst =>
        bases = inherits /\ directBases = DirectOf(inherits)
=============================================================================
