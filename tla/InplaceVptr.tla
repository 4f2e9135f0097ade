----------------------------- MODULE InplaceVptr ----------------------------
(****************************************************************************)
(* The v-table pointers that inplace_vptr_base embeds in an object, one in  *)
(* each root class: constructors set them, class after class, destructors   *)
(* set them back.  Classes are numbered in the order of construction.  Two  *)
(* classes with a common base inherit from it virtually, so that an object  *)
(* has one subobject of each of its classes.                                *)
(****************************************************************************)
EXTENDS Registry

CONSTANT ObjectClass    \* the class of the one object

ASSUME ObjectClassAssumption == ObjectClass \in Class

VARIABLES
    life,           \* "none", "constructing", "complete" or "destroying", and
                    \* the class whose constructor or destructor body runs
    embedded,       \* boost_openmethod_vptr of each root
    freshRoots      \* the roots set since initialize() last succeeded

inplaceVars == <<life, embedded, freshRoots>>

Subobjects(c) == Bases[c] \cup {c}
Roots(c) == { r \in Subobjects(c) : Bases[r] = {} }

\* Inheritance has no circles.
ASSUME RootsAssumption ==
    \A c \in Class : \E r \in Roots(c) : \A q \in Roots(c) : r <= q

\* Classes are constructed after their bases, and have the bases of these.
ASSUME OrderAssumption ==
    \A c \in Class : \A b \in Bases[c] : b < c /\ Bases[b] \subseteq Bases[c]

DirectBases(c) == { b \in Bases[c] : \A d \in Bases[c] : b \notin Bases[d] }

\* A root of a class is a root of one of its direct bases, of which one is last.
ASSUME DirectBasesAssumption ==
    \A c \in Class : \A r \in Roots(c) \ {c} :
        \E b \in DirectBases(c) : r \in Roots(b)
            /\ \A d \in DirectBases(c) : r \in Roots(d) => d <= b

\* The root that boost_openmethod_vptr finds through Base1, and its Base1.
FirstRoot(c) == CHOOSE r \in Roots(c) : \A q \in Roots(c) : r <= q

InplaceInit ==
    /\ life = [phase |-> "none", at |-> NoClass]
    /\ embedded = [r \in Roots(ObjectClass) |-> Null]
    /\ freshRoots = {}

\* Mutant: only the first base class is seen to.
MixinCtorOfFirst(c) ==
    /\ embedded' = [embedded EXCEPT ![FirstRoot(c)] = Box(c)]
    /\ freshRoots' = freshRoots \cup Roots(c)

\* boost_openmethod_update_vptr, down to all the roots of the class.
MixinCtor(c) ==
    /\ embedded' = [r \in DOMAIN embedded |-> IF r \in Roots(c) THEN Box(c) ELSE embedded[r]]
    /\ freshRoots' = freshRoots \cup Roots(c)

\* A root class's sets its own pointer to null; any other class's sets those of
\* its direct bases to their v-tables, in order, so that the last one has its
\* way with a root it shares.
MixinDtor(c) ==
    LET LastOf(r) == CHOOSE b \in DirectBases(c) : r \in Roots(b)
            /\ \A d \in DirectBases(c) : r \in Roots(d) => d <= b
    IN  /\ embedded' = [r \in DOMAIN embedded |->
              IF r \notin Roots(c) THEN embedded[r]
              ELSE IF c \in Roots(c) THEN Null ELSE Box(LastOf(r))]
        /\ freshRoots' = IF c \in Roots(c) THEN freshRoots \ {c}
                                           ELSE freshRoots \cup Roots(c)

After(c) == { d \in Subobjects(ObjectClass) : c < d }
Before(c) == { d \in Subobjects(ObjectClass) : d < c }
IsFirstOf(c, S) == c \in S /\ \A d \in S : c <= d
IsLastOf(c, S) == c \in S /\ \A d \in S : d <= c

\* The mixin of a class is its last base: its constructor runs after those of
\* the other bases and before the body.  It names the registrar of the class,
\* which is thus in the unit that constructs.
Construct ==
    /\ stage = "idle" /\ config.policy = "inplace" /\ life.phase = "none"
    /\ Subobjects(ObjectClass) \subseteq Known
    /\ \E c \in Class :
          /\ IsFirstOf(c, Subobjects(ObjectClass))
          /\ MixinCtor(c)
          /\ life' = [phase |-> "constructing", at |-> c]
    /\ UNCHANGED registryVars

ConstructNext ==
    /\ stage = "idle" /\ life.phase = "constructing"
    /\ \E c \in Class :
          /\ IsFirstOf(c, After(life.at))
          /\ MixinCtor(c)
          /\ life' = [life EXCEPT !.at = c]
    /\ UNCHANGED registryVars

Complete ==
    /\ stage = "idle" /\ life = [phase |-> "constructing", at |-> ObjectClass]
    /\ life' = [life EXCEPT !.phase = "complete"]
    /\ UNCHANGED <<registryVars, embedded, freshRoots>>

\* The destructor is called: the body of the most derived class runs.
Destroy ==
    /\ stage = "idle" /\ life.phase = "complete"
    /\ life' = [life EXCEPT !.phase = "destroying"]
    /\ UNCHANGED <<registryVars, embedded, freshRoots>>

\* The body of a destructor has returned, or that of a constructor has thrown:
\* the mixin of the class is destroyed, and then the class before it.
DestroyNext ==
    /\ stage = "idle" /\ life.phase \in {"constructing", "destroying"}
    /\ MixinDtor(life.at)
    /\ IF Before(life.at) = {}
       THEN life' = [phase |-> "none", at |-> NoClass]
       ELSE \E c \in Class : IsLastOf(c, Before(life.at))
                             /\ life' = [phase |-> "destroying", at |-> c]
    /\ UNCHANGED registryVars

InplaceNext == Construct \/ ConstructNext \/ Complete \/ Destroy \/ DestroyNext

-----------------------------------------------------------------------------
(* Properties *)

InplaceTypeOK ==
    /\ life \in [phase : {"none", "constructing", "complete", "destroying"},
                 at : Class \cup {NoClass}]
    /\ embedded \in [Roots(ObjectClass) -> Boxed]
    /\ freshRoots \subseteq Class

\* The class shares a virtual base with one that is constructed later: on the
\* way down its root has already been handed back to that base.
IsOutlived(c) ==
    \E d \in After(c) : c \notin Bases[d] /\ Roots(c) \cap Roots(d) # {}

\* While the body of a constructor or destructor runs, and between them, every
\* v-table pointer in the object that the body's class has leads to the v-table
\* of that class: calls from the body go to the overrider for it, as virtual
\* functions do.  The class must have been registered when initialize last
\* succeeded, by a unit that has stayed.  Direct pointers must have been set since
\* then; indirect ones need not.
EmbeddedFollowsBody ==
    /\ stage = "idle" /\ initialized /\ ~ torn
    /\ life.phase # "none" /\ life.at \in KnownIn(dispatchData.units)
    /\ life.phase = "destroying" => ~ IsOutlived(life.at)
    => \A r \in Roots(life.at) :
          r \in freshRoots \/ config.indirect =>
              Unbox(embedded[r]) = Vtable(dispatchData.gen, life.at)
=============================================================================
