----------------------------- MODULE Registrars -----------------------------
(****************************************************************************)
(* The static objects that register classes, methods and overriders: their  *)
(* constructors run when the program starts or a shared library is loaded,  *)
(* their destructors when it is unloaded or the program exits.  method::fn  *)
(* and override_aux::impl are static members of templates, which C++        *)
(* initializes in no particular order: an overrider may add itself to a     *)
(* method whose constructor has not run, and leave one whose destructor     *)
(* has.                                                                     *)
(****************************************************************************)
EXTENDS StaticList

Seqs == INSTANCE SequencesExt

CONSTANTS
    Unit, Program,      \* the program and the libraries it loads
    Needs,              \* the units that stay as long as a unit is there
    ClassInfo, Method, Overrider,   \* the static objects
    UnitOf, MethodOf,   \* the unit of each; the method of each overrider
    Own,                \* nodes that the program puts on a list of its own
    classes, methods, own           \* lists; method fn stands for fn.overriders

Registrar == ClassInfo \cup Method \cup Overrider

ASSUME ListsAssumption ==
    /\ List = {classes, methods, own} \cup Method
    /\ Node = Registrar \cup Own

\* An object is of one type, and the three lists are objects of their own.
ASSUME ObjectsAssumption ==
    /\ ClassInfo \cap (Method \cup Overrider) = {} /\ Method \cap Overrider = {}
    /\ Own \cap Registrar = {}
    /\ classes # methods /\ own \notin {classes, methods}
    /\ {classes, methods, own} \cap Node = {}

\* An overrider refers to its method, which keeps the method's unit in place.
ASSUME UnitsAssumption ==
    /\ UnitOf \in [Registrar -> Unit] /\ MethodOf \in [Overrider -> Method]
    /\ Program \in Unit /\ Needs \in [Unit -> SUBSET Unit] /\ Needs[Program] = {}
    /\ \A o \in Overrider : UnitOf[MethodOf[o]] \in Needs[UnitOf[o]] \cup {UnitOf[o]}

VARIABLES
    method,     \* overrider_info::method of each overrider
    mapped,     \* the units whose static objects are in memory
    built,      \* the registrars constructed and not destroyed, in order
    phase, unit \* "idle", or "loading", "unloading" a unit, or "exiting"

vars == <<listVars, method, mapped, built, phase, unit>>

Alive == { built[i] : i \in DOMAIN built }
ObjectsOf(u) == { n \in Registrar : UnitOf[n] = u }

Init ==
    /\ ListInit
    /\ method = [o \in Overrider |-> Null]
    /\ mapped = {Program} /\ built = <<>>
    /\ phase = "loading" /\ unit = Program

-----------------------------------------------------------------------------
(* Units *)

\* The memory of the unit's static objects is filled with zeros.
Load(u) ==
    /\ phase = "idle" /\ u \notin mapped /\ Needs[u] \subseteq mapped
    /\ mapped' = mapped \cup {u} /\ phase' = "loading" /\ unit' = u
    /\ first' = [l \in List |-> IF l \in ObjectsOf(u) THEN Null ELSE first[l]]
    /\ prev' = [n \in Node |-> IF n \in ObjectsOf(u) THEN Null ELSE prev[n]]
    /\ next' = [n \in Node |-> IF n \in ObjectsOf(u) THEN Null ELSE next[n]]
    /\ method' = [o \in Overrider |-> IF o \in ObjectsOf(u) THEN Null ELSE method[o]]
    /\ built' = built

Loaded ==
    /\ phase = "loading" /\ ObjectsOf(unit) \subseteq Alive
    /\ phase' = "idle"
    /\ UNCHANGED <<listVars, method, mapped, built, unit>>

Unload(u) ==
    /\ phase = "idle" /\ u \in mapped \ {Program} /\ \A v \in mapped : u \notin Needs[v]
    /\ phase' = "unloading" /\ unit' = u
    /\ UNCHANGED <<listVars, method, mapped, built>>

Unloaded ==
    /\ phase = "unloading" /\ ObjectsOf(unit) \cap Alive = {}
    /\ phase' = "idle" /\ mapped' = mapped \ {unit}
    /\ UNCHANGED <<listVars, method, built, unit>>

Exit ==
    /\ phase = "idle"
    /\ phase' = "exiting"
    /\ UNCHANGED <<listVars, method, mapped, built, unit>>

-----------------------------------------------------------------------------
(* Constructors and destructors *)

MayConstruct(n) ==
    /\ phase = "loading" /\ n \in ObjectsOf(unit) \ Alive
    /\ built' = Append(built, n)
    /\ UNCHANGED <<mapped, phase, unit>>

UseClass(n) ==
    /\ MayConstruct(n) /\ n \in ClassInfo
    /\ PushBack(classes, n)
    /\ method' = method

\* The list of overriders has a defaulted constructor, which leaves it alone.
MethodCtor(m) ==
    /\ MayConstruct(m) /\ m \in Method
    /\ PushBack(methods, m)
    /\ method' = method

\* The overrider is put on the list of its method once.
OverrideImpl(o) ==
    /\ MayConstruct(o) /\ o \in Overrider
    /\ method[o] = Null
    /\ method' = [method EXCEPT ![o] = MethodOf[o]]
    /\ PushBack(MethodOf[o], o)

\* In the reverse order of construction: of the unit, or at the exit of all.
MayDestroy(n) ==
    /\ phase \in {"unloading", "exiting"}
    /\ \E i \in DOMAIN built :
          /\ built[i] = n
          /\ phase = "unloading" => UnitOf[n] = unit
          /\ \A j \in DOMAIN built :
                i < j => phase = "unloading" /\ UnitOf[built[j]] # unit
          /\ built' = Seqs!RemoveAt(built, i)
    /\ UNCHANGED <<method, mapped, phase, unit>>

ForgetClass(n) == MayDestroy(n) /\ n \in ClassInfo /\ Remove(classes, n)

\* Mutant: the method is not removed from the list of methods.
MethodDtorLeaving(m) == MayDestroy(m) /\ m \in Method /\ UNCHANGED listVars

MethodDtor(m) == MayDestroy(m) /\ m \in Method /\ Remove(methods, m)

OverriderDtor(o) == MayDestroy(o) /\ o \in Overrider /\ Remove(method[o], o)

Construct(n) == UseClass(n) \/ MethodCtor(n) \/ OverrideImpl(n)
Destroy(n) == ForgetClass(n) \/ MethodDtor(n) \/ OverriderDtor(n)

\* What a program may do with a list of its own: all calls in all orders.
UseOwnList ==
    /\ \/ Clear(own)
       \/ \E n \in Own \ Listed(own) : PushBack(own, n)
       \/ \E n \in Listed(own) : Remove(own, n)
    /\ UNCHANGED <<method, mapped, built, phase, unit>>

Next ==
    \/ \E u \in Unit : Load(u) \/ Unload(u)
    \/ Loaded \/ Unloaded \/ Exit
    \/ \E n \in Registrar : Construct(n) \/ Destroy(n)
    \/ UseOwnList

Spec == Init /\ [][Next]_vars

-----------------------------------------------------------------------------
(* Properties *)

TypeOK ==
    /\ ListTypeOK
    /\ method \in [Overrider -> Method \cup {Null}]
    /\ mapped \in SUBSET Unit /\ built \in Seq(Registrar)
    /\ phase \in {"idle", "loading", "unloading", "exiting"} /\ unit \in Unit

\* Where each registrar belongs.
HomeOf(n) == CASE n \in ClassInfo -> classes
               [] n \in Method -> methods
               [] n \in Overrider -> MethodOf[n]

\* A class, method or overrider is on its list from its constructor to its
\* destructor, also while its method is not constructed yet, or destroyed
\* already; so no destructor looks for a node that is not there.  Between loading
\* and unloading, when initialize may be called, the lists are what the units in
\* memory define.
RegisteredWhileAlive ==
    /\ \A n \in Registrar : n \in Alive <=> n \in Listed(HomeOf(n))
    /\ phase = "idle" => \A n \in Registrar : n \in Alive <=> UnitOf[n] \in mapped
=============================================================================
