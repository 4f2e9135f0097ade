------------------------------ MODULE Registry ------------------------------
(****************************************************************************)
(* The life of a registry: libraries come and go with their registrations,  *)
(* initialize() is called again, finalize() is called, errors are reported  *)
(* through a handler that throws.  The module keeps what the program can    *)
(* see of it - the words of the dispatch data, the slots of a method, the   *)
(* next pointers, the static v-table pointers and the v-table pointers the  *)
(* vptr policy holds - each tagged with the call of initialize() it comes   *)
(* from.  What the tables contain is the business of other modules: here a  *)
(* v-table is named by that call and by its class.                          *)
(****************************************************************************)
EXTENDS Integers, FiniteSets

CONSTANTS
    Class,          \* natural numbers, which are also the type ids
    NoClass,
    Bases,          \* the proper bases of each class in C++
    Library, Main,  \* the units of a program
    Lists,          \* the lists of classes each unit passes to use_classes
    Overrider, UnitOf, OverriddenClass,
    MethodClass,    \* the virtual parameter of the one method, which Main has
    NotImplemented, Ambiguous, NoFunction,
    Configs,        \* the registries considered
    MaxInits        \* bound on the calls of initialize()

Unit == Library \cup {Main}

(****************************************************************************)
(* What a registry is composed of: its vptr policy - vptr_map, vptr_vector  *)
(* with or without a type hash, or none because objects embed their v-table *)
(* pointers - and whether it has indirect_vptr and runtime_checks.  The     *)
(* field `pointer' is for module VirtualPtr.                                *)
(****************************************************************************)
Config == [policy : {"map", "vector", "hash", "inplace"}, indirect : BOOLEAN,
           checks : BOOLEAN, pointer : {"plain", "shared", "unique"}]

ASSUME ClassAssumption == Class \subseteq Nat /\ IsFiniteSet(Class) /\ NoClass \notin Class
ASSUME ProgramAssumption ==
    /\ Bases \in [Class -> SUBSET Class]
    /\ Main \notin Library
    /\ Lists \in [Unit -> SUBSET SUBSET Class]
    /\ UnitOf \in [Overrider -> Unit]
    /\ OverriddenClass \in [Overrider -> Class]
    /\ MethodClass \in Class
    /\ Overrider \cap {NotImplemented, Ambiguous, NoFunction} = {}
ASSUME ConfigsAssumption == Configs \subseteq Config
ASSUME MaxInitsAssumption == MaxInits \in Nat

VARIABLES
    config,         \* the policies of the registry
    loaded,         \* the units whose registrars are on the lists
    stage,          \* how far initialize() is, "idle" when it is not running
    inits,          \* how many calls of initialize() there were
    dispatchData,   \* registry::dispatch_data: the call that made it, 0 when
                    \* empty; and, for the properties, the units that were
                    \* loaded then and have stayed
    slotsGen,       \* the call that wrote method::slots_strides
    next,           \* method::next of each overrider
    staticVptr,     \* registry::static_vptr of each class
    entries,        \* what the vptr policy has for each class
    initialized,    \* registry::initialized
    dirty,          \* a unit came or went since initialize() last succeeded
    torn            \* initialize() failed after it had begun to publish

published == <<dispatchData, slotsGen, next, staticVptr, entries, initialized>>
registryVars == <<config, loaded, stage, inits, published, dirty, torn>>

-----------------------------------------------------------------------------
(* What the compiler makes of the registrations *)

\* A set that with a class has all the classes registered as derived from it.
IsClosedDown(S, units) ==
    \A u \in units : \A list \in Lists[u] : \A c \in list :
        Bases[c] \cap list \cap S # {} => c \in S

\* The classes of class_map.
KnownIn(units) == UNION UNION { Lists[u] : u \in units }

\* class_::transitive_derived, as triples: for these units, of the second class.
Derivations ==
    { t \in (SUBSET Unit) \X Class \X Class :
        \A S \in SUBSET Class :
            t[2] \in S /\ IsClosedDown(S, t[1]) => t[3] \in S }

IsDerived(units, c, b) == <<units, b, c>> \in Derivations

OverridersIn(units) == { o \in Overrider : UnitOf[o] \in units }

\* The synthetic overriders, or the candidate all others are bases of.
BestOf(candidates, units) ==
    LET Beats(o, q) == OverriddenClass[o] # OverriddenClass[q]
            /\ IsDerived(units, OverriddenClass[o], OverriddenClass[q])
        best == { o \in candidates : \A q \in candidates \ {o} : Beats(o, q) }
    IN  IF candidates = {} THEN NotImplemented
        ELSE IF best = {} THEN Ambiguous ELSE CHOOSE o \in best : TRUE

ApplicableIn(units, c) ==
    { o \in OverridersIn(units) : IsDerived(units, c, OverriddenClass[o]) }

\* What the dispatch table has for an argument of class c.
Picked(units, c) == BestOf(ApplicableIn(units, c), units)

\* What next has for an overrider picked for class c.
NextAt(units, c, o) == BestOf(ApplicableIn(units, c) \ {o}, units)

\* The classes that augment_methods looks for are not registered
\* (missing_class), or an overrider's is not derived from the method's
\* (missing_base).
IsBroken(units) ==
    \/ MethodClass \notin KnownIn(units)
    \/ \E o \in OverridersIn(units) :
          \/ OverriddenClass[o] \notin KnownIn(units)
          \/ ~ IsDerived(units, OverriddenClass[o], MethodClass)

-----------------------------------------------------------------------------
(* V-table pointers, and pointers to them *)

Vtable(gen, c) == [to |-> "vtable", gen |-> gen, class |-> c]
AddressOf(c) == [to |-> "static_vptr", gen |-> 0, class |-> c]
Special(to) == [to |-> to, gen |-> 0, class |-> NoClass]
Null == Special("null")
Absent == Special("absent")         \* no entry in a map, or past a vector's end
Garbage == Special("garbage")       \* whatever an undefined read yields
Temporary == Special("temporary")   \* the address of a local that is gone
Dangling == Special("dangling")     \* the address of a variable of a library
                                    \* that is gone

Box(c) == IF config.indirect THEN AddressOf(c) ELSE staticVptr[c]

Unbox(v) ==
    CASE v.to = "static_vptr" -> staticVptr[v.class]
      [] v.to \in {"temporary", "dangling", "absent"} -> Garbage
      [] OTHER -> v

Known == KnownIn(loaded)

\* The classes that of the loaded units only this one registers.  The variable
\* registry::static_vptr of such a class is the library's: it comes and goes
\* with it.  That of a class which others register too they share.
OwnClasses(l) == KnownIn({l}) \ KnownIn(loaded \ {l})

\* What is left of a v-table pointer when these classes' variables are gone.
Without(v, classes) ==
    IF v.to = "static_vptr" /\ v.class \in classes THEN Dangling ELSE v

Highest(S) == CHOOSE c \in S : \A d \in S : d <= c

-----------------------------------------------------------------------------
RegistryInit ==
    /\ config \in Configs
    /\ loaded = {Main}
    /\ stage = "idle"
    /\ inits = 0
    /\ dispatchData = [gen |-> 0, units |-> {}]
    /\ slotsGen = 0
    /\ next = [o \in Overrider |-> NoFunction]
    /\ staticVptr = [c \in Class |-> Null]
    /\ entries = [c \in Class |-> Absent]
    /\ initialized = FALSE
    /\ dirty = TRUE
    /\ torn = FALSE

\* The registrars of a library's static objects put themselves on the lists.  Its
\* next pointers and the static v-table pointers of its own classes are new
\* variables, zero until initialize is called; and where type ids are addresses,
\* those of its own classes may not be the ones that the policy has seen.
Load(l) ==
    /\ stage = "idle" /\ l \notin loaded
    /\ loaded' = loaded \cup {l}
    /\ next' = [o \in Overrider |-> IF UnitOf[o] = l THEN NoFunction ELSE next[o]]
    /\ staticVptr' = [c \in Class |-> IF c \in OwnClasses(l) THEN Null ELSE staticVptr[c]]
    /\ \/ UNCHANGED entries
       \/ /\ config.policy \in {"map", "hash"} /\ ~ torn
          /\ entries' = [c \in Class |->
                            IF c \in OwnClasses(l) THEN Absent ELSE entries[c]]
    /\ dirty' = TRUE
    /\ UNCHANGED <<config, stage, inits, dispatchData, slotsGen, initialized, torn>>

\* Mutant: the lists are cleared.
UnloadAll(l) ==
    /\ stage = "idle" /\ l \in loaded
    /\ loaded' = {}
    /\ dirty' = TRUE
    /\ UNCHANGED <<config, stage, inits, published, torn>>

\* Nobody tells the registry: an entry of the policy that is the address of a
\* variable of the library stays what it is.
Unload(l) ==
    /\ stage = "idle" /\ l \in loaded
    /\ loaded' = loaded \ {l}
    /\ dispatchData' = [dispatchData EXCEPT !.units = @ \ {l}]
    /\ entries' = [c \in Class |-> Without(entries[c], OwnClasses(l))]
    /\ dirty' = TRUE
    /\ UNCHANGED <<config, stage, inits, slotsGen, next, staticVptr, initialized, torn>>

Initialize ==
    /\ stage = "idle" /\ inits < MaxInits
    /\ stage' = "compile"
    /\ inits' = inits + 1
    /\ UNCHANGED <<config, loaded, published, dirty, torn>>

\* compile() works on objects of its own: an error leaves no trace.
CompileThrows ==
    /\ stage = "compile" /\ IsBroken(loaded)
    /\ stage' = "idle"
    /\ UNCHANGED <<config, loaded, inits, published, dirty, torn>>

Compile ==
    /\ stage = "compile" /\ ~ IsBroken(loaded)
    /\ stage' = "write"
    /\ UNCHANGED <<config, loaded, inits, published, dirty, torn>>

\* Mutant: a next pointer that is set stays.
NextOnce ==
    [o \in Overrider |->
        LET cells == { c \in Known : Picked(loaded, c) = o }
        IN  IF cells = {} \/ next[o] # NoFunction THEN next[o]
            ELSE NextAt(loaded, CHOOSE c \in cells : TRUE, o)]

\* An overrider that is picked for no class keeps the next it has.
NextWritten ==
    [o \in Overrider |->
        LET cells == { c \in Known : Picked(loaded, c) = o }
        IN  IF cells = {} THEN next[o]
            ELSE NextAt(loaded, CHOOSE c \in cells : TRUE, o)]

\* The three loops of write_global_data, over methods, overriders and classes.
WriteGlobalData ==
    /\ stage = "write"
    /\ stage' = "vptrs"
    /\ slotsGen' = inits
    /\ next' = NextWritten
    /\ staticVptr' = [c \in Class |-> IF c \in Known THEN Vtable(inits, c)
                                                     ELSE staticVptr[c]]
    /\ UNCHANGED <<config, loaded, inits, dispatchData, entries, initialized,
                   dirty, torn>>

\* Mutant: pointers the vector has already are kept.
EntriesKept ==
    [c \in Class |-> IF c \in Known /\ entries[c] = Absent THEN Box(c) ELSE entries[c]]

\* vptr_map is rebuilt.  vptr_vector is resized and assigned to: with a type
\* hash nothing else can be looked up; without, what is there stays.
EntriesWritten ==
    [c \in Class |->
        CASE config.policy = "inplace" -> Absent
          [] config.policy # "inplace" /\ c \in Known -> Box(c)
          [] config.policy = "vector" /\ c \notin Known /\ c < Highest(Known) ->
                IF entries[c] = Absent THEN Null ELSE entries[c]
          [] OTHER -> Absent]

VptrInitialize ==
    /\ stage = "vptrs"
    /\ stage' = "swap"
    /\ entries' = EntriesWritten
    /\ UNCHANGED <<config, loaded, inits, dispatchData, slotsGen, next, staticVptr,
                   initialized, dirty, torn>>

\* fast_perfect_hash finds no factors.  It has overwritten the old ones, so
\* lookups in the vector, which is still the old one, yield anything; the new
\* words are destroyed with the stack frame of write_global_data.
SearchThrows ==
    /\ stage = "vptrs" /\ config.policy = "hash"
    /\ stage' = "idle"
    /\ entries' = [c \in Class |-> Garbage]
    /\ torn' = TRUE
    /\ UNCHANGED <<config, loaded, inits, dispatchData, slotsGen, next, staticVptr,
                   initialized, dirty>>

\* The last statement of write_global_data, and of initialize.
Swap ==
    /\ stage = "swap"
    /\ stage' = "idle"
    /\ dispatchData' = [gen |-> inits, units |-> loaded]
    /\ initialized' = TRUE
    /\ dirty' = FALSE
    /\ torn' = FALSE
    /\ UNCHANGED <<config, loaded, inits, slotsGen, next, staticVptr, entries>>

Finalize ==
    /\ stage = "idle"
    /\ dispatchData' = [gen |-> 0, units |-> {}]
    /\ entries' = [c \in Class |-> Absent]
    /\ initialized' = FALSE
    /\ UNCHANGED <<config, loaded, stage, inits, slotsGen, next, staticVptr, dirty, torn>>

RegistryNext ==
    \/ \E l \in Library : Load(l) \/ Unload(l)
    \/ Initialize
    \/ CompileThrows
    \/ Compile
    \/ WriteGlobalData
    \/ VptrInitialize
    \/ SearchThrows
    \/ Swap
    \/ Finalize

RegistrySpec == RegistryInit /\ [][RegistryNext]_registryVars

-----------------------------------------------------------------------------
(* Properties *)

Boxed ==
    { Vtable(g, c) : g \in 0 .. MaxInits, c \in Class }
        \cup { AddressOf(c) : c \in Class }
        \cup { Special(to) :
                to \in {"null", "absent", "garbage", "temporary", "dangling"} }

RegistryTypeOK ==
    /\ config \in Configs
    /\ loaded \in SUBSET Unit /\ Main \in loaded
    /\ stage \in {"idle", "compile", "write", "vptrs", "swap"}
    /\ inits \in 0 .. MaxInits
    /\ dispatchData \in [gen : 0 .. MaxInits, units : SUBSET Unit]
    /\ slotsGen \in 0 .. MaxInits
    /\ next \in [Overrider -> Overrider \cup {NotImplemented, Ambiguous, NoFunction}]
    /\ staticVptr \in [Class -> Boxed]
    /\ entries \in [Class -> Boxed]
    /\ initialized \in BOOLEAN /\ dirty \in BOOLEAN /\ torn \in BOOLEAN

\* Where a search for the v-table of class c ends.
Reached(c) ==
    IF config.policy = "inplace" THEN staticVptr[c] ELSE Unbox(entries[c])

\* Between two calls of initialize, unless the last one failed in the search
\* for hash factors: the slots of the method, the static v-table pointers and
\* the v-table pointers of the policy all lead into the dispatch data there is,
\* for every class that a unit registered when it was made and has registered
\* ever since - after any sequence of other libraries loaded and unloaded, of
\* calls that fail in the compiler, and of calls of finalize.  A library that is
\* loaded again has the static v-table pointers of its own classes to wait for.
PublishedTogether ==
    stage = "idle" /\ initialized /\ ~ torn =>
        /\ slotsGen = dispatchData.gen
        /\ \A c \in KnownIn(dispatchData.units) :
              /\ staticVptr[c] = Vtable(dispatchData.gen, c)
              /\ Reached(c) = Vtable(dispatchData.gen, c)

\* While the registrations are those initialize saw last, the next pointer of
\* each overrider that calls can reach is the choice among the overriders of
\* its class's bases - never one left over from other registrations, of a
\* library that is gone.
NextLeadsOn ==
    stage = "idle" /\ initialized /\ ~ dirty /\ ~ torn =>
        \A c \in Known :
            LET o == Picked(loaded, c)
                OfBases == { q \in OverridersIn(loaded) \ {o} :
                    IsDerived(loaded, OverriddenClass[o], OverriddenClass[q]) }
            IN  o \in Overrider => next[o] = BestOf(OfBases, loaded)
=============================================================================
