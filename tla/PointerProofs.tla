---------------------------- MODULE PointerProofs ---------------------------
(****************************************************************************)
(* What holds of the registry and of virtual_ptrs for any classes, units,   *)
(* overriders, objects and pointers, and for any number of calls of         *)
(* initialize().                                                            *)
(****************************************************************************)
EXTENDS VirtualPtr, TLAPS

-----------------------------------------------------------------------------
(* The types of the variables *)

\* Whatever a v-table pointer can be.
LEMMA WhatIsBoxed ==
    /\ {Null, Absent, Garbage, Temporary, Dangling} \subseteq Boxed
    /\ \A c \in Class : AddressOf(c) \in Boxed
    /\ \A c \in Class, gen \in 0 .. MaxInits : Vtable(gen, c) \in Boxed
<1>1. /\ Null = Special("null") /\ Absent = Special("absent")
      /\ Garbage = Special("garbage") /\ Temporary = Special("temporary")
      /\ Dangling = Special("dangling")
  BY DEF Null, Absent, Garbage, Temporary, Dangling
<1>2. {Null, Absent, Garbage, Temporary, Dangling} \subseteq Boxed
  <2> HIDE DEF Special
  <2> QED
    BY <1>1 DEF Boxed
<1>3. \A c \in Class : AddressOf(c) \in Boxed
  BY DEF Boxed
<1>4. \A c \in Class, gen \in 0 .. MaxInits : Vtable(gen, c) \in Boxed
  BY DEF Boxed
<1> QED
  BY <1>2, <1>3, <1>4

\* The v-table pointer that objects, policies and virtual_ptrs are given.
LEMMA BoxIsBoxed ==
    ASSUME staticVptr \in [Class -> Boxed], NEW c \in Class
    PROVE  Box(c) \in Boxed
BY WhatIsBoxed DEF Box

\* So is what is left of one when a library is gone.
LEMMA WithoutIsBoxed ==
    ASSUME NEW v \in Boxed, NEW classes
    PROVE  Without(v, classes) \in Boxed
BY WhatIsBoxed DEF Without

\* The outcome of a selection is a candidate or a synthetic overrider.
LEMMA BestOfIsOverrider ==
    ASSUME NEW units, NEW candidates \in SUBSET Overrider
    PROVE  BestOf(candidates, units) \in Overrider \cup {NotImplemented, Ambiguous}
<1> DEFINE Beats(o, q) == /\ OverriddenClass[o] # OverriddenClass[q]
                          /\ IsDerived(units, OverriddenClass[o], OverriddenClass[q])
           best == { o \in candidates : \A q \in candidates \ {o} : Beats(o, q) }
<1>1. BestOf(candidates, units) \in {NotImplemented, Ambiguous, CHOOSE o \in best : TRUE}
      /\ (BestOf(candidates, units) \in {NotImplemented, Ambiguous} \/ best # {})
  BY DEF BestOf
<1>2. best # {} => (CHOOSE o \in best : TRUE) \in best
  OBVIOUS
<1> QED
  BY <1>1, <1>2

LEMMA RegistryTypes ==
    ASSUME RegistryTypeOK, RegistryNext
    PROVE  RegistryTypeOK'
<1> USE DEF RegistryTypeOK
<1>1. ASSUME NEW l \in Library, Load(l) PROVE RegistryTypeOK'
  <2>1. loaded' \in SUBSET Unit /\ Main \in loaded'
    BY <1>1 DEF Load, Unit
  <2>2. next' \in [Overrider -> Overrider \cup {NotImplemented, Ambiguous, NoFunction}]
    BY <1>1 DEF Load
  <2>3. staticVptr' \in [Class -> Boxed] /\ entries' \in [Class -> Boxed]
    BY <1>1, WhatIsBoxed DEF Load
  <2>4. UNCHANGED <<config, stage, inits, dispatchData, slotsGen, initialized, torn>>
        /\ dirty' = TRUE
    BY <1>1 DEF Load
  <2> QED
    BY <2>1, <2>2, <2>3, <2>4 DEF Boxed
<1>9. ASSUME NEW l \in Library, Unload(l) PROVE RegistryTypeOK'
  <2>1. loaded' \in SUBSET Unit /\ Main \in loaded'
    BY <1>9, ProgramAssumption DEF Unload
  <2>2. dispatchData' \in [gen : 0 .. MaxInits, units : SUBSET Unit]
    BY <1>9 DEF Unload
  <2>3. entries' \in [Class -> Boxed]
    <3>1. ASSUME NEW c \in Class PROVE Without(entries[c], OwnClasses(l)) \in Boxed
      BY WithoutIsBoxed
    <3> QED
      BY <1>9, <3>1 DEF Unload
  <2>4. UNCHANGED <<config, stage, inits, slotsGen, next, staticVptr, initialized, torn>>
        /\ dirty' = TRUE
    BY <1>9 DEF Unload
  <2> QED
    BY <2>1, <2>2, <2>3, <2>4 DEF Boxed
<1>2. CASE Initialize
  BY <1>2, MaxInitsAssumption DEF Initialize, published, Boxed
<1>3. CASE CompileThrows \/ Compile
  BY <1>3 DEF CompileThrows, Compile, published, Boxed
<1>4. CASE WriteGlobalData
  <2>1. staticVptr' \in [Class -> Boxed]
    BY <1>4, WhatIsBoxed DEF WriteGlobalData
  <2>2. next' \in [Overrider -> Overrider \cup {NotImplemented, Ambiguous, NoFunction}]
    <3> SUFFICES ASSUME NEW o \in Overrider
                 PROVE  next'[o] \in Overrider \cup {NotImplemented, Ambiguous, NoFunction}
      BY <1>4 DEF WriteGlobalData, NextWritten
    <3>1. \A c : NextAt(loaded, c, o) \in Overrider \cup {NotImplemented, Ambiguous}
      <4> SUFFICES ASSUME NEW c
                   PROVE  NextAt(loaded, c, o) \in Overrider \cup {NotImplemented, Ambiguous}
        OBVIOUS
      <4>1. ApplicableIn(loaded, c) \ {o} \in SUBSET Overrider
        BY DEF ApplicableIn, OverridersIn
      <4> QED
        BY <4>1, BestOfIsOverrider DEF NextAt
    <3>2. \/ next'[o] = next[o]
          \/ \E c : next'[o] = NextAt(loaded, c, o)
      BY <1>4 DEF WriteGlobalData, NextWritten
    <3> QED
      BY <3>1, <3>2
  <2> QED
    BY <1>4, <2>1, <2>2 DEF WriteGlobalData, Boxed
<1>5. CASE VptrInitialize
  <2>1. ASSUME NEW c \in Class PROVE EntriesWritten[c] \in Boxed
    <3>1. EntriesWritten[c] \in {Absent, Null, Box(c), entries[c]}
      BY DEF EntriesWritten
    <3> QED
      BY <3>1, BoxIsBoxed, WhatIsBoxed
  <2>2. entries' \in [Class -> Boxed]
    BY <1>5, <2>1 DEF VptrInitialize, EntriesWritten
  <2> QED
    BY <1>5, <2>2 DEF VptrInitialize, Boxed
<1>6. CASE SearchThrows
  <2>1. entries' \in [Class -> Boxed]
    BY <1>6, WhatIsBoxed DEF SearchThrows
  <2> QED
    BY <1>6, <2>1 DEF SearchThrows, Boxed
<1>7. CASE Swap
  <2>1. dispatchData' \in [gen : 0 .. MaxInits, units : SUBSET Unit]
    BY <1>7 DEF Swap
  <2>2. initialized' \in BOOLEAN /\ dirty' \in BOOLEAN /\ torn' \in BOOLEAN
    BY <1>7 DEF Swap
  <2>3. /\ UNCHANGED <<config, loaded, inits, slotsGen, next, staticVptr, entries>>
        /\ stage' = "idle"
    BY <1>7 DEF Swap
  <2> QED
    BY <2>1, <2>2, <2>3 DEF Boxed
<1>8. CASE Finalize
  <2>1. entries' \in [Class -> Boxed]
    BY <1>8, WhatIsBoxed DEF Finalize
  <2>2. dispatchData' \in [gen : 0 .. MaxInits, units : SUBSET Unit]
    BY <1>8, MaxInitsAssumption DEF Finalize
  <2>3. /\ UNCHANGED <<config, loaded, stage, inits, slotsGen, next, staticVptr,
                       dirty, torn>>
        /\ initialized' = FALSE
    BY <1>8 DEF Finalize
  <2>4. initialized' \in BOOLEAN /\ dirty' \in BOOLEAN /\ torn' \in BOOLEAN
    BY <2>3
  <2> QED
    BY <2>1, <2>2, <2>3, <2>4 DEF Boxed
<1> QED
  BY <1>1, <1>2, <1>3, <1>4, <1>5, <1>6, <1>7, <1>8, <1>9 DEF RegistryNext

\* The body that runs is one of a class.
BodyInv == life.phase # "none" => life.at \in Class

\* The last of the direct bases that share a root is one of them.
LEMMA LastOfIsDirectBase ==
    ASSUME NEW c \in Class, NEW r \in Roots(c), c \notin Roots(c)
    PROVE  (CHOOSE b \in DirectBases(c) : r \in Roots(b)
               /\ \A d \in DirectBases(c) : r \in Roots(d) => d <= b) \in Class
<1>1. \E b \in DirectBases(c) : r \in Roots(b)
          /\ \A d \in DirectBases(c) : r \in Roots(d) => d <= b
  BY DirectBasesAssumption
<1>2. DirectBases(c) \subseteq Class
  BY ProgramAssumption DEF DirectBases
<1> QED
  BY <1>1, <1>2

LEMMA MixinTypes ==
    ASSUME RegistryTypeOK, InplaceTypeOK, NEW c \in Class, MixinCtor(c) \/ MixinDtor(c)
    PROVE  embedded' \in [Roots(ObjectClass) -> Boxed] /\ freshRoots' \subseteq Class
<1>0. staticVptr \in [Class -> Boxed]
  BY DEF RegistryTypeOK
<1>1. Roots(c) \subseteq Class
  BY ProgramAssumption DEF Roots, Subobjects
<1>2. freshRoots' \subseteq Class
  BY <1>1 DEF MixinCtor, MixinDtor, InplaceTypeOK
<1>3. CASE MixinCtor(c)
  <2>1. Box(c) \in Boxed
    BY <1>0, BoxIsBoxed
  <2> QED
    BY <1>2, <1>3, <2>1 DEF MixinCtor, InplaceTypeOK
<1>4. CASE MixinDtor(c)
  <2> DEFINE LastOf(r) == CHOOSE b \in DirectBases(c) : r \in Roots(b)
                /\ \A d \in DirectBases(c) : r \in Roots(d) => d <= b
  <2>1. embedded' = [r \in Roots(ObjectClass) |->
              IF r \notin Roots(c) THEN embedded[r]
              ELSE IF c \in Roots(c) THEN Null ELSE Box(LastOf(r))]
    BY <1>4 DEF MixinDtor, InplaceTypeOK
  <2>2. ASSUME NEW r \in Roots(c), c \notin Roots(c) PROVE Box(LastOf(r)) \in Boxed
    <3>1. LastOf(r) \in Class
      BY <2>2, LastOfIsDirectBase
    <3> HIDE DEF LastOf
    <3> QED
      BY <1>0, <3>1, BoxIsBoxed
  <2> HIDE DEF LastOf
  <2>3. ASSUME NEW r \in Roots(ObjectClass) PROVE embedded'[r] \in Boxed
    BY <2>1, <2>2, <2>3, WhatIsBoxed DEF InplaceTypeOK
  <2> QED
    BY <1>2, <2>1, <2>3
<1> QED
  BY <1>3, <1>4

LEMMA InplaceTypes ==
    ASSUME RegistryTypeOK, InplaceTypeOK, BodyInv, InplaceNext
    PROVE  InplaceTypeOK' /\ BodyInv'
<1>1. CASE Construct \/ ConstructNext
  <2>1. PICK c \in Class :
            MixinCtor(c) /\ life' = [phase |-> "constructing", at |-> c]
    BY <1>1 DEF Construct, ConstructNext, InplaceTypeOK
  <2> QED
    BY <2>1, MixinTypes DEF InplaceTypeOK, BodyInv
<1>2. CASE Complete \/ Destroy
  BY <1>2 DEF Complete, Destroy, InplaceTypeOK, BodyInv
<1>3. CASE DestroyNext
  <2>1. life.at \in Class
    BY <1>3 DEF DestroyNext, BodyInv
  <2>2. \/ life' = [phase |-> "none", at |-> NoClass]
        \/ \E c \in Class : life' = [phase |-> "destroying", at |-> c]
    BY <1>3 DEF DestroyNext
  <2>3. embedded' \in [Roots(ObjectClass) -> Boxed] /\ freshRoots' \subseteq Class
    BY <1>3, <2>1, MixinTypes DEF DestroyNext
  <2> QED
    BY <2>2, <2>3 DEF InplaceTypeOK, BodyInv
<1> QED
  BY <1>1, <1>2, <1>3 DEF InplaceNext

LEMMA AcquiredIsBoxed ==
    ASSUME RegistryTypeOK, InplaceTypeOK, NEW o \in Object, IsAlive(o)
    PROVE  Acquired(o) \in Boxed
<1>1. CASE config.policy # "inplace"
  <2>1. Acquired(o) = entries[ClassOf[o]] /\ ClassOf[o] \in Class
    BY <1>1, ObjectAssumption DEF Acquired
  <2> QED
    BY <2>1 DEF RegistryTypeOK
<1>2. CASE config.policy = "inplace" /\ config.indirect
  BY <1>2, WhatIsBoxed DEF Acquired
<1>3. CASE config.policy = "inplace" /\ ~ config.indirect
  <2>1. Acquired(o) = embedded[FirstRoot(ObjectClass)]
    BY <1>3 DEF Acquired, IsAlive
  <2>2. FirstRoot(ObjectClass) \in Roots(ObjectClass)
    BY RootsAssumption, ObjectClassAssumption DEF FirstRoot
  <2> QED
    BY <2>1, <2>2 DEF InplaceTypeOK
<1> QED
  BY <1>1, <1>2, <1>3

PtrTypeOK ==
    /\ ptr \in [Ptr -> [obj : Object \cup {NoObject}, vp : Boxed]]
    /\ fresh \in SUBSET Ptr /\ excused \in SUBSET Ptr

LEMMA PtrTypes ==
    ASSUME RegistryTypeOK, InplaceTypeOK, PtrTypeOK, PtrNext
    PROVE  PtrTypeOK'
<1>1. ASSUME NEW p \in Ptr, NEW o \in Object \cup {NoObject}, NEW v \in Boxed,
             ptr' = [ptr EXCEPT ![p] = [obj |-> o, vp |-> v]],
             fresh' \in {fresh \cup {p}, fresh \ {p}},
             excused' \in {excused \cup {p}, excused \ {p}}
      PROVE  PtrTypeOK'
  BY <1>1 DEF PtrTypeOK
<1>2. CASE \E p \in Ptr : SetNull(p) \/ ConstructFromNull(p)
  <2>1. PICK p \in Ptr, v \in {Null, Temporary} : Assign(p, NoObject, v, FALSE, FALSE)
    BY <1>2 DEF SetNull, ConstructFromNull
  <2> QED
    BY <1>1, <2>1, WhatIsBoxed DEF Assign, Mark
<1>3. ASSUME NEW p \in Ptr, NEW o \in Object, IsAlive(o), AssignFrom(p, o)
      PROVE  PtrTypeOK'
  <2>1. Acquired(o) \in Boxed
    BY <1>3, AcquiredIsBoxed
  <2>2. /\ ptr' = [ptr EXCEPT ![p] = [obj |-> o, vp |-> Acquired(o)]]
        /\ fresh' \in {fresh \cup {p}, fresh \ {p}}
        /\ excused' \in {excused \cup {p}, excused \ {p}}
    BY <1>3 DEF AssignFrom, Assign, Mark
  <2> QED
    BY <1>1, <2>1, <2>2
<1>4. CASE \E p \in Ptr, o \in Object : ConstructFrom(p, o) \/ ConstructFromSmart(p, o)
  BY <1>3, <1>4 DEF ConstructFrom, ConstructFromSmart, Can
<1>5. CASE \E p \in Ptr, o \in Object : AssignObject(p, o) \/ AssignSmart(p, o)
  <2>1. PICK p \in Ptr, o \in Object : AssignObject(p, o) \/ AssignSmart(p, o)
    BY <1>5
  <2>2. CASE AssignFrom(p, o)
    BY <1>3, <2>1, <2>2 DEF AssignObject, AssignSmart, Can
  <2>3. CASE Assign(p, o, ptr[p].vp, FALSE, TRUE)
    BY <1>1, <2>3 DEF Assign, Mark, PtrTypeOK
  <2> QED
    BY <2>1, <2>2, <2>3 DEF AssignObject, AssignSmart, TakeThenAcquire
<1>6. CASE \E p \in Ptr, o \in Object : FinalVirtualPtr(p, o)
  <2>1. PICK p \in Ptr, o \in Object : FinalVirtualPtr(p, o)
    BY <1>6
  <2>2. Box(ClassOf[o]) \in Boxed
    BY BoxIsBoxed, ObjectAssumption DEF RegistryTypeOK
  <2>3. /\ ptr' = [ptr EXCEPT ![p] = [obj |-> o, vp |-> Box(ClassOf[o])]]
        /\ fresh' \in {fresh \cup {p}, fresh \ {p}}
        /\ excused' \in {excused \cup {p}, excused \ {p}}
    BY <2>1 DEF FinalVirtualPtr, Assign, Mark
  <2> QED
    BY <1>1, <2>2, <2>3
<1>7. CASE \E p, q \in Ptr : Copy(p, q)
  <2>1. PICK p \in Ptr, q \in Ptr :
          /\ ptr' = [ptr EXCEPT ![p] = [obj |-> ptr[q].obj, vp |-> ptr[q].vp]]
          /\ fresh' \in {fresh \cup {p}, fresh \ {p}}
          /\ excused' \in {excused \cup {p}, excused \ {p}}
    BY <1>7 DEF Copy, Assign, Mark
  <2> QED
    BY <1>1, <2>1 DEF PtrTypeOK
<1>8. CASE \E p, q \in Ptr : Move(p, q) \/ CastMove(p, q)
  <2>0. PICK p \in Ptr, q \in Ptr : Move(p, q) \/ CastMove(p, q)
    BY <1>8
  <2>1. PICK left \in {Null, ptr[q].vp} :
          /\ ptr' = [ptr EXCEPT ![p] = ptr[q], ![q] = [obj |-> NoObject, vp |-> left]]
          /\ fresh' \subseteq fresh \cup {p} /\ excused' \subseteq excused \cup {p, q}
    BY <2>0 DEF Move, CastMove, MoveLeaving, Mark
  <2>2. left \in Boxed
    BY WhatIsBoxed DEF PtrTypeOK
  <2> QED
    BY <2>1, <2>2 DEF PtrTypeOK
<1> QED
  BY <1>2, <1>4, <1>5, <1>6, <1>7, <1>8 DEF PtrNext

LEMMA InitialTypes == Init => TypeOK /\ BodyInv
<1> SUFFICES ASSUME Init PROVE TypeOK /\ BodyInv
  OBVIOUS
<1>1. RegistryTypeOK
  <2>1. /\ staticVptr \in [Class -> Boxed] /\ entries \in [Class -> Boxed]
        /\ dispatchData \in [gen : 0 .. MaxInits, units : SUBSET Unit]
        /\ inits \in 0 .. MaxInits /\ slotsGen \in 0 .. MaxInits
    BY WhatIsBoxed, MaxInitsAssumption DEF Init, RegistryInit
  <2>2. initialized \in BOOLEAN /\ dirty \in BOOLEAN /\ torn \in BOOLEAN
    BY DEF Init, RegistryInit
  <2>3. /\ config \in Configs /\ loaded \in SUBSET Unit /\ Main \in loaded
        /\ stage = "idle"
        /\ next \in [Overrider -> Overrider \cup {NotImplemented, Ambiguous, NoFunction}]
    BY DEF Init, RegistryInit, Unit
  <2> QED
    BY <2>1, <2>2, <2>3 DEF RegistryTypeOK
<1>2. InplaceTypeOK /\ BodyInv
  BY WhatIsBoxed DEF Init, InplaceInit, InplaceTypeOK, BodyInv
<1>3. PtrTypeOK
  BY WhatIsBoxed DEF Init, PtrTypeOK
<1> QED
  BY <1>1, <1>2, <1>3 DEF TypeOK, PtrTypeOK

LEMMA TypesAreKept == TypeOK /\ BodyInv /\ [Next]_vars => TypeOK' /\ BodyInv'
<1> SUFFICES ASSUME RegistryTypeOK, InplaceTypeOK, PtrTypeOK, BodyInv, [Next]_vars
             PROVE  RegistryTypeOK' /\ InplaceTypeOK' /\ PtrTypeOK' /\ BodyInv'
  BY DEF TypeOK, PtrTypeOK
<1>0. ASSUME UNCHANGED registryVars PROVE RegistryTypeOK'
  BY <1>0 DEF registryVars, published, RegistryTypeOK, Boxed
<1>1. ASSUME UNCHANGED inplaceVars PROVE InplaceTypeOK' /\ BodyInv'
  BY <1>1 DEF inplaceVars, InplaceTypeOK, BodyInv, Boxed
<1>2. ASSUME UNCHANGED ptrVars PROVE PtrTypeOK'
  BY <1>2 DEF ptrVars, PtrTypeOK, Boxed
<1>3. CASE RegistryStep
  <2>1. RegistryTypeOK'
    BY <1>3, RegistryTypes DEF RegistryStep
  <2>2. InplaceTypeOK' /\ BodyInv'
    BY <1>3 DEF RegistryStep, InplaceTypeOK, BodyInv, Boxed
  <2>3. PtrTypeOK'
    <3>1. ASSUME NEW p \in Ptr
          PROVE  Without(ptr[p].vp, Known \ Known') \in Boxed
      BY WithoutIsBoxed DEF PtrTypeOK
    <3>2. /\ ptr' = [p \in Ptr |-> [obj |-> ptr[p].obj,
                                   vp |-> Without(ptr[p].vp, Known \ Known')]]
          /\ fresh' \in {fresh, {}} /\ excused' = excused
      BY <1>3 DEF RegistryStep
    <3> HIDE DEF Without
    <3>3. ptr' \in [Ptr -> [obj : Object \cup {NoObject}, vp : Boxed]]
      BY <3>1, <3>2 DEF PtrTypeOK
    <3>4. fresh' \in SUBSET Ptr /\ excused' \in SUBSET Ptr
      BY <3>2 DEF PtrTypeOK
    <3> QED
      BY <3>3, <3>4 DEF PtrTypeOK, Boxed
  <2> QED
    BY <2>1, <2>2, <2>3
<1>4. CASE InplaceStep
  <2>1. UNCHANGED registryVars
    BY <1>4 DEF InplaceStep, InplaceNext, Construct, ConstructNext, Complete, Destroy,
                DestroyNext
  <2> QED
    BY <1>0, <1>2, <1>4, <2>1, InplaceTypes DEF InplaceStep
<1>5. CASE PtrNext
  <2>1. UNCHANGED registryVars /\ UNCHANGED inplaceVars
    BY <1>5 DEF PtrNext, SetNull, ConstructFromNull, ConstructFrom, ConstructFromSmart,
                AssignObject, AssignSmart, FinalVirtualPtr, Copy, Move, CastMove,
                MoveLeaving
  <2> QED
    BY <1>0, <1>1, <1>5, <2>1, PtrTypes
<1>6. CASE UNCHANGED vars
  BY <1>0, <1>1, <1>2, <1>6 DEF vars
<1> QED
  BY <1>3, <1>4, <1>5, <1>6 DEF Next

\* Every variable of the registry, of the object with embedded v-table pointers
\* and of the virtual_ptrs has its type in every reachable state, also those
\* that the destructors of a class with many bases leave behind.
THEOREM TypeCorrectness == Spec => []TypeOK
BY InitialTypes, TypesAreKept, PTL DEF Spec

-----------------------------------------------------------------------------
(* What the compiler makes of the registrations *)

\* Every class that is registered is a class: class_map holds nothing else.
LEMMA KnownAreClasses ==
    ASSUME NEW units \in SUBSET Unit
    PROVE  KnownIn(units) \subseteq Class
BY ProgramAssumption DEF KnownIn

\* An object's class that derives from an overrider's, which derives from
\* another's, derives from that.
LEMMA DerivedIsTransitive ==
    ASSUME NEW units \in SUBSET Unit,
           NEW a \in Class, NEW b \in Class, NEW c \in Class,
           IsDerived(units, c, b), IsDerived(units, b, a)
    PROVE  IsDerived(units, c, a)
<1>1. /\ \A S \in SUBSET Class : b \in S /\ IsClosedDown(S, units) => c \in S
      /\ \A S \in SUBSET Class : a \in S /\ IsClosedDown(S, units) => b \in S
  BY DEF IsDerived, Derivations
<1>2. <<units, a, c>> \in (SUBSET Unit) \X Class \X Class
  OBVIOUS
<1> QED
  BY <1>1, <1>2 DEF IsDerived, Derivations

\* The candidate that is chosen is one that beats all the others.
LEMMA BestBeatsAll ==
    ASSUME NEW units, NEW candidates \in SUBSET Overrider,
           BestOf(candidates, units) \in Overrider
    PROVE  LET o == BestOf(candidates, units)
           IN  /\ o \in candidates
               /\ \A q \in candidates \ {o} :
                    IsDerived(units, OverriddenClass[o], OverriddenClass[q])
<1> DEFINE Beats(o, q) == /\ OverriddenClass[o] # OverriddenClass[q]
                          /\ IsDerived(units, OverriddenClass[o], OverriddenClass[q])
           best == { o \in candidates : \A q \in candidates \ {o} : Beats(o, q) }
<1>1. best # {} /\ BestOf(candidates, units) = CHOOSE o \in best : TRUE
  BY ProgramAssumption DEF BestOf
<1>2. BestOf(candidates, units) \in best
  BY <1>1
<1> QED
  BY <1>2

\* The overriders for the bases of overrider o's class.
OfBases(units, o) ==
    { q \in OverridersIn(units) \ {o} :
        IsDerived(units, OverriddenClass[o], OverriddenClass[q]) }

\* When o is picked for a class, the other overriders that apply to the class
\* are those for the bases of o's class, whichever class it is.
LEMMA NextIsTheSameEverywhere ==
    ASSUME NEW units \in SUBSET Unit, NEW c \in Class, NEW o \in Overrider,
           Picked(units, c) = o
    PROVE  NextAt(units, c, o) = BestOf(OfBases(units, o), units)
<1> DEFINE A == ApplicableIn(units, c)
<1>1. A \in SUBSET Overrider
  BY DEF ApplicableIn, OverridersIn
<1>2. /\ o \in A
      /\ \A q \in A \ {o} : IsDerived(units, OverriddenClass[o], OverriddenClass[q])
  BY <1>1, BestBeatsAll DEF Picked
<1>3. IsDerived(units, c, OverriddenClass[o])
  BY <1>2 DEF ApplicableIn
<1>4. ASSUME NEW q \in OfBases(units, o) PROVE q \in A \ {o}
  <2>1. q \in OverridersIn(units) \ {o} /\ q \in Overrider
        /\ IsDerived(units, OverriddenClass[o], OverriddenClass[q])
    BY DEF OfBases, OverridersIn
  <2>2. OverriddenClass[o] \in Class /\ OverriddenClass[q] \in Class
    BY <2>1, ProgramAssumption
  <2>3. IsDerived(units, c, OverriddenClass[q])
    BY <1>3, <2>1, <2>2, DerivedIsTransitive
  <2> QED
    BY <2>1, <2>3 DEF ApplicableIn
<1>5. A \ {o} = OfBases(units, o)
  <2>1. A \ {o} \subseteq OfBases(units, o)
    BY <1>2 DEF ApplicableIn, OfBases
  <2> QED
    BY <2>1, <1>4
<1> QED
  BY <1>5 DEF NextAt

-----------------------------------------------------------------------------
(* The registry *)

\* What the vptr policy should hold for class c.
Expected(gen, c) == IF config.indirect THEN AddressOf(c) ELSE Vtable(gen, c)

UnitsInv ==
    /\ config \in Config
    /\ loaded \in SUBSET Unit /\ dispatchData.units \subseteq loaded
    /\ dispatchData = [gen |-> dispatchData.gen, units |-> dispatchData.units]
    /\ stage \in {"idle", "compile", "write", "vptrs", "swap"}

\* Before write_global_data publishes anything all is as it was.
StandingInv ==
    initialized /\ ~ torn /\ stage \in {"idle", "compile", "write"} =>
        /\ slotsGen = dispatchData.gen
        /\ \A c \in KnownIn(dispatchData.units) :
              /\ staticVptr[c] = Vtable(dispatchData.gen, c)
              /\ config.policy # "inplace" =>
                    entries[c] = Expected(dispatchData.gen, c)

\* While it publishes, what it has done is for the new dispatch data.
PublishingInv ==
    /\ stage \in {"vptrs", "swap"} =>
          slotsGen = inits /\ \A c \in Known : staticVptr[c] = Vtable(inits, c)
    /\ stage = "swap" /\ config.policy # "inplace" =>
          \A c \in Known : entries[c] = Expected(inits, c)

\* Nothing is ever kept for a class that is another's.
EntriesInv ==
    \A c \in Class :
        /\ staticVptr[c].class \in {c, NoClass}
        /\ entries[c].class \in {c, NoClass}
        /\ entries[c] = Garbage => torn /\ stage # "swap" /\ config.policy = "hash"
        /\ config.indirect =>
              entries[c] \in {Absent, Null, Garbage, Dangling, AddressOf(c)}

NextIsRight ==
    \A c \in Known : \A o \in Overrider :
        Picked(loaded, c) = o => next[o] = BestOf(OfBases(loaded, o), loaded)

NextInv ==
    stage \in {"vptrs", "swap"} \/ (initialized /\ ~ dirty /\ ~ torn) => NextIsRight

RegistryInv == UnitsInv /\ StandingInv /\ PublishingInv /\ EntriesInv /\ NextInv

LEMMA RegistryInitially == ASSUME RegistryInit PROVE RegistryInv
<1>1. UnitsInv
  BY ConfigsAssumption DEF RegistryInit, UnitsInv, Unit
<1>2. StandingInv /\ PublishingInv /\ NextInv
  BY DEF RegistryInit, StandingInv, PublishingInv, NextInv
<1>3. EntriesInv
  BY DEF RegistryInit, EntriesInv, Null, Absent, Garbage, Special
<1> QED
  BY <1>1, <1>2, <1>3 DEF RegistryInv

LEMMA RegistryStutters ==
    ASSUME RegistryInv, UNCHANGED registryVars
    PROVE  RegistryInv'
BY DEF RegistryInv, registryVars, published, UnitsInv, StandingInv, PublishingInv,
       EntriesInv, NextInv, NextIsRight, Expected, Known

\* What one unit adds to the classes of the others, and takes away with it.
LEMMA OwnClassesAreOwn ==
    ASSUME NEW l, NEW units, units \subseteq loaded \ {l}
    PROVE  /\ KnownIn(units) \cap OwnClasses(l) = {}
           /\ KnownIn(units) \subseteq KnownIn(loaded \ {l})
BY DEF OwnClasses, KnownIn

LEMMA LoadStep ==
    ASSUME RegistryInv, NEW l \in Library, Load(l) PROVE RegistryInv'
<1>1. UnitsInv'
  BY DEF RegistryInv, UnitsInv, Load, Unit
<1>2. StandingInv' /\ PublishingInv'
  <2>1. stage = "idle" /\ dispatchData.units \subseteq loaded \ {l}
    BY DEF Load, RegistryInv, UnitsInv
  <2>2. KnownIn(dispatchData.units) \cap OwnClasses(l) = {}
        /\ KnownIn(dispatchData.units) \subseteq Class
    BY <2>1, OwnClassesAreOwn, KnownAreClasses DEF RegistryInv, UnitsInv
  <2>3. \A c \in KnownIn(dispatchData.units) :
            staticVptr'[c] = staticVptr[c] /\ entries'[c] = entries[c]
    BY <2>2 DEF Load
  <2>4. UNCHANGED <<config, stage, dispatchData, slotsGen, initialized, torn>>
    BY DEF Load
  <2> QED
    BY <2>1, <2>3, <2>4 DEF RegistryInv, StandingInv, PublishingInv, Expected
<1>3. EntriesInv'
  BY DEF Load, RegistryInv, EntriesInv, Null, Absent, Garbage, Special
<1>4. NextInv'
  BY DEF Load, NextInv
<1> QED
  BY <1>1, <1>2, <1>3, <1>4 DEF RegistryInv

\* What the end of a library leaves of an entry.
LEMMA WithoutIsSame ==
    ASSUME NEW v, NEW classes
    PROVE  \/ Without(v, classes) = v
           \/ Without(v, classes) = Dangling /\ v.to = "static_vptr" /\ v.class \in classes
BY DEF Without

LEMMA UnloadStep ==
    ASSUME RegistryInv, NEW l \in Library, Unload(l) PROVE RegistryInv'
<1>0. /\ stage = "idle" /\ stage' = "idle" /\ loaded' = loaded \ {l} /\ dirty' = TRUE
      /\ dispatchData' = [gen |-> dispatchData.gen, units |-> dispatchData.units \ {l}]
      /\ UNCHANGED <<config, inits, slotsGen, next, staticVptr, initialized, torn>>
  BY DEF Unload, RegistryInv, UnitsInv
<1>1. UnitsInv'
  BY <1>0 DEF RegistryInv, UnitsInv
<1>2. StandingInv' /\ PublishingInv'
  <2>1. dispatchData'.units \subseteq loaded \ {l}
        /\ dispatchData'.units \subseteq dispatchData.units
    BY <1>0 DEF RegistryInv, UnitsInv
  <2>2. /\ KnownIn(dispatchData'.units) \cap OwnClasses(l) = {}
        /\ KnownIn(dispatchData'.units) \subseteq KnownIn(dispatchData.units)
        /\ KnownIn(dispatchData.units) \subseteq Class
    <3>1. dispatchData.units \in SUBSET Unit
      BY DEF RegistryInv, UnitsInv
    <3>2. KnownIn(dispatchData'.units) \subseteq KnownIn(dispatchData.units)
      BY <2>1 DEF KnownIn
    <3> QED
      BY <2>1, <3>1, <3>2, OwnClassesAreOwn, KnownAreClasses
  <2>3. ASSUME NEW c \in KnownIn(dispatchData'.units), entries[c] = Expected(dispatchData.gen, c)
        PROVE  entries'[c] = entries[c]
    <3>1. entries'[c] = Without(entries[c], OwnClasses(l))
      BY <2>2 DEF Unload
    <3>2. entries[c].class = c
      BY <2>3 DEF Expected, AddressOf, Vtable
    <3> QED
      BY <2>2, <3>1, <3>2 DEF Without
  <2> QED
    BY <1>0, <2>2, <2>3 DEF RegistryInv, StandingInv, PublishingInv, Expected
<1>3. EntriesInv'
  <2> SUFFICES ASSUME NEW c \in Class
               PROVE  /\ entries'[c].class \in {c, NoClass}
                      /\ entries'[c] = Garbage => entries[c] = Garbage
                      /\ entries'[c] \in {entries[c], Dangling}
    BY <1>0 DEF RegistryInv, EntriesInv
  <2>1. entries'[c] = Without(entries[c], OwnClasses(l))
    BY DEF Unload
  <2>2. entries'[c] \in {entries[c], Dangling}
    BY <2>1, WithoutIsSame
  <2> QED
    BY <2>2 DEF RegistryInv, EntriesInv, Dangling, Garbage, Special
<1>4. NextInv'
  BY <1>0 DEF NextInv
<1> QED
  BY <1>1, <1>2, <1>3, <1>4 DEF RegistryInv

\* The other steps that publish nothing: the compiler's.
LEMMA UnpublishedStep ==
    ASSUME RegistryInv,
           UNCHANGED <<config, dispatchData, slotsGen, staticVptr, entries,
                       initialized, torn>>,
           stage' \in {"idle", "compile", "write"},
           stage \in {"idle", "compile", "write"},
           UNCHANGED <<loaded, next, dirty>>
    PROVE  RegistryInv'
<1>1. UnitsInv'
  BY DEF RegistryInv, UnitsInv
<1>2. StandingInv' /\ PublishingInv'
  BY DEF RegistryInv, StandingInv, PublishingInv, Expected
<1>3. EntriesInv'
  BY DEF RegistryInv, EntriesInv
<1>4. NextInv'
  BY DEF RegistryInv, NextInv, NextIsRight, Known
<1> QED
  BY <1>1, <1>2, <1>3, <1>4 DEF RegistryInv

LEMMA WriteGlobalDataStep ==
    ASSUME RegistryInv, WriteGlobalData PROVE RegistryInv'
<1>0. Known \subseteq Class /\ Known' = Known /\ loaded \in SUBSET Unit
  BY KnownAreClasses DEF RegistryInv, UnitsInv, Known, WriteGlobalData
<1>1. UnitsInv'
  BY DEF RegistryInv, UnitsInv, WriteGlobalData
<1>2. StandingInv'
  BY DEF WriteGlobalData, StandingInv
<1>3. PublishingInv'
  BY <1>0 DEF WriteGlobalData, PublishingInv
<1>4. EntriesInv'
  <2>1. \A c \in Class : staticVptr'[c].class \in {c, NoClass}
    BY DEF WriteGlobalData, RegistryInv, EntriesInv, Vtable
  <2> QED
    BY <2>1 DEF WriteGlobalData, RegistryInv, EntriesInv
<1>5. NextInv'
  <2> SUFFICES ASSUME NEW c \in Known, NEW o \in Overrider, Picked(loaded, c) = o
               PROVE  next'[o] = BestOf(OfBases(loaded, o), loaded)
    BY <1>0 DEF NextInv, NextIsRight, WriteGlobalData
  <2> DEFINE cells == { d \in Known : Picked(loaded, d) = o }
             d0 == CHOOSE d \in cells : TRUE
  <2>1. c \in cells
    OBVIOUS
  <2>2. d0 \in cells
    BY <2>1
  <2>3. next'[o] = NextAt(loaded, d0, o)
    BY <2>1 DEF WriteGlobalData, NextWritten
  <2> HIDE DEF d0
  <2> QED
    BY <1>0, <2>2, <2>3, NextIsTheSameEverywhere
<1> QED
  BY <1>1, <1>2, <1>3, <1>4, <1>5 DEF RegistryInv

LEMMA VptrInitializeStep ==
    ASSUME RegistryInv, VptrInitialize PROVE RegistryInv'
<1>0. Known \subseteq Class /\ Known' = Known
  BY KnownAreClasses DEF RegistryInv, UnitsInv, Known, VptrInitialize
<1>1. UnitsInv'
  BY DEF RegistryInv, UnitsInv, VptrInitialize
<1>2. StandingInv'
  BY DEF VptrInitialize, StandingInv
<1>3. ASSUME NEW c \in Class
      PROVE  \/ /\ entries'[c] = Box(c) /\ c \in Known
                /\ config.policy # "inplace"
             \/ /\ entries'[c] \in {Absent, Null}
                /\ config.policy = "inplace" \/ c \notin Known
             \/ /\ entries'[c] = entries[c] /\ config.policy = "vector"
                /\ c \notin Known
  BY DEF VptrInitialize, EntriesWritten
<1>4. \A c \in Known : staticVptr[c] = Vtable(inits, c)
  BY DEF VptrInitialize, RegistryInv, PublishingInv
<1>5. PublishingInv'
  <2>1. ASSUME NEW c \in Known, config.policy # "inplace"
        PROVE  entries'[c] = Expected(inits, c)
    BY <1>0, <1>3, <1>4, <2>1 DEF Box, Expected
  <2>2. UNCHANGED <<config, slotsGen, inits, staticVptr>>
    BY DEF VptrInitialize
  <2> QED
    BY <1>0, <2>1, <2>2 DEF VptrInitialize, RegistryInv, PublishingInv, Expected
<1>6. EntriesInv'
  <2> SUFFICES ASSUME NEW c \in Class
               PROVE  /\ entries'[c].class \in {c, NoClass}
                      /\ entries'[c] # Garbage
                      /\ config.indirect =>
                            entries'[c] \in {Absent, Null, Garbage, Dangling,
                                            AddressOf(c)}
    BY DEF VptrInitialize, RegistryInv, EntriesInv
  <2>1. CASE entries'[c] = Box(c) /\ c \in Known
    <3>1. \/ config.indirect /\ entries'[c] = AddressOf(c)
          \/ ~ config.indirect /\ entries'[c] = Vtable(inits, c)
      BY <1>4, <2>1 DEF Box
    <3>2. \A v \in {AddressOf(c), Vtable(inits, c)} :
              v.class \in {c, NoClass} /\ v # Garbage
      BY DEF AddressOf, Vtable, Garbage, Special
    <3> QED
      BY <3>1, <3>2
  <2>2. CASE entries'[c] \in {Absent, Null}
    BY <2>2 DEF Absent, Null, Garbage, Special
  <2>3. CASE entries'[c] = entries[c] /\ config.policy = "vector"
    BY <2>3 DEF RegistryInv, EntriesInv
  <2> QED
    BY <1>3, <2>1, <2>2, <2>3
<1>7. NextInv'
  BY <1>0 DEF VptrInitialize, RegistryInv, NextInv, NextIsRight
<1> QED
  BY <1>1, <1>2, <1>5, <1>6, <1>7 DEF RegistryInv

LEMMA SearchThrowsStep ==
    ASSUME RegistryInv, SearchThrows PROVE RegistryInv'
<1>1. EntriesInv'
  BY DEF SearchThrows, RegistryInv, EntriesInv, Garbage, Special
<1> QED
  BY <1>1 DEF SearchThrows, RegistryInv, UnitsInv, StandingInv, PublishingInv, NextInv

LEMMA SwapStep ==
    ASSUME RegistryInv, Swap PROVE RegistryInv'
<1>1. UnitsInv' /\ PublishingInv'
  BY DEF Swap, RegistryInv, UnitsInv, PublishingInv
<1>2. StandingInv'
  BY DEF Swap, RegistryInv, PublishingInv, StandingInv, Expected, Known
<1>3. EntriesInv'
  BY DEF Swap, RegistryInv, EntriesInv
<1>4. NextInv'
  BY DEF Swap, RegistryInv, NextInv, NextIsRight, Known
<1> QED
  BY <1>1, <1>2, <1>3, <1>4 DEF RegistryInv

LEMMA FinalizeStep ==
    ASSUME RegistryInv, Finalize PROVE RegistryInv'
<1>1. UnitsInv' /\ StandingInv' /\ PublishingInv' /\ NextInv'
  BY DEF Finalize, RegistryInv, UnitsInv, StandingInv, PublishingInv, NextInv
<1>2. EntriesInv'
  BY DEF Finalize, RegistryInv, EntriesInv, Absent, Garbage, Special
<1> QED
  BY <1>1, <1>2 DEF RegistryInv

LEMMA RegistrySteps ==
    ASSUME RegistryInv, RegistryNext PROVE RegistryInv'
<1>1. CASE \E l \in Library : Load(l) \/ Unload(l)
  BY <1>1, LoadStep, UnloadStep
<1>2. CASE Initialize
  BY <1>2, UnpublishedStep DEF Initialize, published
<1>3. CASE CompileThrows \/ Compile
  BY <1>3, UnpublishedStep DEF CompileThrows, Compile, published
<1>4. CASE WriteGlobalData
  BY <1>4, WriteGlobalDataStep
<1>5. CASE VptrInitialize
  BY <1>5, VptrInitializeStep
<1>6. CASE SearchThrows
  BY <1>6, SearchThrowsStep
<1>7. CASE Swap
  BY <1>7, SwapStep
<1>8. CASE Finalize
  BY <1>8, FinalizeStep
<1> QED
  BY <1>1, <1>2, <1>3, <1>4, <1>5, <1>6, <1>7, <1>8 DEF RegistryNext

-----------------------------------------------------------------------------
(* The object with embedded v-table pointers *)

\* What a virtual_ptr to the complete object reads there.
EmbeddedInv ==
    life.at = ObjectClass /\ life.phase \in {"constructing", "complete"} =>
        \A r \in Roots(ObjectClass) :
            /\ embedded[r].class \in {ObjectClass, NoClass}
            /\ /\ initialized /\ ~ torn /\ ~ config.indirect /\ r \in freshRoots
               /\ ObjectClass \in KnownIn(dispatchData.units)
               => embedded[r] = Vtable(dispatchData.gen, ObjectClass)

\* embedded has a place for each root of the object.
PlacesInv == embedded = [r \in Roots(ObjectClass) |-> embedded[r]]

LifeInv ==
    /\ life = [phase |-> life.phase, at |-> life.at]
    /\ life.phase = "complete" => life.at = ObjectClass

\* The first root of the object is one of its roots.
LEMMA FirstRootIsOne == FirstRoot(ObjectClass) \in Roots(ObjectClass)
BY RootsAssumption, ObjectClassAssumption DEF FirstRoot

LEMMA EmbeddedSteps ==
    ASSUME RegistryInv, EmbeddedInv, PlacesInv, LifeInv, InplaceNext
    PROVE  EmbeddedInv' /\ PlacesInv' /\ LifeInv'
<1>1. CASE Construct \/ ConstructNext
  <2>1. /\ UNCHANGED registryVars /\ stage = "idle"
        /\ \E c \in Class : MixinCtor(c) /\ life' = [phase |-> "constructing", at |-> c]
    <3>1. CASE Construct
      BY <3>1 DEF Construct
    <3>2. CASE ConstructNext
      BY <3>2 DEF ConstructNext, LifeInv
    <3> QED
      BY <1>1, <3>1, <3>2
  <2>2. PICK c \in Class : MixinCtor(c) /\ life' = [phase |-> "constructing", at |-> c]
    BY <2>1
  <2>3. PlacesInv'
    BY <2>2 DEF MixinCtor, PlacesInv
  <2>4. ASSUME c = ObjectClass, NEW r \in Roots(ObjectClass)
        PROVE  embedded'[r] = Box(ObjectClass)
    BY <2>2, <2>4 DEF MixinCtor, PlacesInv
  <2>5. /\ Box(ObjectClass).class \in {ObjectClass, NoClass}
        /\ /\ initialized /\ ~ torn /\ ~ config.indirect
           /\ ObjectClass \in KnownIn(dispatchData.units)
           => Box(ObjectClass) = Vtable(dispatchData.gen, ObjectClass)
    <3>1. Box(ObjectClass).class \in {ObjectClass, NoClass}
      BY ObjectClassAssumption DEF RegistryInv, EntriesInv, Box, AddressOf
    <3> QED
      BY <2>1, <3>1 DEF RegistryInv, StandingInv, Box
  <2>6. EmbeddedInv'
    BY <2>1, <2>2, <2>4, <2>5 DEF EmbeddedInv, registryVars, published
  <2> QED
    BY <2>2, <2>3, <2>6 DEF LifeInv
<1>2. CASE Complete
  BY <1>2 DEF Complete, EmbeddedInv, PlacesInv, LifeInv, registryVars, published
<1>3. CASE Destroy
  BY <1>3 DEF Destroy, EmbeddedInv, PlacesInv, LifeInv
<1>4. CASE DestroyNext
  <2>1. life'.phase \in {"none", "destroying"}
    BY <1>4 DEF DestroyNext
  <2>2. PlacesInv'
    BY <1>4 DEF DestroyNext, MixinDtor, PlacesInv
  <2>3. LifeInv'
    BY <1>4 DEF DestroyNext, LifeInv
  <2> QED
    BY <2>1, <2>2, <2>3 DEF EmbeddedInv
<1> QED
  BY <1>1, <1>2, <1>3, <1>4 DEF InplaceNext

\* What a step of the registry leaves of what pointers were made from: the
\* dispatch data, unless it is replaced, or there is none any more.
LEMMA RegistryKeeps ==
    ASSUME RegistryNext, UnitsInv
    PROVE  /\ config' = config
           /\ \/ stage = "swap"
              \/ ~ initialized'
              \/ /\ dispatchData'.gen = dispatchData.gen
                 /\ KnownIn(dispatchData'.units) \subseteq KnownIn(dispatchData.units)
                 /\ UNCHANGED initialized
                 /\ torn' \/ UNCHANGED torn
<1>1. CASE \E l \in Library : Unload(l)
  <2>1. /\ dispatchData'.gen = dispatchData.gen
        /\ dispatchData'.units \subseteq dispatchData.units
        /\ UNCHANGED <<config, initialized, torn>>
    BY <1>1 DEF Unload, UnitsInv
  <2> QED
    BY <2>1 DEF KnownIn
<1>2. CASE Swap \/ Finalize
  BY <1>2 DEF Swap, Finalize
<1>3. CASE ~ (\E l \in Library : Unload(l)) /\ ~ Swap /\ ~ Finalize
  BY <1>3 DEF RegistryNext, Load, Initialize, CompileThrows, Compile, WriteGlobalData,
              VptrInitialize, SearchThrows, published
<1> QED
  BY <1>1, <1>2, <1>3

LEMMA EmbeddedRegistryStep ==
    ASSUME UnitsInv, EmbeddedInv, PlacesInv, LifeInv, RegistryStep
    PROVE  EmbeddedInv' /\ PlacesInv' /\ LifeInv'
<1>1. PlacesInv' /\ LifeInv'
  BY DEF RegistryStep, PlacesInv, LifeInv
<1>2. config' = config /\ UNCHANGED <<life, embedded>>
  BY RegistryKeeps DEF RegistryStep
<1>3. CASE stage = "swap"
  BY <1>1, <1>2, <1>3 DEF RegistryStep, EmbeddedInv
<1>4. CASE ~ initialized'
  BY <1>1, <1>2, <1>4 DEF EmbeddedInv
<1>5. CASE /\ dispatchData'.gen = dispatchData.gen /\ stage # "swap"
           /\ KnownIn(dispatchData'.units) \subseteq KnownIn(dispatchData.units)
           /\ UNCHANGED initialized /\ (torn' \/ UNCHANGED torn)
  BY <1>1, <1>2, <1>5 DEF RegistryStep, EmbeddedInv
<1> QED
  BY <1>3, <1>4, <1>5, RegistryKeeps DEF RegistryStep

-----------------------------------------------------------------------------
(* virtual_ptrs *)

\* The static v-table pointer of class c is there, and is right unless initialize
\* is about to replace the dispatch data.
HasStaticVptr(c) ==
    /\ c \in Known
    /\ stage \notin {"vptrs", "swap"} => staticVptr[c] = Vtable(dispatchData.gen, c)

\* A virtual_ptr made of o and v while the dispatch data there is was there.
IsRight(o, v) ==
    /\ o # NoObject
    /\ initialized /\ ~ torn
    /\ ~ (config.policy = "inplace" /\ config.indirect)
    => \/ ~ config.indirect /\ v = Vtable(dispatchData.gen, ClassOf[o])
       \/ config.indirect /\ v = AddressOf(ClassOf[o]) /\ HasStaticVptr(ClassOf[o])
       \/ config.indirect /\ v = Dangling

\* A virtual_ptr made of o and v at any time.
IsWhole(o, v) ==
    IF o = NoObject THEN v \in {Null, Temporary}
    ELSE /\ v.class \in {ClassOf[o], NoClass}
         /\ config.indirect /\ config.policy # "inplace" =>
               v \in {AddressOf(ClassOf[o]), Dangling}

PtrInv ==
    /\ ptr = [p \in Ptr |-> ptr[p]]
    /\ fresh \subseteq Ptr
    /\ \A p \in Ptr :
          /\ ptr[p].obj \in Object \cup {NoObject}
          /\ p \in fresh => IsRight(ptr[p].obj, ptr[p].vp)
          /\ p \notin excused => IsWhole(ptr[p].obj, ptr[p].vp)

Inv == RegistryInv /\ EmbeddedInv /\ PlacesInv /\ LifeInv /\ PtrInv

\* Null smart or plain pointers are right as they are.
LEMMA NullIsFine ==
    ASSUME NEW v \in {Null, Temporary}
    PROVE  IsRight(NoObject, v) /\ IsWhole(NoObject, v)
BY DEF IsRight, IsWhole

\* A v-table pointer that is as expected, for a class that was registered when
\* initialize was called and is still, is right.
LEMMA ExpectedIsRight ==
    ASSUME RegistryInv, stage = "idle", NEW o \in Object,
           ClassOf[o] \in KnownIn(dispatchData.units)
    PROVE  IsRight(o, Expected(dispatchData.gen, ClassOf[o]))
<1>1. ClassOf[o] \in Known
  BY DEF RegistryInv, UnitsInv, Known, KnownIn
<1>2. initialized /\ ~ torn => HasStaticVptr(ClassOf[o])
  BY <1>1 DEF RegistryInv, StandingInv, HasStaticVptr
<1> QED
  BY <1>2 DEF IsRight, Expected

\* The v-table pointer that is found for an object is the object's.
LEMMA AcquiredIsRight ==
    ASSUME Inv, stage = "idle", NEW o \in Object, IsAlive(o), CanAcquire(o)
    PROVE  /\ IsSound(o) => IsRight(o, Acquired(o))
           /\ ~ torn => IsWhole(o, Acquired(o))
<1> DEFINE c == ClassOf[o]
<1>1. c \in Class /\ o # NoObject
  BY ObjectAssumption
<1>2. CASE config.policy # "inplace"
  <2>1. Acquired(o) = entries[c]
    BY <1>2 DEF Acquired
  <2>2. IsSound(o) => IsRight(o, entries[c])
    <3>1. CASE ~ initialized
      BY <3>1 DEF IsRight
    <3>2. CASE initialized /\ IsSound(o)
      <4>1. entries[c] = Expected(dispatchData.gen, c)
        BY <1>2, <3>2 DEF Inv, RegistryInv, StandingInv, IsSound
      <4> QED
        BY <3>2, <4>1, ExpectedIsRight DEF Inv, IsSound
    <3> QED
      BY <3>1, <3>2
  <2>3. ~ torn => IsWhole(o, entries[c])
    BY <1>1, <1>2 DEF Inv, RegistryInv, EntriesInv, CanAcquire, IsUndefined, IsWhole
  <2> QED
    BY <2>1, <2>2, <2>3
<1>3. CASE config.policy = "inplace" /\ config.indirect
  <2>1. Acquired(o) = Temporary
    BY <1>3 DEF Acquired
  <2> QED
    BY <1>1, <1>3, <2>1 DEF IsRight, IsWhole, Temporary, Special
<1>4. CASE config.policy = "inplace" /\ ~ config.indirect
  <2>1. Acquired(o) = embedded[FirstRoot(ObjectClass)] /\ c = ObjectClass
        /\ life.phase = "complete"
    BY <1>4 DEF Acquired, IsAlive
  <2>2. FirstRoot(ObjectClass) \in Roots(ObjectClass) /\ life.at = ObjectClass
    BY <2>1, FirstRootIsOne DEF Inv, LifeInv
  <2>3. IsSound(o) => IsRight(o, Acquired(o))
    BY <1>4, <2>1, <2>2 DEF Inv, EmbeddedInv, IsSound, IsRight
  <2>4. IsWhole(o, Acquired(o))
    BY <1>1, <1>4, <2>1, <2>2 DEF Inv, EmbeddedInv, IsWhole
  <2> QED
    BY <2>3, <2>4
<1> QED
  BY <1>2, <1>3, <1>4

\* With the registry as it was, each pointer that is now fresh, or not excused,
\* must be right, or whole.
LEMMA PointersStay ==
    ASSUME UNCHANGED registryVars,
           ptr' = [d \in Ptr |-> ptr'[d]],
           fresh' \subseteq Ptr,
           \A d \in Ptr :
              /\ ptr'[d].obj \in Object \cup {NoObject}
              /\ d \in fresh' => IsRight(ptr'[d].obj, ptr'[d].vp)
              /\ d \notin excused' => IsWhole(ptr'[d].obj, ptr'[d].vp)
    PROVE  PtrInv'
BY DEF PtrInv, IsRight, IsWhole, HasStaticVptr, Known, registryVars, published

\* The object is taken and its v-table pointer with it.
LEMMA AssignFromStep ==
    ASSUME Inv, NEW p \in Ptr, NEW o \in Object, Can(p, o), CanAcquire(o),
           AssignFrom(p, o), UNCHANGED registryVars
    PROVE  PtrInv'
<1>1. /\ IsSound(o) => IsRight(o, Acquired(o))
      /\ ~ torn => IsWhole(o, Acquired(o))
  BY AcquiredIsRight DEF Can
<1>2. /\ ptr' = [ptr EXCEPT ![p] = [obj |-> o, vp |-> Acquired(o)]]
      /\ fresh' = IF IsSound(o) THEN fresh \cup {p} ELSE fresh \ {p}
      /\ excused' = IF torn THEN excused \cup {p} ELSE excused \ {p}
  BY DEF AssignFrom, Assign, Mark
<1> HIDE DEF Acquired, IsSound
<1> QED
  BY <1>1, <1>2, PointersStay DEF Inv, PtrInv

LEMMA SetNullStep ==
    ASSUME Inv, NEW p \in Ptr, SetNull(p) \/ ConstructFromNull(p) PROVE PtrInv'
<1>1. PICK v \in {Null, Temporary} : Assign(p, NoObject, v, FALSE, FALSE)
  BY DEF SetNull, ConstructFromNull
<1>2. /\ ptr' = [ptr EXCEPT ![p] = [obj |-> NoObject, vp |-> v]]
      /\ fresh' = fresh \ {p} /\ excused' = excused \ {p}
      /\ UNCHANGED registryVars
  BY <1>1 DEF Assign, Mark, SetNull, ConstructFromNull
<1> QED
  BY <1>2, NullIsFine, PointersStay DEF Inv, PtrInv

LEMMA AssignObjectStep ==
    ASSUME Inv, NEW p \in Ptr, NEW o \in Object, AssignObject(p, o) \/ AssignSmart(p, o)
    PROVE  PtrInv'
<1>1. CASE CanAcquire(o) /\ AssignFrom(p, o)
  BY <1>1, AssignFromStep DEF AssignObject, AssignSmart, TakeThenAcquire
<1>2. CASE Assign(p, o, ptr[p].vp, FALSE, TRUE)
  <2>1. /\ ptr' = [ptr EXCEPT ![p] = [obj |-> o, vp |-> ptr[p].vp]]
        /\ fresh' = fresh \ {p} /\ excused' = excused \cup {p}
        /\ UNCHANGED registryVars
    BY <1>2 DEF Assign, Mark, AssignObject, AssignSmart
  <2> QED
    BY <2>1, PointersStay DEF Inv, PtrInv
<1> QED
  BY <1>1, <1>2 DEF AssignObject, AssignSmart, TakeThenAcquire

LEMMA FinalVirtualPtrStep ==
    ASSUME Inv, NEW p \in Ptr, NEW o \in Object, FinalVirtualPtr(p, o)
    PROVE  PtrInv'
<1> DEFINE c == ClassOf[o]
           isFresh == ~ torn /\ c \in KnownIn(dispatchData.units)
<1>1. c \in Class /\ o # NoObject
  BY ObjectAssumption
<1>2. /\ ptr' = [ptr EXCEPT ![p] = [obj |-> o, vp |-> Box(c)]]
      /\ fresh' = IF isFresh THEN fresh \cup {p} ELSE fresh \ {p}
      /\ excused' = excused \ {p}
      /\ UNCHANGED registryVars /\ stage = "idle"
  BY DEF FinalVirtualPtr, Assign, Mark, Can
<1>3. isFresh => IsRight(o, Box(c))
  <2>1. CASE ~ initialized
    BY <2>1 DEF IsRight
  <2>2. CASE initialized /\ isFresh
    <3>1. Box(c) = Expected(dispatchData.gen, c)
      BY <1>2, <2>2 DEF Inv, RegistryInv, StandingInv, Box, Expected
    <3> QED
      BY <1>2, <2>2, <3>1, ExpectedIsRight DEF Inv
  <2> QED
    BY <2>1, <2>2
<1>4. IsWhole(o, Box(c))
  BY <1>1 DEF Inv, RegistryInv, EntriesInv, IsWhole, Box, AddressOf
<1> HIDE DEF isFresh
<1> QED
  BY <1>2, <1>3, <1>4, PointersStay DEF Inv, PtrInv

LEMMA CopyStep ==
    ASSUME Inv, NEW p \in Ptr, NEW q \in Ptr, Copy(p, q) PROVE PtrInv'
<1>1. /\ ptr' = [ptr EXCEPT ![p] = [obj |-> ptr[q].obj, vp |-> ptr[q].vp]]
      /\ fresh' = IF q \in fresh THEN fresh \cup {p} ELSE fresh \ {p}
      /\ excused' = IF q \in excused THEN excused \cup {p} ELSE excused \ {p}
      /\ UNCHANGED registryVars
  BY DEF Copy, Assign, Mark
<1> QED
  BY <1>1, PointersStay DEF Inv, PtrInv

\* Move, and the move by a cast, which excuses what it leaves.
LEMMA MoveStep ==
    ASSUME Inv, NEW p \in Ptr, NEW q \in Ptr, Move(p, q) \/ CastMove(p, q)
    PROVE  PtrInv'
<1>1. PICK left :
        /\ ptr' = [ptr EXCEPT ![p] = ptr[q], ![q] = [obj |-> NoObject, vp |-> left]]
        /\ q \notin excused' => left = Null
  BY DEF Move, CastMove, MoveLeaving, Mark
<1>2. /\ p # q
      /\ fresh' = IF q \in fresh THEN (fresh \ {q}) \cup {p} ELSE (fresh \ {q}) \ {p}
      /\ \A d \in Ptr \ {q} : d \notin excused' =>
            IF d = p THEN q \notin excused ELSE d \notin excused
      /\ UNCHANGED registryVars
  BY DEF Move, CastMove, MoveLeaving, Mark
<1>3. ASSUME NEW d \in Ptr
      PROVE  /\ ptr'[d].obj \in Object \cup {NoObject}
             /\ d \in fresh' => IsRight(ptr'[d].obj, ptr'[d].vp)
             /\ d \notin excused' => IsWhole(ptr'[d].obj, ptr'[d].vp)
  <2>1. CASE d = q
    BY <1>1, <1>2, <2>1, NullIsFine DEF Inv, PtrInv
  <2>2. CASE d = p
    BY <1>1, <1>2, <2>2 DEF Inv, PtrInv
  <2>3. CASE d \notin {p, q}
    BY <1>1, <1>2, <2>3 DEF Inv, PtrInv
  <2> QED
    BY <2>1, <2>2, <2>3
<1>4. ptr' = [d \in Ptr |-> ptr'[d]] /\ fresh' \subseteq Ptr
  BY <1>1, <1>2 DEF Inv, PtrInv
<1> QED
  BY <1>2, <1>3, <1>4, PointersStay

LEMMA PtrSteps ==
    ASSUME Inv, PtrNext
    PROVE  Inv'
<1>1. UNCHANGED registryVars /\ UNCHANGED inplaceVars
  BY DEF PtrNext, SetNull, ConstructFromNull, ConstructFrom, ConstructFromSmart,
         AssignObject, AssignSmart, FinalVirtualPtr, Copy, Move, CastMove, MoveLeaving
<1>2. RegistryInv'
  BY <1>1, RegistryStutters DEF Inv
<1>3. EmbeddedInv' /\ PlacesInv' /\ LifeInv'
  BY <1>1 DEF Inv, EmbeddedInv, PlacesInv, LifeInv, registryVars, published, inplaceVars
<1>4. PtrInv'
  <2>1. CASE \E p \in Ptr : SetNull(p) \/ ConstructFromNull(p)
    BY <2>1, SetNullStep
  <2>2. CASE \E p \in Ptr, o \in Object : ConstructFrom(p, o) \/ ConstructFromSmart(p, o)
    BY <1>1, <2>2, AssignFromStep DEF ConstructFrom, ConstructFromSmart
  <2>3. CASE \E p \in Ptr, o \in Object : AssignObject(p, o) \/ AssignSmart(p, o)
    BY <2>3, AssignObjectStep
  <2>4. CASE \E p \in Ptr, o \in Object : FinalVirtualPtr(p, o)
    BY <2>4, FinalVirtualPtrStep
  <2>5. CASE \E p, q \in Ptr : Copy(p, q)
    BY <2>5, CopyStep
  <2>6. CASE \E p, q \in Ptr : Move(p, q) \/ CastMove(p, q)
    BY <2>6, MoveStep
  <2> QED
    BY <2>1, <2>2, <2>3, <2>4, <2>5, <2>6 DEF PtrNext
<1> QED
  BY <1>2, <1>3, <1>4 DEF Inv

\* Of the classes that stay nothing is lost.
LEMMA StaticVptrStays ==
    ASSUME RegistryInv, RegistryNext, stage # "swap", initialized',
           NEW c \in Class, c \in Known', HasStaticVptr(c)
    PROVE  torn' \/ HasStaticVptr(c)'
<1>1. CASE \E l \in Library : Load(l)
  <2>1. PICK l \in Library : Load(l)
    BY <1>1
  <2>2. c \notin OwnClasses(l)
    <3>1. l \notin loaded /\ c \in KnownIn(loaded)
      BY <2>1 DEF Load, HasStaticVptr, Known
    <3>2. loaded \ {l} = loaded
      BY <3>1
    <3> QED
      BY <3>1, <3>2 DEF OwnClasses
  <2> QED
    BY <2>1, <2>2 DEF Load, HasStaticVptr
<1>2. CASE \E l \in Library : Unload(l)
  <2>1. /\ UNCHANGED <<stage, staticVptr>> /\ dispatchData'.gen = dispatchData.gen
    BY <1>2 DEF Unload, RegistryInv, UnitsInv
  <2> QED
    BY <2>1 DEF HasStaticVptr
<1>3. CASE Initialize \/ CompileThrows \/ Compile
  BY <1>3 DEF Initialize, CompileThrows, Compile, published, HasStaticVptr
<1>4. CASE WriteGlobalData \/ VptrInitialize
  BY <1>4 DEF WriteGlobalData, VptrInitialize, HasStaticVptr
<1>5. CASE SearchThrows
  BY <1>5 DEF SearchThrows
<1>6. CASE Swap \/ Finalize
  BY <1>6 DEF Swap, Finalize
<1> QED
  BY <1>1, <1>2, <1>3, <1>4, <1>5, <1>6 DEF RegistryNext

LEMMA RegistryStepKeeps ==
    ASSUME Inv, RegistryStep PROVE Inv'
<1>1. RegistryInv'
  BY RegistrySteps DEF Inv, RegistryStep
<1>2. EmbeddedInv' /\ PlacesInv' /\ LifeInv'
  BY EmbeddedRegistryStep DEF Inv, RegistryInv
<1>3. PtrInv'
  <2> DEFINE gone == Known \ Known'
             left(p) == Without(ptr[p].vp, gone)
  <2>1. /\ ptr' = [p \in Ptr |-> [obj |-> ptr[p].obj, vp |-> left(p)]]
        /\ UNCHANGED <<excused, config>>
        /\ fresh' \subseteq fresh /\ (stage = "swap" => fresh' = {})
    BY RegistryKeeps DEF RegistryStep, Inv, RegistryInv
  <2>2. \A p : \/ left(p) = ptr[p].vp
              \/ /\ left(p) = Dangling
                 /\ ptr[p].vp.to = "static_vptr" /\ ptr[p].vp.class \in gone
    BY WithoutIsSame
  <2> HIDE DEF left
  <2>3. \A p \in Ptr : ptr'[p].obj = ptr[p].obj /\ ptr'[p].vp = left(p)
    BY <2>1
  <2>4. ASSUME NEW p \in fresh' PROVE IsRight(ptr[p].obj, ptr[p].vp)'
    <3>0. PICK o \in Object \cup {NoObject} :
            p \in Ptr /\ o = ptr[p].obj /\ ptr'[p].obj = o /\ ptr'[p].vp = left(p)
      BY <2>1, <2>3, <2>4 DEF Inv, PtrInv
    <3> DEFINE c == ClassOf[o]
    <3>1. IsRight(o, ptr[p].vp) /\ stage # "swap"
      BY <2>1, <2>4, <3>0 DEF Inv, PtrInv
    <3>2. CASE \/ o = NoObject \/ ~ initialized' \/ torn'
               \/ config.policy = "inplace" /\ config.indirect
      BY <2>1, <3>0, <3>2 DEF IsRight
    <3>3. CASE /\ o # NoObject /\ initialized' /\ ~ torn'
               /\ ~ (config.policy = "inplace" /\ config.indirect)
      <4>0. RegistryNext /\ RegistryInv /\ UnitsInv
        BY DEF RegistryStep, Inv, RegistryInv
      <4>1. /\ dispatchData'.gen = dispatchData.gen
            /\ initialized /\ ~ torn
        <5>1. /\ dispatchData'.gen = dispatchData.gen
              /\ UNCHANGED initialized /\ UNCHANGED torn
          BY <3>1, <3>3, <4>0, RegistryKeeps
        <5> QED
          BY <3>3, <5>1
      <4>2. CASE ~ config.indirect
        <5>1. ptr[p].vp = Vtable(dispatchData.gen, c)
          BY <3>1, <3>3, <4>1, <4>2 DEF IsRight
        <5>2. left(p) = ptr[p].vp
          BY <2>2, <5>1 DEF Vtable
        <5> QED
          BY <2>1, <3>0, <4>1, <4>2, <5>1, <5>2 DEF IsRight, Vtable
      <4>3. CASE config.indirect /\ left(p) = Dangling
        BY <2>1, <3>0, <4>3 DEF IsRight
      <4>4. CASE config.indirect /\ left(p) # Dangling
        <5>1. ptr[p].vp = AddressOf(c) /\ HasStaticVptr(c) /\ left(p) = AddressOf(c)
          BY <2>2, <3>1, <3>3, <4>1, <4>4 DEF IsRight
        <5>2. c \in Class
          BY <3>0, <3>3, ObjectAssumption
        <5>3. c \notin gone
          BY <4>4, <5>1 DEF left, Without, AddressOf
        <5>4. c \in Known'
          BY <5>1, <5>3 DEF HasStaticVptr
        <5>5. HasStaticVptr(c)'
          BY <3>1, <3>3, <4>0, <5>1, <5>2, <5>4, StaticVptrStays
        <5>6. /\ ptr'[p].vp = AddressOf(c) /\ ptr'[p].obj = o /\ config'.indirect
              /\ ClassOf[ptr'[p].obj] = c
          BY <2>1, <3>0, <4>4, <5>1
        <5> QED
          BY <5>5, <5>6 DEF IsRight, HasStaticVptr, AddressOf
      <4> QED
        BY <4>2, <4>3, <4>4
    <3> QED
      BY <3>2, <3>3
  <2>5. ASSUME NEW p \in Ptr, p \notin excused'
        PROVE  IsWhole(ptr[p].obj, ptr[p].vp)'
    <3>1. IsWhole(ptr[p].obj, ptr[p].vp) /\ config' = config
      BY <2>1, <2>5 DEF Inv, PtrInv
    <3>2. \A v \in {Null, Temporary} : v.to # "static_vptr"
      BY DEF Null, Temporary, Special
    <3>3. Dangling.class = NoClass
      BY DEF Dangling, Special
    <3>4. CASE left(p) = ptr[p].vp
      BY <2>3, <3>1, <3>4 DEF IsWhole, Null, Temporary, Special, Dangling, AddressOf
    <3>5. CASE left(p) = Dangling /\ ptr[p].vp.to = "static_vptr"
      <4>1. ptr[p].obj # NoObject
        BY <3>1, <3>2, <3>5 DEF IsWhole
      <4> QED
        BY <2>3, <3>1, <3>3, <3>5, <4>1 DEF IsWhole, Null, Temporary, Special, Dangling
    <3> QED
      BY <2>2, <3>4, <3>5
  <2>6. /\ ptr' = [p \in Ptr |-> ptr'[p]] /\ fresh' \subseteq Ptr
        /\ \A p \in Ptr : ptr'[p].obj \in Object \cup {NoObject}
    BY <2>1, <2>3 DEF Inv, PtrInv
  <2> QED
    BY <2>4, <2>5, <2>6 DEF PtrInv
<1> QED
  BY <1>1, <1>2, <1>3 DEF Inv

LEMMA InplaceStepKeeps ==
    ASSUME Inv, InplaceStep PROVE Inv'
<1>1. UNCHANGED registryVars /\ UNCHANGED ptrVars
  BY DEF InplaceStep, InplaceNext, Construct, ConstructNext, Complete, Destroy, DestroyNext
<1>2. RegistryInv'
  BY <1>1, RegistryStutters DEF Inv
<1>3. EmbeddedInv' /\ PlacesInv' /\ LifeInv'
  BY EmbeddedSteps DEF Inv, InplaceStep
<1>4. PtrInv'
  BY <1>1 DEF Inv, PtrInv, IsRight, IsWhole, HasStaticVptr, Known, registryVars,
              published, ptrVars
<1> QED
  BY <1>2, <1>3, <1>4 DEF Inv

-----------------------------------------------------------------------------
(* Theorems *)

LEMMA InitialInv == Init => Inv
<1> SUFFICES ASSUME Init PROVE Inv
  OBVIOUS
<1>1. RegistryInv
  BY RegistryInitially DEF Init
<1>2. EmbeddedInv /\ PlacesInv /\ LifeInv
  BY DEF Init, InplaceInit, EmbeddedInv, PlacesInv, LifeInv
<1>3. PtrInv
  <2>1. /\ ptr = [p \in Ptr |-> [obj |-> NoObject, vp |-> Null]]
        /\ fresh = {}
    BY DEF Init
  <2> QED
    BY <2>1, NullIsFine DEF PtrInv
<1> QED
  BY <1>1, <1>2, <1>3 DEF Inv

LEMMA InvIsInductive == Inv /\ [Next]_vars => Inv'
<1> SUFFICES ASSUME Inv, [Next]_vars PROVE Inv'
  OBVIOUS
<1>1. CASE RegistryStep
  BY <1>1, RegistryStepKeeps
<1>2. CASE InplaceStep
  BY <1>2, InplaceStepKeeps
<1>3. CASE PtrNext
  BY <1>3, PtrSteps
<1>4. CASE UNCHANGED vars
  <2>1. UNCHANGED <<registryVars, inplaceVars, ptrVars>>
    BY <1>4 DEF vars
  <2>2. RegistryInv'
    BY <2>1, RegistryStutters DEF Inv
  <2>3. EmbeddedInv' /\ PlacesInv' /\ LifeInv'
    BY <2>1 DEF Inv, EmbeddedInv, PlacesInv, LifeInv, registryVars, published,
                inplaceVars
  <2>4. PtrInv'
    BY <2>1 DEF Inv, PtrInv, IsRight, IsWhole, HasStaticVptr, Known, registryVars,
                published, ptrVars
  <2> QED
    BY <2>2, <2>3, <2>4 DEF Inv
<1> QED
  BY <1>1, <1>2, <1>3, <1>4 DEF Next

\* The inductive invariant: what the tables, the policy, the object and the
\* virtual_ptrs hold at every stage of initialize(), through every history of
\* loading, unloading, failing, finalizing, assigning, copying and moving.
THEOREM Invariance == Spec => []Inv
BY InitialInv, InvIsInductive, PTL DEF Spec

\* For any number of calls of initialize(), any policy, and libraries that come
\* and go, what initialize publishes for the classes of the units that stay is
\* of one piece: slots, static v-table pointers and the policy's v-table
\* pointers are those of the dispatch data there is.
THEOREM PublicationIsConsistent == Spec => []PublishedTogether
<1>1. Inv => PublishedTogether
  <2> SUFFICES ASSUME Inv, stage = "idle", initialized, ~ torn
               PROVE  /\ slotsGen = dispatchData.gen
                      /\ \A c \in KnownIn(dispatchData.units) :
                            /\ staticVptr[c] = Vtable(dispatchData.gen, c)
                            /\ Reached(c) = Vtable(dispatchData.gen, c)
    BY DEF PublishedTogether
  <2>1. /\ slotsGen = dispatchData.gen
        /\ \A c \in KnownIn(dispatchData.units) :
              /\ staticVptr[c] = Vtable(dispatchData.gen, c)
              /\ config.policy # "inplace" =>
                    entries[c] = Expected(dispatchData.gen, c)
    BY DEF Inv, RegistryInv, StandingInv
  <2>2. \A c : /\ Unbox(AddressOf(c)) = staticVptr[c]
               /\ Unbox(Vtable(dispatchData.gen, c)) = Vtable(dispatchData.gen, c)
    BY DEF Unbox, AddressOf, Vtable
  <2>3. ASSUME NEW c \in KnownIn(dispatchData.units)
        PROVE  Reached(c) = Vtable(dispatchData.gen, c)
    BY <2>1, <2>2 DEF Reached, Expected
  <2> QED
    BY <2>1, <2>3
<1> QED
  BY <1>1, Invariance, PTL

\* For any registrations: the next of an overrider that calls can reach is the
\* choice among the overriders of its class's bases, and never a left-over.
THEOREM NextIsNeverStale == Spec => []NextLeadsOn
<1>1. Inv => NextLeadsOn
  BY DEF Inv, RegistryInv, NextInv, NextIsRight, NextLeadsOn, OfBases
<1> QED
  BY <1>1, Invariance, PTL

\* What a v-table pointer that is as expected leads to.
LEMMA ExpectedLeadsHome ==
    ASSUME Inv, initialized, ~ torn, stage = "idle",
           NEW c \in KnownIn(dispatchData.units)
    PROVE  Unbox(Expected(dispatchData.gen, c)) = Vtable(dispatchData.gen, c)
<1>1. staticVptr[c] = Vtable(dispatchData.gen, c)
  BY DEF Inv, RegistryInv, StandingInv
<1>2. /\ Unbox(AddressOf(c)) = staticVptr[c]
      /\ Unbox(Vtable(dispatchData.gen, c)) = Vtable(dispatchData.gen, c)
  BY DEF Unbox, AddressOf, Vtable
<1> QED
  BY <1>1, <1>2 DEF Expected

\* For any objects and any number of virtual_ptrs: those made since initialize
\* last succeeded, however they were passed on, lead to the v-table of the
\* object's class in the dispatch data there is - or were indirect, and are cut
\* off because the library that had the class is gone.
THEOREM FreshnessSuffices == Spec => []FreshPointersWork
<1>1. Inv => FreshPointersWork
  <2> SUFFICES ASSUME Inv, stage = "idle", initialized, ~ torn, NEW p \in fresh,
                      Pointing(p), ~ (config.policy = "inplace" /\ config.indirect)
               PROVE  LeadsHome(p) \/ (config.indirect /\ IsCutOff(p))
    BY DEF FreshPointersWork
  <2>1. IsRight(ptr[p].obj, ptr[p].vp)
    BY DEF Inv, PtrInv
  <2>2. \/ ptr[p].vp = Vtable(dispatchData.gen, ClassAt(p))
        \/ /\ ptr[p].vp = AddressOf(ClassAt(p))
           /\ staticVptr[ClassAt(p)] = Vtable(dispatchData.gen, ClassAt(p))
        \/ config.indirect /\ IsCutOff(p)
    BY <2>1 DEF IsRight, HasStaticVptr, Pointing, ClassAt, IsCutOff
  <2> QED
    BY <2>2 DEF LeadsHome, Unbox, Vtable, AddressOf
<1> QED
  BY <1>1, Invariance, PTL

\* For any number of calls of initialize(): indirect v-table pointers that are
\* not embedded in the object never go stale, unless the library that had the
\* object's class is unloaded.
THEOREM IndirectionLasts == Spec => []IndirectPointersLast
<1>1. Inv => IndirectPointersLast
  <2> SUFFICES ASSUME Inv, stage = "idle", initialized, ~ torn, config.indirect,
                      config.policy # "inplace", NEW p \in Ptr \ excused,
                      Pointing(p), ClassAt(p) \in KnownIn(dispatchData.units),
                      ~ IsCutOff(p)
               PROVE  LeadsHome(p)
    BY DEF IndirectPointersLast
  <2>1. ptr[p].vp = AddressOf(ClassAt(p))
    BY DEF Inv, PtrInv, IsWhole, Pointing, ClassAt, IsCutOff
  <2>2. ptr[p].vp = Expected(dispatchData.gen, ClassAt(p))
    BY <2>1 DEF Expected
  <2> QED
    BY <2>2, ExpectedLeadsHome DEF LeadsHome
<1> QED
  BY <1>1, Invariance, PTL

\* No sequence of assignments, copies and moves gives an object the v-table
\* pointer of another class, or leaves one without an object.
THEOREM HalvesStayTogether == Spec => []NeverAnotherClass
<1>1. Inv => NeverAnotherClass
  BY DEF Inv, PtrInv, IsWhole, NeverAnotherClass, Pointing, ClassAt
<1> QED
  BY <1>1, Invariance, PTL

-----------------------------------------------------------------------------
(* Objects under construction and destruction *)

\* The class whose v-table pointer a root has is the last one of those that the
\* root is part of, up to the class whose body runs.
IsLastWith(x, r) ==
    /\ x \in Subobjects(ObjectClass) /\ x <= life.at /\ r \in Roots(x)
    /\ \A y \in Subobjects(ObjectClass) : x < y /\ y <= life.at => r \notin Roots(y)

\* Root r has been given the v-table pointer of class x.
IsGiven(r, x) ==
    IF config.indirect THEN embedded[r] = AddressOf(x)
    ELSE /\ initialized /\ ~ torn /\ r \in freshRoots
         /\ x \in KnownIn(dispatchData.units)
         => embedded[r] = Vtable(dispatchData.gen, x)

OwnersInv ==
    life.phase # "none" =>
        /\ life.at \in Subobjects(ObjectClass)
        /\ \A x \in Subobjects(ObjectClass) : \A r \in Roots(x) :
              /\ IsLastWith(x, r)
              /\ life.phase = "destroying" => ~ IsOutlived(x)
              => IsGiven(r, x)

LEMMA SubobjectsAreClasses ==
    ASSUME NEW c \in Class
    PROVE  /\ Subobjects(c) \subseteq Class /\ c \in Subobjects(c)
           /\ \A x \in Subobjects(c) : x \in Nat
BY ProgramAssumption, ClassAssumption DEF Subobjects

\* A class has the roots of its bases.
LEMMA RootsOfBases ==
    ASSUME NEW c \in Class, NEW b \in Bases[c]
    PROVE  Roots(b) \subseteq Roots(c)
BY OrderAssumption DEF Roots, Subobjects

\* When the mixin of class d is destroyed, the classes that shared its roots and
\* are not outlived are direct bases of d, and the last that do.
LEMMA HandedToLast ==
    ASSUME NEW d \in Subobjects(ObjectClass), NEW x \in Subobjects(ObjectClass),
           NEW r \in Roots(x) \cap Roots(d), x < d, ~ IsOutlived(x),
           \A y \in Subobjects(ObjectClass) : x < y /\ y < d => r \notin Roots(y)
    PROVE  /\ d \notin Roots(d)
           /\ (CHOOSE b \in DirectBases(d) : r \in Roots(b)
                  /\ \A e \in DirectBases(d) : r \in Roots(e) => e <= b) = x
<1>1. /\ d \in Class /\ x \in Class /\ d \in Nat /\ x \in Nat
    BY SubobjectsAreClasses, ObjectClassAssumption
<1>2. x \in Bases[d]
    BY DEF IsOutlived, After
<1>3. d \notin Roots(d)
    BY <1>2 DEF Roots
<1>4. \A e \in Bases[d] : e \in Class /\ e \in Nat /\ e < d /\ e \in Subobjects(ObjectClass)
    BY <1>1, OrderAssumption, ProgramAssumption, ClassAssumption, ObjectClassAssumption
       DEF Subobjects
<1>5. ASSUME NEW e \in Bases[d], r \in Roots(e)
      PROVE  e <= x
    BY <1>1, <1>4, <1>5
<1>6. x \in DirectBases(d)
    <2>1. ASSUME NEW e \in Bases[d], x \in Bases[e]
          PROVE  FALSE
        <3>1. r \in Roots(e) /\ x < e
            BY <1>4, <2>1, RootsOfBases, OrderAssumption
        <3> QED
            BY <1>1, <1>4, <1>5, <3>1
    <2> QED
        BY <1>2, <2>1 DEF DirectBases
<1>7. DirectBases(d) \subseteq Bases[d]
    BY DEF DirectBases
<1> DEFINE IsLast(b) == /\ r \in Roots(b)
                        /\ \A e \in DirectBases(d) : r \in Roots(e) => e <= b
<1>8. IsLast(x)
    BY <1>5, <1>7
<1>9. ASSUME NEW b \in DirectBases(d), IsLast(b)
      PROVE  b = x
    <2>1. b <= x /\ x <= b /\ b \in Nat
        BY <1>4, <1>5, <1>6, <1>7, <1>9
    <2> QED
        BY <1>1, <2>1
<1> HIDE DEF IsLast
<1>10. (CHOOSE b \in DirectBases(d) : IsLast(b)) = x
    BY <1>6, <1>8, <1>9
<1> QED
    BY <1>3, <1>10 DEF IsLast

\* What a root is given.
LEMMA BoxIsGiven ==
    ASSUME RegistryInv, stage = "idle", NEW x \in Class, NEW r,
           embedded'[r] = Box(x), UNCHANGED registryVars
    PROVE  IsGiven(r, x)'
BY DEF RegistryInv, StandingInv, Box, IsGiven, registryVars, published

LEMMA ConstructionKeepsOwners ==
    ASSUME RegistryInv, OwnersInv, PlacesInv, LifeInv, Construct \/ ConstructNext
    PROVE  OwnersInv'
<1>1. /\ UNCHANGED registryVars /\ stage = "idle"
      /\ \/ life.phase = "none"
         \/ life.phase = "constructing" /\ life.at \in Subobjects(ObjectClass)
    BY DEF Construct, ConstructNext, OwnersInv
<1>2. PICK c \in Class :
        /\ MixinCtor(c) /\ life' = [phase |-> "constructing", at |-> c]
        /\ c \in Subobjects(ObjectClass)
        /\ \A y \in Subobjects(ObjectClass) :
              y < c => life.phase = "constructing" /\ y <= life.at
        /\ life.phase = "constructing" => life.at < c
    <2>1. \A y \in Subobjects(ObjectClass) : y \in Nat
        BY SubobjectsAreClasses, ObjectClassAssumption
    <2>2. CASE Construct
        <3>1. PICK c \in Class :
                /\ IsFirstOf(c, Subobjects(ObjectClass)) /\ MixinCtor(c)
                /\ life' = [phase |-> "constructing", at |-> c]
            BY <2>2 DEF Construct
        <3>2. life.phase = "none"
            BY <2>2 DEF Construct
        <3> QED
            BY <2>1, <3>1, <3>2 DEF IsFirstOf
    <2>3. CASE ConstructNext
        <3>1. PICK c \in Class :
                /\ IsFirstOf(c, After(life.at)) /\ MixinCtor(c)
                /\ life' = [life EXCEPT !.at = c]
            BY <2>3 DEF ConstructNext
        <3>2. life.phase = "constructing" /\ life.at \in Subobjects(ObjectClass)
            BY <2>3 DEF ConstructNext, OwnersInv
        <3>3. life' = [phase |-> "constructing", at |-> c]
            BY <3>1, <3>2 DEF LifeInv
        <3>4. c \in Subobjects(ObjectClass) /\ life.at < c
            BY <3>1 DEF IsFirstOf, After
        <3>5. \A y \in Subobjects(ObjectClass) : y < c => y <= life.at
            BY <2>1, <3>1, <3>2, <3>4 DEF IsFirstOf, After
        <3> QED
            BY <3>1, <3>2, <3>3, <3>4, <3>5
    <2> QED
        BY <2>2, <2>3
<1>3. /\ life'.phase = "constructing" /\ life'.at = c
      /\ \A y \in Subobjects(ObjectClass) : y \in Nat
    BY <1>2, SubobjectsAreClasses, ObjectClassAssumption
<1>4. ASSUME NEW x \in Subobjects(ObjectClass), NEW r \in Roots(x), IsLastWith(x, r)'
      PROVE  IsGiven(r, x)'
    <2>1. /\ x <= c
          /\ \A y \in Subobjects(ObjectClass) : x < y /\ y <= c => r \notin Roots(y)
        BY <1>3, <1>4 DEF IsLastWith
    <2>2. r \in Roots(ObjectClass) /\ x \in Class
        <3>1. x = ObjectClass \/ x \in Bases[ObjectClass]
            BY DEF Subobjects
        <3> QED
            BY <3>1, RootsOfBases, ObjectClassAssumption, ProgramAssumption
    <2>3. /\ embedded' = [q \in DOMAIN embedded |->
                IF q \in Roots(c) THEN Box(c) ELSE embedded[q]]
          /\ freshRoots' = freshRoots \cup Roots(c) /\ r \in DOMAIN embedded
        <3>1. r \in DOMAIN embedded
            BY <2>2 DEF PlacesInv
        <3> QED
            BY <1>2, <3>1 DEF MixinCtor
    <2>4. CASE x = c
        <3>1. embedded'[r] = Box(x)
            BY <2>3, <2>4
        <3> QED
            BY <1>1, <2>2, <3>1, BoxIsGiven
    <2>5. CASE x # c
        <3>1. x < c /\ life.phase = "constructing" /\ x <= life.at /\ r \notin Roots(c)
            BY <1>2, <1>3, <2>1, <2>5
        <3>2. life.at < c /\ life.at \in Nat
            BY <1>1, <1>2, <1>3, <3>1
        <3>3. IsLastWith(x, r)
            BY <1>2, <1>3, <2>1, <3>1, <3>2 DEF IsLastWith
        <3>4. IsGiven(r, x)
            BY <3>1, <3>3 DEF OwnersInv
        <3>5. embedded'[r] = embedded[r] /\ (r \in freshRoots' => r \in freshRoots)
            BY <2>3, <3>1
        <3> QED
            BY <1>1, <3>4, <3>5 DEF IsGiven, registryVars, published
    <2> QED
        BY <2>4, <2>5
<1> QED
    BY <1>2, <1>3, <1>4 DEF OwnersInv

LEMMA DestructionKeepsOwners ==
    ASSUME RegistryInv, OwnersInv, PlacesInv, DestroyNext
    PROVE  OwnersInv'
<1>1. PICK d : d = life.at
    OBVIOUS
<1>2. /\ UNCHANGED registryVars /\ stage = "idle" /\ MixinDtor(d)
      /\ life.phase \in {"constructing", "destroying"}
      /\ d \in Subobjects(ObjectClass)
    BY <1>1 DEF DestroyNext, OwnersInv
<1>3. CASE life'.phase = "none"
    BY <1>3 DEF OwnersInv
<1>4. CASE life'.phase # "none"
    <2>1. PICK c \in Class :
            IsLastOf(c, Before(d)) /\ life' = [phase |-> "destroying", at |-> c]
        BY <1>1, <1>4 DEF DestroyNext
    <2>2. /\ c \in Subobjects(ObjectClass) /\ c < d
          /\ \A y \in Subobjects(ObjectClass) : y \in Nat /\ (y < d => y <= c)
        BY <2>1, SubobjectsAreClasses, ObjectClassAssumption DEF IsLastOf, Before
    <2>3. life'.phase = "destroying" /\ life'.at = c
        BY <2>1
    <2>4. ASSUME NEW x \in Subobjects(ObjectClass), NEW r \in Roots(x),
                 IsLastWith(x, r)', ~ IsOutlived(x)
          PROVE  IsGiven(r, x)'
        <3>1. /\ x <= c /\ x < d
              /\ \A y \in Subobjects(ObjectClass) : x < y /\ y < d => r \notin Roots(y)
            BY <1>2, <2>2, <2>3, <2>4 DEF IsLastWith
        <3>2. r \in Roots(ObjectClass) /\ x \in Class
            <4>1. x = ObjectClass \/ x \in Bases[ObjectClass]
                BY DEF Subobjects
            <4> QED
                BY <4>1, RootsOfBases, ObjectClassAssumption, ProgramAssumption
        <3> DEFINE LastOf(q) == CHOOSE b \in DirectBases(d) : q \in Roots(b)
                       /\ \A e \in DirectBases(d) : q \in Roots(e) => e <= b
        <3>3. /\ embedded' = [q \in DOMAIN embedded |->
                    IF q \notin Roots(d) THEN embedded[q]
                    ELSE IF d \in Roots(d) THEN Null ELSE Box(LastOf(q))]
              /\ freshRoots' = IF d \in Roots(d) THEN freshRoots \ {d}
                               ELSE freshRoots \cup Roots(d)
            BY <1>2 DEF MixinDtor
        <3>4. r \in DOMAIN embedded
            BY <3>2 DEF PlacesInv
        <3>5. CASE r \in Roots(d)
            <4>1. d \notin Roots(d) /\ LastOf(r) = x
                BY <1>2, <2>4, <3>1, <3>5, HandedToLast
            <4> HIDE DEF LastOf
            <4>2. embedded'[r] = Box(x)
                BY <3>3, <3>4, <3>5, <4>1
            <4> QED
                BY <1>2, <3>2, <4>2, BoxIsGiven
        <3>6. CASE r \notin Roots(d)
            <4> HIDE DEF LastOf
            <4>1. embedded'[r] = embedded[r]
                BY <3>3, <3>4, <3>6
            <4>2. r \in freshRoots' => r \in freshRoots
                BY <3>3, <3>6
            <4>3. IsLastWith(x, r)
                BY <1>1, <1>2, <2>2, <3>1, <3>6 DEF IsLastWith
            <4>4. IsGiven(r, x)
                BY <1>2, <2>4, <4>3 DEF OwnersInv
            <4> QED
                BY <1>2, <4>1, <4>2, <4>4 DEF IsGiven, registryVars, published
        <3> QED
            BY <3>5, <3>6
    <2>5. \A x : IsOutlived(x)' <=> IsOutlived(x)
        BY DEF IsOutlived, After
    <2> QED
        BY <2>2, <2>3, <2>4, <2>5 DEF OwnersInv
<1> QED
    BY <1>3, <1>4

LEMMA PtrNextKeeps ==
    ASSUME PtrNext PROVE UNCHANGED <<registryVars, inplaceVars>>
BY DEF PtrNext, SetNull, ConstructFromNull, ConstructFrom, ConstructFromSmart,
       AssignObject, AssignSmart, FinalVirtualPtr, Copy, Move, CastMove, MoveLeaving

LEMMA OwnersAreKept ==
    ASSUME Inv, OwnersInv, [Next]_vars
    PROVE  OwnersInv'
<1>0. \A x : IsOutlived(x)' <=> IsOutlived(x)
    BY DEF IsOutlived, After
<1>1. ASSUME UNCHANGED <<life, embedded>>,
             \A x, r : IsGiven(r, x) => IsGiven(r, x)'
      PROVE  OwnersInv'
    BY <1>0, <1>1 DEF OwnersInv, IsLastWith
<1>2. CASE RegistryStep
    <2>1. config' = config /\ UNCHANGED <<life, embedded>>
        BY <1>2, RegistryKeeps DEF RegistryStep, Inv, RegistryInv
    <2>2. ASSUME NEW x, NEW r, IsGiven(r, x)
          PROVE  IsGiven(r, x)'
        <3>1. CASE stage = "swap"
            BY <1>2, <2>1, <2>2, <3>1 DEF RegistryStep, IsGiven
        <3>2. CASE ~ initialized'
            BY <2>1, <2>2, <3>2 DEF IsGiven
        <3>3. CASE /\ dispatchData'.gen = dispatchData.gen /\ stage # "swap"
                   /\ KnownIn(dispatchData'.units) \subseteq KnownIn(dispatchData.units)
                   /\ UNCHANGED initialized /\ (torn' \/ UNCHANGED torn)
            BY <1>2, <2>1, <2>2, <3>3 DEF RegistryStep, IsGiven
        <3> QED
            BY <1>2, <3>1, <3>2, <3>3, RegistryKeeps DEF RegistryStep, Inv, RegistryInv
    <2> QED
        BY <1>1, <2>1, <2>2
<1>3. CASE InplaceStep
    <2>1. InplaceNext
        BY <1>3 DEF InplaceStep
    <2>2. CASE Construct \/ ConstructNext
        BY <2>2, ConstructionKeepsOwners DEF Inv
    <2>3. CASE Complete
        <3>1. life.phase = "constructing" /\ life'.phase = "complete" /\ life'.at = life.at
            BY <2>3 DEF Complete
        <3>2. UNCHANGED <<registryVars, embedded, freshRoots>>
            BY <2>3 DEF Complete
        <3> QED
            BY <3>1, <3>2 DEF OwnersInv, IsLastWith, IsGiven, registryVars, published
    <2>4. CASE Destroy
        <3>1. life.phase = "complete" /\ life'.phase = "destroying" /\ life'.at = life.at
            BY <2>4 DEF Destroy, LifeInv, Inv
        <3>2. UNCHANGED <<registryVars, embedded, freshRoots>>
            BY <2>4 DEF Destroy
        <3> QED
            BY <3>1, <3>2 DEF OwnersInv, IsLastWith, IsGiven, registryVars, published
    <2>5. CASE DestroyNext
        BY <2>5, DestructionKeepsOwners DEF Inv
    <2> QED
        BY <2>1, <2>2, <2>3, <2>4, <2>5 DEF InplaceNext
<1>4. CASE UNCHANGED <<registryVars, inplaceVars>>
    BY <1>1, <1>4 DEF IsGiven, registryVars, published, inplaceVars
<1>5. CASE PtrNext
    BY <1>4, <1>5, PtrNextKeeps
<1>6. CASE UNCHANGED vars
    BY <1>4, <1>6 DEF vars
<1> QED
    BY <1>2, <1>3, <1>5, <1>6 DEF Next

LEMMA OwnersInvariant == Spec => []OwnersInv
<1>1. Init => OwnersInv
    BY DEF Init, InplaceInit, OwnersInv
<1> QED
    BY <1>1, OwnersAreKept, Invariance, PTL DEF Spec

\* For any hierarchy, any registry and any number of calls of initialize, and
\* also when a constructor throws: a call from the body of a constructor or
\* destructor finds the v-table of the class whose body it is, through each of
\* the v-table pointers that are embedded in the class - if a unit that has
\* stayed registered the class when initialize last succeeded.
THEOREM EmbeddedAlwaysFollowsBody == Spec => []EmbeddedFollowsBody
<1>1. Inv /\ OwnersInv => EmbeddedFollowsBody
    <2> SUFFICES ASSUME Inv, OwnersInv, stage = "idle", initialized, ~ torn,
                        life.phase # "none", life.at \in KnownIn(dispatchData.units),
                        life.phase = "destroying" => ~ IsOutlived(life.at),
                        NEW r \in Roots(life.at), r \in freshRoots \/ config.indirect
                 PROVE  Unbox(embedded[r]) = Vtable(dispatchData.gen, life.at)
        BY DEF EmbeddedFollowsBody
    <2>1. life.at \in Subobjects(ObjectClass) /\ life.at \in Nat
        BY SubobjectsAreClasses, ObjectClassAssumption DEF OwnersInv
    <2>2. IsLastWith(life.at, r)
        <3>1. \A y \in Subobjects(ObjectClass) : y \in Nat
            BY SubobjectsAreClasses, ObjectClassAssumption
        <3> QED
            BY <2>1, <3>1 DEF IsLastWith
    <2>3. IsGiven(r, life.at)
        BY <2>1, <2>2 DEF OwnersInv
    <2>4. embedded[r] = Expected(dispatchData.gen, life.at)
        BY <2>3 DEF IsGiven, Expected
    <2> QED
        BY <2>4, ExpectedLeadsHome
<1> QED
    BY <1>1, Invariance, OwnersInvariant, PTL
=============================================================================
