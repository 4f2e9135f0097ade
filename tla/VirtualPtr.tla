----------------------------- MODULE VirtualPtr -----------------------------
(****************************************************************************)
(* virtual_ptr: an object pointer and a v-table pointer that are made       *)
(* together, copied and moved together, and outlive calls of initialize().  *)
(* Every constructor and assignment is an action, whatever the static types *)
(* of both sides; converting constructors and assignments do the same as    *)
(* those between equal types.                                               *)
(****************************************************************************)
EXTENDS InplaceVptr

CONSTANTS
    Object, ClassOf,    \* the objects and their dynamic classes
    NoObject,
    Ptr                 \* variables of a virtual_ptr type

ASSUME ObjectAssumption == ClassOf \in [Object -> Class] /\ NoObject \notin Object

VARIABLES
    ptr,        \* obj and vp of each virtual_ptr
    fresh,      \* those acquired, or copied from one acquired, since
                \* initialize() last succeeded, with what they needed in place
    excused     \* those an exception or a cast of an rvalue left in two minds,
                \* or that were acquired through a broken hash function

ptrVars == <<ptr, fresh, excused>>
vars == <<registryVars, inplaceVars, ptrVars>>

smart == config.pointer # "plain"

\* Objects with embedded v-table pointers are built and destroyed; there is one.
\* Others are just there.
IsAlive(o) ==
    o # NoObject /\
        (config.policy = "inplace" => ClassOf[o] = ObjectClass /\ life.phase = "complete")

Init ==
    /\ RegistryInit
    /\ InplaceInit
    /\ ptr = [p \in Ptr |-> [obj |-> NoObject, vp |-> Null]]
    /\ fresh = {} /\ excused = {}

-----------------------------------------------------------------------------
(* Where v-table pointers come from *)

\* The lookup is not a defined operation: there is nothing to find, or what is
\* found is to be read through and is one of the null pointers the vector is
\* filled up with, for a class that is not registered, or the address of a
\* variable of a library that was unloaded.
IsUndefined(o) ==
    /\ config.policy # "inplace"
    /\ \/ entries[ClassOf[o]] = Absent
       \/ config.indirect /\ entries[ClassOf[o]] \in {Null, Dangling}

\* With runtime checks an error handler is called that throws: not_initialized
\* or missing_class.
Throws(o) ==
    /\ config.checks
    /\ \/ ~ initialized
       \/ config.policy # "inplace" /\ entries[ClassOf[o]] = Absent

CanAcquire(o) == ~ Throws(o) /\ ~ IsUndefined(o)

\* Mutant: what is found is read through.
EntryOf(o) == IF config.policy = "inplace" THEN Null ELSE Unbox(entries[ClassOf[o]])

\* box_vptr(acquire_vptr(obj)).  dynamic_vptr returns a reference to the static
\* v-table pointer, or to the policy's copy of it; boost_openmethod_vptr returns
\* a value, of which only the address is left.
Acquired(o) ==
    CASE config.policy # "inplace" ->
            entries[ClassOf[o]]
      [] config.policy = "inplace" /\ config.indirect ->
            Temporary
      [] OTHER -> embedded[FirstRoot(ClassOf[o])]

\* What was needed for the pointer to be right was there.
IsSound(o) ==
    /\ ~ torn
    /\ ClassOf[o] \in KnownIn(dispatchData.units)
    /\ config.policy = "inplace" => FirstRoot(ClassOf[o]) \in freshRoots

Mark(set, p, yes) == IF yes THEN set \cup {p} ELSE set \ {p}

\* p gets the object and the v-table pointer v.
Assign(p, o, v, isFresh, isExcused) ==
    /\ ptr' = [ptr EXCEPT ![p] = [obj |-> o, vp |-> v]]
    /\ fresh' = Mark(fresh, p, isFresh)
    /\ excused' = Mark(excused, p, isExcused)

AssignFrom(p, o) == Assign(p, o, Acquired(o), IsSound(o), torn)

\* A unique pointer may take an object that no other has.
IsFree(o) == config.pointer = "unique" => \A p \in Ptr : ptr[p].obj # o

Can(p, o) == stage = "idle" /\ p \in Ptr /\ o \in Object /\ IsAlive(o) /\ IsFree(o)

-----------------------------------------------------------------------------
(* From objects *)

\* nullptr.
SetNull(p) ==
    /\ stage = "idle"
    /\ Assign(p, NoObject, Null, FALSE, FALSE)
    /\ UNCHANGED <<registryVars, inplaceVars>>

\* A null smart pointer.  It goes through a conditional expression, in which
\* null_vptr is a value when the other branch is one.
ConstructFromNull(p) ==
    /\ stage = "idle" /\ smart
    /\ Assign(p, NoObject,
              IF config.policy = "inplace" /\ config.indirect THEN Temporary ELSE Null,
              FALSE, FALSE)
    /\ UNCHANGED <<registryVars, inplaceVars>>

\* From a reference or a pointer.  When an error is thrown nothing has happened.
ConstructFrom(p, o) ==
    /\ ~ smart /\ Can(p, o) /\ CanAcquire(o)
    /\ AssignFrom(p, o)
    /\ UNCHANGED <<registryVars, inplaceVars>>

\* From a smart pointer that is copied or moved: a constructor, or the move
\* assignment, which acquires the v-table pointer before it takes the object.
ConstructFromSmart(p, o) ==
    /\ smart /\ Can(p, o) /\ CanAcquire(o)
    /\ AssignFrom(p, o)
    /\ UNCHANGED <<registryVars, inplaceVars>>

\* The object first, then the v-table pointer, if that does not throw.
TakeThenAcquire(p, o) ==
    \/ CanAcquire(o) /\ AssignFrom(p, o)
    \/ Throws(o) /\ Assign(p, o, ptr[p].vp, FALSE, TRUE)

\* Mutant: the object is taken, the v-table pointer stays.
AssignObjectOnly(p, o) ==
    /\ ~ smart /\ Can(p, o) /\ ~ IsUndefined(o)
    /\ Assign(p, o, ptr[p].vp, p \in fresh, p \in excused)
    /\ UNCHANGED <<registryVars, inplaceVars>>

\* Assignment from a reference or a pointer.
AssignObject(p, o) ==
    /\ ~ smart /\ Can(p, o)
    /\ TakeThenAcquire(p, o)
    /\ UNCHANGED <<registryVars, inplaceVars>>

\* Assignment from a smart pointer that is copied.
AssignSmart(p, o) ==
    /\ config.pointer = "shared" /\ Can(p, o)
    /\ TakeThenAcquire(p, o)
    /\ UNCHANGED <<registryVars, inplaceVars>>

\* final_virtual_ptr: no lookup, the static type is the dynamic type.  An
\* assertion sees to it that there is a v-table pointer, which is a variable of
\* some unit that registers the type.
FinalVirtualPtr(p, o) ==
    /\ Can(p, o) /\ (config.checks => initialized)
    /\ ClassOf[o] \in Known /\ staticVptr[ClassOf[o]] # Null
    /\ Assign(p, o, Box(ClassOf[o]),
              ~ torn /\ ClassOf[o] \in KnownIn(dispatchData.units), FALSE)
    /\ UNCHANGED <<registryVars, inplaceVars>>

-----------------------------------------------------------------------------
(* From other virtual_ptrs *)

Copy(p, q) ==
    /\ stage = "idle" /\ config.pointer # "unique" /\ p # q
    /\ Assign(p, ptr[q].obj, ptr[q].vp, q \in fresh, q \in excused)
    /\ UNCHANGED <<registryVars, inplaceVars>>

\* q's two pointers go to p, then q has what is left.
MoveLeaving(p, q, left, leftInTwoMinds) ==
    /\ stage = "idle" /\ p # q
    /\ ptr' = [ptr EXCEPT ![p] = ptr[q], ![q] = [obj |-> NoObject, vp |-> left]]
    /\ fresh' = Mark(fresh \ {q}, p, q \in fresh)
    /\ excused' = Mark(Mark(excused, p, q \in excused), q, leftInTwoMinds)
    /\ UNCHANGED <<registryVars, inplaceVars>>

\* Mutant: the v-table pointer is copied, not exchanged.
MoveKeeping(p, q) == smart /\ MoveLeaving(p, q, ptr[q].vp, FALSE)

Move(p, q) == smart /\ MoveLeaving(p, q, Null, FALSE)

\* cast() && moves the object and copies the v-table pointer.
CastMove(p, q) ==
    /\ smart /\ ptr[q].obj # NoObject
    /\ MoveLeaving(p, q, ptr[q].vp, TRUE)

PtrNext ==
    \/ \E p \in Ptr : SetNull(p) \/ ConstructFromNull(p)
    \/ \E p \in Ptr, o \in Object : ConstructFrom(p, o) \/ ConstructFromSmart(p, o)
    \/ \E p \in Ptr, o \in Object : AssignObject(p, o) \/ AssignSmart(p, o)
    \/ \E p \in Ptr, o \in Object : FinalVirtualPtr(p, o)
    \/ \E p, q \in Ptr : Copy(p, q)
    \/ \E p, q \in Ptr : Move(p, q)
    \/ \E p, q \in Ptr : CastMove(p, q)

-----------------------------------------------------------------------------
(* The whole *)

\* A call of initialize that succeeds makes all direct pointers stale, and the
\* end of a library the addresses of its variables.  An object with embedded
\* v-table pointers is destroyed before the code of its classes is unloaded.
RegistryStep ==
    /\ RegistryNext
    /\ life.phase # "none" => Subobjects(ObjectClass) \subseteq Known'
    /\ ptr' = [p \in Ptr |->
                 [obj |-> ptr[p].obj, vp |-> Without(ptr[p].vp, Known \ Known')]]
    /\ UNCHANGED <<life, embedded, excused>>
    /\ freshRoots' = IF stage = "swap" THEN {} ELSE freshRoots
    /\ fresh' = IF stage = "swap" THEN {} ELSE fresh

\* No virtual_ptr is left to an object that is destroyed.
InplaceStep ==
    /\ InplaceNext
    /\ life.phase = "complete" => \A p \in Ptr : ptr[p].obj = NoObject
    /\ UNCHANGED ptrVars

Next == RegistryStep \/ InplaceStep \/ PtrNext

Spec == Init /\ [][Next]_vars

-----------------------------------------------------------------------------
(* Properties *)

\* Each variable has the type its C++ counterpart has.
TypeOK ==
    /\ RegistryTypeOK
    /\ InplaceTypeOK
    /\ ptr \in [Ptr -> [obj : Object \cup {NoObject}, vp : Boxed]]
    /\ fresh \in SUBSET Ptr /\ excused \in SUBSET Ptr

Pointing(p) == ptr[p].obj # NoObject
ClassAt(p) == ClassOf[ptr[p].obj]
LeadsHome(p) == Unbox(ptr[p].vp) = Vtable(dispatchData.gen, ClassAt(p))

\* The v-table pointer was the address of a variable of a library that is gone.
IsCutOff(p) == ptr[p].vp = Dangling

\* A call through a virtual_ptr that was made since initialize last succeeded,
\* however it has been passed on since, uses the v-table of the object's class
\* in the dispatch data there is: whatever the policy, and whether initialize
\* failed in the compiler since, or libraries have come and gone - but for
\* indirect pointers to the class of a library that has gone, even if it is
\* back.  The class must have been registered, by a unit that was still loaded,
\* when the pointer was made.
FreshPointersWork ==
    stage = "idle" /\ initialized /\ ~ torn =>
        \A p \in fresh :
            Pointing(p) /\ ~ (config.policy = "inplace" /\ config.indirect)
                => LeadsHome(p) \/ (config.indirect /\ IsCutOff(p))

\* With indirect v-table pointers a virtual_ptr stays good through any number
\* of calls of initialize, as long as the object's class stays registered - if
\* the v-table pointer is not embedded in the object.
IndirectPointersLast ==
    stage = "idle" /\ initialized /\ ~ torn /\ config.indirect
            /\ config.policy # "inplace" =>
        \A p \in Ptr \ excused :
            Pointing(p) /\ ClassAt(p) \in KnownIn(dispatchData.units)
                => LeadsHome(p) \/ IsCutOff(p)

\* The two halves of a virtual_ptr never come apart: the v-table pointer is one
\* made for the object's class, by whichever call of initialize, and null when
\* there is no object.  Exempt are pointers whose assignment has thrown, and
\* the empty shell that a cast of an rvalue leaves behind.
NeverAnotherClass ==
    \A p \in Ptr \ excused :
        IF Pointing(p) THEN ptr[p].vp.class \in {ClassAt(p), NoClass}
                       ELSE ptr[p].vp \in {Null, Temporary}

\* "These indirect pointers remain valid after a call to initialize": the same
\* as IndirectPointersLast, wherever the v-table pointer comes from.
EveryIndirectPointerLasts ==
    stage = "idle" /\ initialized /\ ~ torn /\ config.indirect =>
        \A p \in Ptr \ excused :
            Pointing(p) /\ ClassAt(p) \in KnownIn(dispatchData.units)
                => LeadsHome(p) \/ IsCutOff(p)
=============================================================================
