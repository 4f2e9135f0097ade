------------------------------- MODULE Calls -------------------------------
(****************************************************************************)
(* From the layout to a call: assign_slots, then write_global_data, which   *)
(* puts the dispatch tables and the v-tables in one vector of words, then   *)
(* method::resolve, which finds its way through them with nothing but the   *)
(* v-table pointers of the arguments and the method's slots and strides.    *)
(*                                                                          *)
(* The content of the cells is the business of module Dispatch.  Here the   *)
(* function in cell k of the table of method m is just the pair m, k.       *)
(****************************************************************************)
EXTENDS Lattice, Groups

CONSTANTS
    NumParams,      \* number of virtual parameters of all the methods
    Programs        \* the programs considered

(****************************************************************************)
(* A method has parameters, a class for each virtual one and NoClass for    *)
(* any other, and overriders, with their classes for the virtual ones.      *)
(****************************************************************************)
NoClass == 0

MethodInfo == [params : Seq(Class \cup {NoClass}), overriders : Seq(Seq(Class))]

\* The classes of the virtual parameters.
VirtualIn(params) ==
    FoldLeft(LAMBDA s, c : IF c = NoClass THEN s ELSE Append(s, c), <<>>, params)

\* method::vp of all the methods, one after the other.
AllVp(methods) ==
    FoldLeft(LAMBDA s, m : s \o VirtualIn(m.params), <<>>, methods)

(****************************************************************************)
(* A program has classes with the bases they have in C++, with those of     *)
(* them that augment_classes has collected - all the direct ones, and all   *)
(* the others too if bases are registered first - and with those that it    *)
(* takes for direct: when it has lost a base, the sort of the others may    *)
(* put one before a class that derives from it, and then both are taken.    *)
(* A method has at least one virtual parameter.                             *)
(****************************************************************************)
ASSUME ProgramsAssumption ==
    \A p \in Programs :
        /\ p.bases \in Inheritances
        /\ p.collected \in [Class -> SUBSET Class]
        /\ \A c \in Class : /\ p.collected[c] \subseteq p.bases[c]
                            /\ DirectOf(p.bases)[c] \subseteq p.collected[c]
        /\ p.direct \in [Class -> SUBSET Class]
        /\ \A c \in Class : /\ DirectOf(p.collected)[c] \subseteq p.direct[c]
                            /\ p.direct[c] \subseteq p.collected[c]
        /\ p.methods \in Seq(MethodInfo)
        /\ \A m \in DOMAIN p.methods : VirtualIn(p.methods[m].params) # <<>>
        /\ Len(AllVp(p.methods)) = NumParams

VARIABLES
    program,        \* the classes and the methods
    bases, directBases, derived, host,                  \* as in AssignSlots
    phase, roots, kind, frames, visiting, pending, nextSlot, marked,
    slots, usedSlots, reservedSlots, firstSlot, vtblSize,
    written,        \* how many methods and classes write_global_data has done
    data,           \* registry::dispatch_data, word 1 first
    slotsStrides,   \* method::slots_strides
    tableAt,        \* method::gv_dispatch_table
    vptr,           \* class_::static_vptr, as an index in data
    call            \* the call under way

slotVars == <<phase, roots, kind, frames, visiting, pending, nextSlot, marked,
              slots, usedSlots, reservedSlots, firstSlot, vtblSize>>
inputs == <<program, bases, directBases, derived, host>>
outputs == <<data, slotsStrides, tableAt, vptr>>
vars == <<inputs, slotVars, written, outputs, call>>

Slots == INSTANCE AssignSlots

Method == DOMAIN program.methods
Params(m) == program.methods[m].params
Overriders(m) == program.methods[m].overriders

\* method::vp
Vp(m) == VirtualIn(Params(m))
ArityOf(m) == Len(Vp(m))

\* The virtual parameter d of method m, among those of all methods.
ParamOf(m, d) == d + Len(AllVp(SubSeq(program.methods, 1, m - 1)))

Column(m, d) == [i \in DOMAIN Overriders(m) |-> Overriders(m)[i][d]]

GroupsIn(m, d) == GroupsOf(derived, Vp(m)[d], Column(m, d))

\* The index of the group of class c, counted from zero.
GroupIndex(m, d, c) ==
    (CHOOSE k \in DOMAIN GroupsIn(m, d) :
        GroupsIn(m, d)[k] = Mask(derived, Column(m, d), c)) - 1

\* The numbers of groups in the dimensions of method m.
Sizes(m) == [d \in 1 .. ArityOf(m) |-> Len(GroupsIn(m, d))]
Cells(m) == Stride(Sizes(m), ArityOf(m) + 1)

-----------------------------------------------------------------------------
(* The three things a word can be *)

Function(m, k) == [is |-> "pf", method |-> m, value |-> k]
Pointer(a) == [is |-> "pw", method |-> 0, value |-> a]
Index(i) == [is |-> "i", method |-> 0, value |-> i]
Garbage == [is |-> "garbage", method |-> 0, value |-> 0]

\* What is made of a word: its value, if it is what the code takes it for, or
\* else something that is far from any word.
Nowhere == -1000000
As(is, w) == IF w.is = is THEN w.value ELSE Nowhere

NoCall == [method |-> 0]

Init ==
    /\ program \in Programs
    /\ bases = program.collected
    /\ directBases = program.direct
    /\ derived = DerivedOf(program.bases)
    /\ host = AllVp(program.methods)
    /\ Slots!Start
    /\ written = 0
    /\ data = <<>>
    /\ slotsStrides = [m \in Method |-> <<>>]
    /\ tableAt = [m \in Method |-> 0]
    /\ vptr = [c \in Class |-> 0]
    /\ call = NoCall

AssignSlots ==
    /\ Slots!Step
    /\ UNCHANGED <<program, written, outputs, call>>

-----------------------------------------------------------------------------
(* write_global_data *)

NumMethods == Len(program.methods)

\* std::accumulate
Accumulate(init, sizes) == FoldLeft(LAMBDA sum, n : sum + n, init, sizes)

\* The size the vector is given: the dispatch tables of all the methods, though
\* those of the uni-methods are not copied, and the v-tables.
DispatchDataSize ==
    Accumulate(Accumulate(0, [m \in Method |-> Cells(m)]), vtblSize)

\* A method gets its slots and strides; one with several virtual parameters
\* also has its table copied.
WriteMethod ==
    /\ phase = "done" /\ written < NumMethods
    /\ written' = written + 1
    /\ LET m == written + 1
           dims == [d \in 1 .. ArityOf(m) |-> d]
           mySlots == [d \in DOMAIN dims |-> slots[ParamOf(m, d)]]
           strides == [d \in 1 .. (ArityOf(m) - 1) |-> Stride(Sizes(m), d + 1)]
       IN  /\ slotsStrides' = [slotsStrides EXCEPT ![m] = mySlots \o strides]
           /\ IF ArityOf(m) = 1
              THEN UNCHANGED <<tableAt, data>>
              ELSE /\ tableAt' = [tableAt EXCEPT ![m] = Len(data) + 1]
                   /\ data' = data \o [k \in 1 .. Cells(m) |-> Function(m, k)]
    /\ UNCHANGED <<inputs, slotVars, vptr, call>>

\* The virtual parameters with an entry for class c in slot s.
Entries(c, s) ==
    { e \in Method \X (1 .. Len(host)) :
        /\ e[2] <= ArityOf(e[1])
        /\ c \in derived[Vp(e[1])[e[2]]]
        /\ slots[ParamOf(e[1], e[2])] = s }

\* The last entry of them to be written.
LastEntry(c, s) ==
    CHOOSE e \in Entries(c, s) :
        \A o \in Entries(c, s) : ParamOf(o[1], o[2]) <= ParamOf(e[1], e[2])

\* The entry build_dispatch_tables leaves there, or the zeros of a vtbl_entry
\* nothing was written to.
EntryAt(c, s) ==
    LET e == LastEntry(c, s)
    IN  IF Entries(c, s) = {} THEN [m |-> 1, d |-> 1, group |-> 0]
        ELSE [m |-> e[1], d |-> e[2], group |-> GroupIndex(e[1], e[2], c)]

\* Mutants: the index in a uni-method's table counted from one too few; the
\* pointer in the table of another off by one.
WordOfGroup(e) ==
    IF ArityOf(e.m) = 1 THEN Function(e.m, e.group)
    ELSE IF e.d = 1 THEN Pointer(tableAt[e.m] + e.group)
    ELSE Index(e.group)

WordPastGroup(e) ==
    IF ArityOf(e.m) = 1 THEN Function(e.m, e.group + 1)
    ELSE IF e.d = 1 THEN Pointer(tableAt[e.m] + e.group + 1)
    ELSE Index(e.group)

WordOf(e) ==
    IF ArityOf(e.m) = 1 THEN Function(e.m, e.group + 1)
    ELSE IF e.d = 1 THEN Pointer(tableAt[e.m] + e.group)
    ELSE Index(e.group)

\* Mutant: the v-table is not trimmed at the start.
UntrimmedVtable(c) ==
    [k \in 1 .. (firstSlot[c] + vtblSize[c]) |-> WordOf(EntryAt(c, k - 1))]

\* The words of class c's v-table.
VtableOf(c) ==
    [k \in 1 .. vtblSize[c] |-> WordOf(EntryAt(c, firstSlot[c] + k - 1))]

\* A class gets its v-table; the pointer to it is to slot zero, which may well
\* be before the v-table, or before the vector.
WriteClass ==
    /\ phase = "done" /\ NumMethods <= written /\ written < NumMethods + NumClasses
    /\ written' = written + 1
    /\ LET c == written + 1 - NumMethods
       IN  /\ vptr' = [vptr EXCEPT ![c] = Len(data) + 1 - firstSlot[c]]
           /\ data' = data \o VtableOf(c)
    /\ UNCHANGED <<inputs, slotVars, slotsStrides, tableAt, call>>

-----------------------------------------------------------------------------
(* method::resolve *)

Ready == written = NumMethods + NumClasses

\* A read outside of the vector gives garbage, and so does any use of it.
WordAt(a) == IF a \in DOMAIN data THEN data[a] ELSE Garbage

\* The word in the v-table of the argument at hand, at the i-th slot.
Lookup(i) == WordAt(vptr[call.args[call.pos]] + slotsStrides[call.method][i])

\* A method is called with arguments of some dynamic classes.
Call ==
    /\ Ready /\ call = NoCall
    /\ \E m \in Method :
          \E args \in [DOMAIN Params(m) -> Class \cup {NoClass}] :
             /\ \A i \in DOMAIN args :
                   IF Params(m)[i] = NoClass THEN args[i] = NoClass
                   ELSE args[i] \in derived[Params(m)[i]]
             /\ call' = [method |-> m, args |-> args, pos |-> 1, virtualArg |-> 0,
                         dispatch |-> 0, step |-> "first", result |-> Garbage]
    /\ UNCHANGED <<inputs, slotVars, written, outputs>>

InCall(step) == call # NoCall /\ call.step = step
IsVirtual == Params(call.method)[call.pos] # NoClass
Arity == ArityOf(call.method)

\* resolve_uni and resolve_multi_first look for the first virtual parameter.
SkipToFirst ==
    /\ InCall("first") /\ ~ IsVirtual
    /\ call' = [call EXCEPT !.pos = @ + 1]
    /\ UNCHANGED <<inputs, slotVars, written, outputs>>

ResolveUni ==
    /\ InCall("first") /\ IsVirtual /\ Arity = 1
    /\ call' = [call EXCEPT !.step = "resolved", !.result = Lookup(1)]
    /\ UNCHANGED <<inputs, slotVars, written, outputs>>

ResolveMultiFirst ==
    /\ InCall("first") /\ IsVirtual /\ Arity > 1
    /\ call' = [call EXCEPT !.step = "next", !.pos = @ + 1, !.virtualArg = 1,
                            !.dispatch = As("pw", Lookup(1))]
    /\ UNCHANGED <<inputs, slotVars, written, outputs>>

\* Any further parameter counts as a virtual one.
ResolveMultiNext ==
    /\ InCall("next")
    /\ LET n == call.virtualArg
           dispatch == IF IsVirtual
                       THEN call.dispatch + As("i", Lookup(n + 1))
                                * slotsStrides[call.method][Arity + n]
                       ELSE call.dispatch
       IN  call' = IF n + 1 = Arity
                   THEN [call EXCEPT !.step = "resolved", !.dispatch = dispatch,
                                     !.result = WordAt(dispatch)]
                   ELSE [call EXCEPT !.pos = @ + 1, !.virtualArg = n + 1,
                                     !.dispatch = dispatch]
    /\ UNCHANGED <<inputs, slotVars, written, outputs>>

Return ==
    /\ InCall("resolved")
    /\ call' = NoCall
    /\ UNCHANGED <<inputs, slotVars, written, outputs>>

Next ==
    \/ AssignSlots
    \/ WriteMethod
    \/ WriteClass
    \/ Call
    \/ SkipToFirst
    \/ ResolveUni
    \/ ResolveMultiFirst
    \/ ResolveMultiNext
    \/ Return

Spec == Init /\ [][Next]_vars

-----------------------------------------------------------------------------
(* Properties *)

Word == [is : {"pf"}, method : Method, value : Nat \ {0}]
            \cup [is : {"pw", "i"}, method : {0}, value : Nat]

\* Each variable has the type its C++ counterpart has.
TypeOK ==
    /\ Slots!TypeOK
    /\ written \in 0 .. (NumMethods + NumClasses)
    /\ data \in Seq(Word)
    /\ slotsStrides \in [Method -> Seq(Nat)]
    /\ tableAt \in [Method -> Nat]
    /\ vptr \in [Class -> Int]
    /\ call # NoCall => call.pos \in DOMAIN Params(call.method)

\* The vector is as large as the code computes beforehand: nothing is written
\* past its end.
FitsInDispatchData == Len(data) <= DispatchDataSize

\* The cell of the dispatch table for the arguments of the call.
CellFor(m, args) ==
    LET virtual == VirtualIn(args)
    IN  CellNumber([d \in 1 .. ArityOf(m) |-> Stride(Sizes(m), d)],
                   [d \in 1 .. ArityOf(m) |-> GroupIndex(m, d, virtual[d]) + 1])

GetsItsCell ==
    InCall("resolved") =>
        call.result = Function(call.method, CellFor(call.method, call.args))

\* No parameter of the method is between two virtual ones without being one.
IsContiguous(params) ==
    \A i, j \in DOMAIN params :
        params[i] # NoClass /\ params[j] # NoClass =>
            \A k \in i .. j : params[k] # NoClass

\* A call of a method ends up in the cell of that method, not another, that is
\* for the groups of its arguments: the slots given to the methods, the
\* trimmed v-tables, the tables and the strides all agree, whichever classes
\* the arguments have and whatever else is in their v-tables.
ContiguousCallsGetTheirCell ==
    InCall("resolved") /\ IsContiguous(Params(call.method))
            /\ program.collected = program.bases => GetsItsCell

\* Every class has room in its v-table for the parameters it can be passed for,
\* even when classes were registered in an order that loses indirect bases, and
\* slots may be shared: build_dispatch_tables never writes outside a v-table.
EntriesInsideVtables == Slots!SlotsInsideVtables

\* "The dynamic types of the virtual arguments are taken into account": the
\* same for all methods, whatever their parameter lists.
EveryCallGetsItsCell == GetsItsCell
=============================================================================
