# Verification of Boost.OpenMethod

Boost.OpenMethod adds open multi-methods to C++. Classes, methods and overriders register themselves
through static objects; `initialize()` compiles what is registered into v-tables and dispatch tables;
a call then finds its overrider with a few indexed reads. This directory holds TLA+ modules for that
program, TLC configurations that check them on small instances, and TLAPS proofs.

All paths below are relative to `src/include/boost/openmethod/` unless they say otherwise.

## Inventory

| Part | State | Operations | What makes it correct |
|---|---|---|---|
| Registrars (`core.hpp` `use_class_aux`, `method::method`, `override_impl` and the destructors) | static objects of the program and of shared libraries; `overrider_info::method` | construct when a unit is loaded, in unspecified order; destroy in reverse when it is unloaded or the program exits | what is alive is on its list, no destructor looks for a node that is not there |
| Lists (`detail/static_list.hpp`) | `first`, `prev`, `next` pointers through `class_info`, `method_info`, `overrider_info` | push_back, remove, clear | the list is exactly the nodes pushed and not removed, in order |
| Lattice (`initialize.hpp` `augment_classes`) | `class_::transitive_bases`, `direct_bases`, `direct_derived`, `transitive_derived`, marks | collect bases, remove duplicates, find direct bases, close downwards | the lattice is the one the program's classes have, in every order of registration |
| Methods (`augment_methods`) | `method::vp`, `overriders`, `used_by_vp` | resolve classes, check overriders | an unacceptable overrider is reported |
| Slots (`assign_slots`, `assign_tree_slots`, `assign_lattice_slots`) | `slots`, `used_slots`, `reserved_slots`, `first_slot`, `vtbl` sizes | number trees, walk lattices, trim v-tables | parameters that apply to one class have different slots, inside its v-table |
| Tables (`build_dispatch_tables`, `select_dominant_overriders`) | groups, strides, `dispatch_table`, `next`, `report` | group classes, fill cells, select, count | each cell holds what the documentation of `method` says, `next` what would come after, and the report counts the cells |
| Global data (`write_global_data`) | `dispatch_data`, `slots_strides`, `static_vptr`, `next` | lay out the words | nothing written past the end; pointers, slots and strides agree |
| Calls (`core.hpp` `method::resolve*`) | none of their own | find the word of the arguments | the cell of the method for the groups of the arguments |
| Type hash and v-table maps (`policies/fast_perfect_hash.hpp`, `vptr_vector.hpp`, `vptr_map.hpp`) | factors, range, control table; vector or map of v-table pointers | search for factors, fill, look up | no two type ids share a bucket; each class is found |
| Registry lifecycle (`preamble.hpp`, `initialize`, `finalize`) | `dispatch_data`, `initialized` | initialize again with other libraries, finalize, errors that are thrown | what is published belongs together, and to what is registered |
| `virtual_ptr` (`core.hpp`, `interop/`) | object pointer with v-table pointer, direct or indirect | construct, convert, assign, copy, move, cast | the v-table pointer is that of the dynamic class, in the data there is |
| `inplace_vptr.hpp` | `boost_openmethod_vptr` in each root of an object | set by constructors, set back by destructors | the pointers lead to the v-table of the class whose body runs |
| RTTI policies, error handlers, output, macros | none that lasts | | |

Static registration feeds the compiler through the lists. The compiler's phases run one after the
other on objects it owns, and hand each other the lattice, the slots and the tables. Only
`write_global_data` makes anything visible to the program: the words, the slots and strides of each
method, the `next` pointers and one v-table pointer for each class, which the policy copies or points
to. Calls read these and change nothing. Objects and `virtual_ptr`s keep copies of v-table pointers for
longer than that.

Nothing here is concurrent: the library documents no locking, and `initialize` must not run beside
calls, so the hard behaviours are of another kind. They are the **order** of registration (unspecified
across translation units and for static members of templates), the order of loops and of ties in
sorts, a **depth-first walk that visits a class once** although later visits have needs of their own,
state left in **marks** and masks by earlier steps, **unsigned index arithmetic** without checks,
three loops that must agree on a numbering, and above all a **life of the registry** that tests hardly
exercise: libraries loaded and unloaded between calls of `initialize`, calls that fail half-way
through an error handler that throws, `finalize`, and v-table pointers that outlive all of these.
`hazards` in `PROJECT.json` lists them one by one.

## Modules

| Module | Models | Correspondence |
|---|---|---|
| `Lattice` | `class_` and the relations between classes | A class is its position in the deque `classes`. `IsInheritance` is what C++ guarantees: a strict order on a finite set, given by the most basic and the most derived member that each set of classes has. `DirectOf` and `DerivedOf` are what `augment_classes` makes of a complete relation. |
| `AugmentClasses` | `use_classes`, `augment_classes` | `UseClasses` appends the `class_info`s of one list; `CollectBases` handles one `class_info`, `TakeBase` one base in the loop over sorted bases, with ties of the sort in any order. `covered` is the set of classes with the current mark. |
| `AssignSlots` | `assign_slots` and its two recursive functions | `frames` is the call stack: what each pending loop over `direct_derived` has left. One action per class entered, per parameter numbered, per loop ended. Bitsets are sets of naturals; a bitset's size is one past its largest member because bits are only ever set. |
| `SlotAllocation` | what slot allocation promises | The abstract specification: slots are given one at a time, without conflict, for good. |
| `Layout` | `augment_classes`, then `assign_slots` | Both modules by `INSTANCE` over shared `bases`, `directBases`, `derived`. |
| `Groups` | the group maps and strides of a method | Groups are their masks, in the order of `std::map` over `dynamic_bitset`. `CellNumber` is where the loop of a call arrives: group indices times strides. |
| `Dispatch` | `augment_methods`' check, `build_dispatch_tables`, `select_dominant_overriders`, `next`, the report | `BuildGroups` is the first half of the loop over methods; `FillCell` is one innermost turn of `build_dispatch_table`, its two selections and its counts included. `Round` and `ReturnRound` are turns of the outer loops of the two passes: what the inner loop does to the candidates that are still there. A read through a null pointer ends in the stage `crashed`. |
| `Calls` | `assign_slots`, `write_global_data`, `method::resolve*` | `data` is `dispatch_data`; a word is tagged with the member of the union that was written, and reading another gives an address far from any word. `WriteMethod` and `WriteClass` are turns of the two loops; each instantiation of the recursive templates is an action. |
| `TypeHash` | `fast_perfect_hash`, and `vptr_vector` over it | `Initialize` is the call; `Attempt`, `Insert` and `NextPass` are the heads and the body of the nested loops of the search, `StoreVptrs` the rest of `vptr_vector::initialize`. The random engine may yield any multiplier. `DynamicVptr` and `CheckedVptr` are what a lookup returns without and with runtime checks; a pointer is tagged with the call of `initialize` it was made by. |
| `Registrations` | what a `static_list` promises | The abstract specification: a sequence of nodes for each list; a call changes no list but its own. |
| `StaticList` | `detail/static_list.hpp` | Several lists over one set of nodes. `first`, `prev` and `next` are the pointers; `Walk` is what the iterators visit. The branches of `push_back` and `remove` are actions of their own. |
| `Registrars` | the static objects that register | Composes `StaticList`: one list of classes, one of methods, one of overriders in each method. `Load` fills a unit's memory with zeros, each constructor and destructor is an action, with the list operation it makes. |
| `Registry` | `initialize`, `finalize`, and what the program sees of them under each policy | One action per part of `initialize` that may throw or publish: `Compile`, `WriteGlobalData`, `VptrInitialize`, `Swap`. A v-table is named by the call that made it and its class. `Load` and `Unload` make and take away the variables of a library: the `next` of its overriders and the `static_vptr` of the classes nobody else registers (`OwnClasses`). |
| `InplaceVptr` | `inplace_vptr_base`, `inplace_vptr_derived` | Extends `Registry`. `life` is the constructor or destructor whose body runs in the one object. A constructor may throw at any class. |
| `VirtualPtr` | `virtual_ptr` to plain and smart pointers, `final_virtual_ptr` | Extends `InplaceVptr`. One action per constructor or assignment. `fresh` and `excused` are kept for the properties: the pointers made since `initialize` last succeeded, and those named in `NeverAnotherClass`. A library that leaves cuts off the indirect pointers that lead through its variables (`IsCutOff`). |
| `CompilerTheorems`, `AugmentClassesProofs`, `AssignSlotsProofs`, `DispatchProofs`, `CallsProofs`, `TypeHashProofs`, `RegistrarsProofs`, `PointerProofs` | | Lemmas and theorems. |
| `MC...` | | The small instances. |

What the modules leave out or simplify:

- tracing; several type ids for one class in `AugmentClasses` (`TypeHash` has them); type ids that
  `initialize` fetches itself (`deferred_static_rtti`), which changes when they are read but not
  which they are;
- in `AssignSlots` the slots of a method start as `NotAssigned` where the code has zeros, so that the
  properties can tell the two apart; the algorithm never reads them. A hierarchy may have more classes
  than the methods use;
- `TypeHash` leaves out the word with all bits set as a type id: the code marks empty buckets with it,
  and no object has that address. A search that fails ends the program there; a handler that throws
  is for `Registry`;
- `Registry` has one method with one virtual parameter and takes the tables as the choice of the
  one best candidate, which is what `Dispatch` shows of the code in trees; its `Derivations` are those
  `AugmentClasses` is proved to find in any order;
- `static_vptr<Class>` (`preamble.hpp:961`, `1055`) is a static member of a template, so each unit that
  names it has a definition and a loader that merges them keeps one. `Registry` takes it that a unit that names it registers
  the class, so that the variable exists while some loaded unit registers the class: a library that is
  the only one to do so takes the variable away with it and brings a null one when it is loaded again.
  Such a class's type ids, where they are addresses, may then be others than those the policy knows
  (`Load` may make its entries `Absent`). `dispatchData.units` is kept for the properties: the units that have stayed
  since the data was made. An object with embedded v-table pointers is destroyed before the code of
  its classes is unloaded;
- `Registrars` relies, as the code does, on two properties of C++: a `static_list` has a defaulted
  constructor, which leaves storage that was filled with zeros alone, so that a method's constructor
  keeps overriders that were added before it; and a library stays mapped while another that refers to
  its methods does. The guard of `override_impl` against a second construction is modelled, but no
  program of this kind meets it;
- in `VirtualPtr` conversions between static types do what those between equal types do, and a plain
  `virtual_ptr` made from a smart one is a copy. The program keeps the library's rules: no
  `virtual_ptr` is left to an object that is destroyed, a unique pointer owns its object alone;
- in `InplaceVptr` classes with a common base inherit from it virtually.

Details that differ from their comments and are in no run: `search_error::buckets` ("Number of buckets
used in the last attempt", `policies/fast_perfect_hash.hpp:58`) is computed after the loop has
incremented `M`, hence twice that number; the range that `initialize` returns is that of all the
attempts of the last pass, which is harmless, as `RegisteredAreFound` and `ChecksAreExact` show;
`bad_call::arity` ("The number of virtual arguments", `preamble.hpp:229-234`) is set to the number of
all arguments. `Dispatch` also states `NextIsDocumented`, after `core.hpp:2224-2226` ("the overrider
that would be called ... if Fn was not present"): there is one `next` per overrider, which the cells it
is picked for overwrite, so the formula is false outside trees, as TLC shows when it is added to
`MCDispatch.cfg`. `NextInTrees` is what holds.

## Runs

| Run | Question | Bounds |
|---|---|---|
| `assign_slots` | Are slots free of conflict, inside the v-tables, tight, given to every parameter, as `SlotAllocation` says? | All 219 orders on 4 classes, all 64 placements of 3 parameters. Four classes are enough for diamonds, joined trees and a lattice beside a tree; three parameters for a class, a base visited earlier and a base visited later. |
| `augment_classes` | What does the lattice owe to the order of registration? | All hierarchies of 4 classes, up to 2 `use_classes` lists of any length and order. Two lists are enough to register a class in fragments and before its bases. |
| `layout_any_order` | "Classes can be registered multiple times, in any order" | A class with two bases, one of which has a base, under every numbering; 2 parameters, 2 lists. Violated: TLC finds a shared slot. |
| `dispatch` | Is selection what the documentation says, with single inheritance; what holds in any lattice; does n2216 resolve; is `next` right; does the report count what was built? | 4 classes, a method of 2 parameters of the top class, all choices of 3 overriders; overriders the method does not accept; return types. Three overriders are needed for the order of elimination to matter. |
| `dispatch_selection` | "Remove the overriders that are dominated by other overriders in the set" | 5 classes in a fixed shape, 3 overriders. Violated. |
| `dispatch_n2216` | "Otherwise, pick one of the overriders" | As `dispatch`. Violated: the compiler reads through a null pointer. |
| `calls` | Does every call of a method whose virtual parameters are adjacent find its cell, in words nothing was written past? Are the entries inside the v-tables when the compiler does not know all the bases of a class? | A unary and a binary method, in either order, over a tree, a diamond and two joined trees, all classes and arguments; the last two also with a class that has lost an indirect base, and a chain in which that makes a tie of the sort add a direct base. |
| `calls_apart` | The same with a plain parameter between two virtual ones | Violated. |
| `type_hash` | Does every registered class get its own v-table pointer; do runtime checks report every other; does the search end? | Type ids of 6 bits, 4 multipliers, 2 attempts in each of the 4 passes, 2 calls of `initialize` with any of seven programs, `finalize` in between or not. Failed attempts, later passes, a search that fails in every pass, and a vector that shrinks or keeps stale entries all occur. |
| `registrars` | Is everything that is alive on its list, and nothing else? Is each list, seen through its iterators, an abstract list? | A program and two libraries: an overrider in a library for a method of the program, a library with a method and an overrider of its own, constructed in every order. Beside them every sequence of calls on a list of five nodes: a first, a last and adjacent inner ones. These five are alike, and in no other constant, so permuting them is a symmetry. |
| `pointers` | What do slots, v-table pointers, `next`, embedded pointers and `virtual_ptr`s lead to, whatever happens to the registry? | Eight registries: each vptr policy with direct and indirect pointers, plain, shared and unique object pointers. A program with two plugins: one makes calls ambiguous and adds a class with two bases that share a virtual base, the other lacks a base when alone. Both register that class and the program does not, so its static v-table pointer goes with the last of them. Two calls of `initialize`, the least for stale state; two pointers, the least for copies and moves; two objects. |
| `indirect_inplace` | "These indirect pointers remain valid after a call to `initialize`" | As `pointers`, with `inplace_vptr` and `indirect_vptr` together. Violated: the address of a temporary. |

The five violated properties are findings: each quotes a sentence of the documentation that the code
does not live up to. `CHECK_DEADLOCK FALSE` is given where the system may stop: after registration,
for a program that never calls `initialize`, after a search for hash factors that failed.

### What goes wrong in the five findings

1. *Order of registration.* `collect_transitive_bases` takes over the bases a base has **so far**.
   `Bottom : Middle, Side` registered before `Middle : Top` never learns of `Top`. The derived
   sets still come out right (`DerivedIsExact`), as do direct bases (`NoDirectBaseIsMissed`), but
   the slot of a parameter of `Side` is not reserved in `Top`, which may give it out again. With bases
   first all is well: `BasesFirstIsExact` and `SlotsAreNeverShared` are proved.
2. *Selection.* Elimination is pairwise and in order; the losers do not eliminate others.
3. *n2216.* The second pass lacks the `break` that the first one has.
4. *Calls.* `resolve_multi_next` counts plain parameters as virtual ones.
5. *Indirect pointers to embedded ones.* `acquire_vptr` returns what `boost_openmethod_vptr` returns,
   a value; `box_vptr` takes its address (`core.hpp:543`), which is that of a temporary.

Some properties have exceptions that are part of what they say. `PublishedTogether` and
`EmbeddedFollowsBody` are about the classes of units that have stayed since `initialize` succeeded: those of a
library that was unloaded and loaded again have null static v-table pointers until the next call.
`FreshPointersWork` and `IndirectPointersLast` exempt an indirect pointer that is cut off: the static
v-table pointer it leads through was a variable of a library that has been unloaded, back or not. `NeverAnotherClass` exempts a
`virtual_ptr` whose assignment has thrown (`core.hpp:1521`: new object, old v-table pointer) and the
shell that `cast() &&` leaves behind (null object, v-table pointer kept). `EmbeddedFollowsBody` exempts,
on the way down, a class that shares a virtual base with one that is constructed later (`IsOutlived`):
the destructor of the class derived from both hands the shared root to the last of its direct bases.

### Fairness

`AssignSlots` assumes weak fairness of `Step`: it is a sequential function that nothing can interrupt,
so a step that is possible is taken. `TypeHash`
assumes weak fairness of the steps inside `initialize` for the same reason; `SearchEnds` does not
depend on which multipliers are drawn. Nothing is assumed of the program's calls of `Initialize`.
`AugmentClasses` assumes nothing, for nothing is claimed of its end: its loops are over finite lists,
and the recursion of `collect_transitive_bases` and `calculate_transitive_derived` is one atomic step
(`Reach`). `Registry`, `VirtualPtr` and `Registrars` assume nothing: what a
program does next is its own affair.

## Proofs

Each of the proof modules has an inductive invariant, `Invariance: Spec => []Inv` or of like name, and the properties
that follow from it. All hold for every value of the constants that their assumptions allow.

**`AugmentClassesProofs`**, for any number of classes, any inheritance, any number and order of lists:
`BasesAreAlwaysSound`, `NoDirectBaseIsEverMissed`, `DerivedIsAlwaysExact`, `BasesFirstIsAlwaysExact` and
`TypeCorrectness`. `Inv` bounds the lattice from both sides. From above, nothing is collected that is
not a base. From below, `CollectInv`: the bases named in the fragments that the loop has been through
are there, so when it ends all direct bases are (`DirectAreCollected`); when bases come first, all that
is behind them too (`SeenAreComplete`, by `DirectCover`: a base that is not direct is behind one that
is). `SortInv` says of the loop over sorted bases that what it has covered is behind some base, hence
never a direct one, and, when bases come first, that what is behind a base it has passed is covered;
since a class has more bases than each of its own bases (`BasesHaveFewer`), the sort puts every class
before those behind it, so what is taken uncovered is direct. `ReachIsSound` and `ReachIsComplete`
replace the induction over paths: any edges between direct bases and inheritance reach the same.

**`AssignSlotsProofs`**, from `NumClasses \in Nat` and `NumParams \in Nat` alone: `SlotsAreNeverShared`,
`AllocationIsImplemented` (the refinement of `SlotAllocation`) and `TypeCorrectness`. The lemmas are for
any lattice that `augment_classes` may hand over, a class that has lost indirect bases included
(`LatticeInv`: `Above` has all of them); `Inv` adds that none is lost (`IsComplete`), which `NoSharedSlot`
alone depends on. `NoSharedSlot` is
not inductive: whether the next slot is free depends on what the walk has seen and on what the masks
hold. `Inv` adds:

- `KindInv`: a walk over a tree stays below a root that no multiple inheritance touches, and a walk over
  a lattice stays in the rest, so that the two algorithms never meet in a class;
- `ApartInv` and `UnseenInv`: the sets of classes that the pending loops still have to visit are
  disjoint in a tree, and no parameter of a class not yet seen has a slot;
- `PathInv`: the stack follows a path of the tree, so the classes with smaller slots are bases;
- `TreeSlots`: the slots on a path are below `next_slot`, and increase;
- `LatticeSlots`: a slot given in a class is in the used mask of all that derives from it and in the
  reserved masks of all the bases of those, which is where a conflicting parameter may come from.

The second part of the module goes on from there: `EveryParameterHasASlot`, `IndicesAreInsideVtables`
(`SlotsInsideVtables`) and `NoWordIsWasted` (`VtablesAreTight`), when the function has ended. They take that no class is
forgotten, which `WalkInv` says. In a tree every class is ahead of the walk, at work or settled
(`SettledInv`), and the slots below the next one are all in use (`DenseInv`). In a lattice a class may be
come to several times and is skipped but once, so the marks say what is done: every class below a
marked one is marked itself or still in a loop (`ReachInv`), and the used masks hold slots of
parameters only (`UsedInv`).

`CompilerTheorems` has the facts about inheritance all of them rest on: a class without multiple inheritance
below its root has one path to it (`TreePath`), two classes of a tree with a common derived class are
one below the other (`TreeMeet`), the subtrees of siblings are apart (`SiblingsAreApart`).

**`DispatchProofs`**, for any lattice, any number of virtual parameters and of overriders, with and without
n2216: `TablesHaveTypes`, `NobodyIsOutranked` (`NeverOutranked`), `TiesAreBroken` (`N2216Resolves`),
`TablesAreDocumented` (`DocumentedInTrees`), `NextIsTheRunnerUp` (`NextInTrees`) and `ReportTellsTheTruth`
(`ReportIsExact`). From `SizesAssumption` and `ProgramsAssumption`, which say what the constants are. The
proof has three layers:

- *Selection.* Each pass is a run of rounds, one per candidate (`SurvivorsAreLeft`,
  `ReturnSurvivorsAreLeft`). After round `k` none of the first `k` that are left beats, or is beaten
  by, another that is left, and a candidate that went was beaten by one that was there
  (`RoundFacts`, `SurvivorFacts`). Since being more specific is irreflexive and asymmetric a round
  never eliminates everybody. That is `SelectionIsRight`, for any lattice. It does not say that the
  one who beat a candidate is still there in the end, which is the second finding. With single
  inheritance the bases of a class are a path (`BasesAreAPath`), so overriders that apply to one call
  are comparable in every parameter, domination is transitive among them, and what is left is what
  nothing dominates (`SurvivorsAreUndominated`, `OutcomeIsDocumented`).
- *Numbering.* `GroupsAreMasks`: the order of the masks is a strict total order (`BeforeIsAnOrder`), so
  ranking them gives each group one index. `StridesAreProducts` and `CountIsUnique`: numbers made
  with strides are a mixed radix, one per combination of groups. `CountGoesOn`: the nested loops come
  to the combinations in the order of these numbers, so that appending to the table puts each cell
  where a call looks for it (`CellFacts`, `CallsHaveCells`).
- *Induction.* None of the properties is inductive: they speak of the end. `Inv` speaks of the cells
  filled so far: the one at hand is numbered one past the length of the table (`FillInv`), each
  holds the right outcome for its candidates (`ContentInv`), and the counts of the report are above
  zero exactly when one of them calls for it (`ReportInv`). `next` is overwritten by every cell its
  overrider is picked for; in a tree the candidates of all those selections are the same set,
  `Others`, whatever the cell (`RestIsOthers`), and that is what `ContentInv` says it was made from.

`CompilerTheorems` also has what the second layer needs. A fold of the community modules is defined with `CHOOSE`
over functions; the provers have no induction theorem for it, so `FoldExists` and `FoldRuns` show once,
with a least counterexample, that it is the end of a run, and everything else reasons about runs.

**`CallsProofs`**, for any numbers of classes, methods, parameters and overriders: `CallsGetTheirCell`
(`ContiguousCallsGetTheirCell`), `DataFits` (`FitsInDispatchData`), `EntriesStayInside`
(`EntriesInsideVtables`) and `TypesInvariant`. From `NumClassesAssumption` and `ProgramsAssumption`, which
says what a program is; that a method has a virtual parameter is a `static_assert`
(`core.hpp:2276`). `CallsInvariant` has a part for each stage:

- `SlotsInv` is the invariant of the allocation, with the lemmas of `AssignSlotsProofs` by `INSTANCE`. It
  covers lattices that have lost bases and take others for direct ones, so `EntriesInsideVtables` holds for them. `OwnEntry` is where a
  shared slot would matter: without one, the word of a class at a parameter's slot is the
  entry for that parameter and no other.
- `LayoutInv`: each method and each class that `write_global_data` is through with has its words
  in the vector where `tableAt` and `vptr` say, and what is appended afterwards leaves them. A `vptr` may be
  before the vector; only reads at slots of the v-table go inside (`VtablesInv`).
- `SizeInv`: the length of the vector is bounded by what `std::accumulate` has come to after as many
  methods and classes (`TableSums`, `VtableSums`).
- `CallInv` follows a call through the instantiations of the recursive templates: the position, the
  virtual arguments passed, and that `dispatch` is the table's address plus the groups so far times their
  strides (`Adds`). In a method that `IsRegular` the `n`th virtual parameter is `n - 1` past the first
  (`ContiguousPicks`), so the slot and the stride the code picks are its own; elsewhere they need not be,
  and `calls_apart` shows it.

**`TypeHashProofs`**, for any width of a word, any multipliers, number of attempts and programs:
`RegisteredAlwaysFound`, `ChecksAlwaysExact`, `AlwaysRoomForAll` and `TypeCorrectness`. `LoopInv` ties `M` and the size of the
table to the pass. `ScanInv` says what an attempt has put into the buckets so far: each type id it has
come to, in its own bucket, within the range. `ReadyInv` says what a finished search leaves: the
buckets, the range and the vector of the last call. `PowersAssumption` states the two laws of
powers of two the provers have no rule for; TLC evaluates it. `RoomAssumption` says there are fewer
classes than words, so that the initial `M` fits. `DoublingAssumption` is the law behind
`RoomForAll`: `2^m` exceeds `m`, so the first `M` is found among the numbers up to `Width`.

**`RegistrarsProofs`**, for any lists, nodes, objects and units: `RegistrarsHaveTypes`,
`LinksTellTheListed` (`LinkedIffListed`: the assertions of `push_back` ask a node's own links whether it
is on a list), `ListsAreTheUnits` (`RegisteredWhileAlive`) and `ListsKeepTheirPromise`, the
refinement of `Registrations`. The pointers say nothing by themselves about what an iterator visits;
`ListInv` says that each list is a chain: a sequence without repetitions, whose neighbours are linked
both ways, whose first node's `prev` is its last. A walk along `next` is that sequence, which is shown
with a least counterexample, for want of induction. `push_back` and `remove` make chains of chains, and
change no node of another list, since no node has two (`HomesInv`). `BuiltInv` and `UnitInv` say which
objects' constructors have run and which list each is on. `NodeAssumption`, `ObjectsAssumption` and
`UnitsAssumption` say what the constants are, no more.

**`PointerProofs`**, for any classes, units, lists, overriders, objects, pointers and registries, and any
number of calls: `PublicationIsConsistent`, `NextIsNeverStale`, `FreshnessSuffices`, `IndirectionLasts`,
`HalvesStayTogether` and `EmbeddedAlwaysFollowsBody`. `Inv` has three parts. `RegistryInv` says, stage by stage, which call of
`initialize` each thing belongs to: before anything is published all is as it was, for the classes of the units that have stayed
(`StandingInv`, which `OwnClassesAreOwn` keeps: what a library takes away is no class of another unit),
while it is published what has been done is for the new data (`PublishingInv`), nothing is ever kept
under a class that is another's (`EntriesInv`), and `next` is right for all cells or for none
(`NextInv`, by `NextIsTheSameEverywhere`: the cells an overrider is picked for agree on what comes
next). `EmbeddedInv`, `PlacesInv` and `LifeInv` say the same of the pointers in objects, and `PtrInv` of
each `virtual_ptr`. The address of a static v-table pointer that a good
`virtual_ptr` holds is that of a variable which exists and is right (`HasStaticVptr`, `StaticVptrStays`). `OwnersInv`, for `EmbeddedFollowsBody`, says whose v-table a root leads to at any
moment of a construction or destruction: that of the last class that shares the root, up to the one
whose body runs. It takes `OrderAssumption`: classes are numbered in the order in which C++ constructs
them, and have the bases of their bases. `TypeCorrectness`, of the three modules together, assumes of
inheritance that a root of a class is a root of one of its direct bases.

Every invariant and action property that a passing run checks is the statement of a theorem. Only
model-checked: liveness (`AllAllocated`, `SearchEnds`), which is out of the provers' reach.

## Not modelled

- `deferred_static_rtti`: `initialize` has each registrar fetch its type ids before it reads them, into
  the same place every time.
- RTTI policies, error handlers and output: adapters and formatting. `default_error_handler` keeps the
  handler that was set; all that matters of it here is whether it throws, because the library ends the
  program when it returns. Where an error stops the compiler or a lookup, the modules have a stage or a
  disjunct for it.
- The check for two definitions of `default_registry` at the start of `initialize` (`odr_check`), and
  platforms where a program and its libraries have globals of their own: the documentation
  (`shared_libraries.adoc`) requires one registry, and so do the modules.
- Registry composition, macros, the traits of smart pointers: resolved at compile time.

Much of the source has no definition of its own here for that reason: most of `core.hpp` and
`preamble.hpp` is documentation in comments, declarations and compile-time selection between
overloads, `initialize.hpp` is a good part trace output, and the rest of the repository is examples,
tests and build files.

## Plan

1. `Layout` with the registrations of `Registrars`, over more hierarchies.
2. `deferred_static_rtti` with libraries that come and go.
