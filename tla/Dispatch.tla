------------------------------ MODULE Dispatch ------------------------------
(****************************************************************************)
(* registry::compiler::build_dispatch_tables: from the overriders of a      *)
(* method to its dispatch table, and to the `next' overrider of each.       *)
(*                                                                          *)
(* The classes that can be passed in one dimension are put in groups that   *)
(* the same overriders apply to.  The table has a cell for each combination *)
(* of groups; each cell holds what select_dominant_overriders makes of the  *)
(* overriders that apply to all the groups.                                 *)
(****************************************************************************)
EXTENDS Lattice, Groups, FiniteSetsExt

CONSTANTS
    Arity,          \* number of virtual parameters
    NumOverriders,
    Programs        \* the programs considered

Dim == 1 .. Arity
Overrider == 1 .. NumOverriders     \* in the order of registration

\* What is not a class: no covariant return type.
NoClass == 0

\* What a cell or a `next' can hold beside an overrider: the two synthetic
\* overriders, named by their spec_index, and the nullptr of a static variable.
NotImplemented == NumOverriders + 1
Ambiguous == NumOverriders + 2
Null == 0

\* What the compiler is given: a lattice, a method and its overriders, their
\* covariant return types if the method returns a registered class, and
\* whether initialize() was passed the n2216 option.
Program ==
    [bases : Inheritances,
     method : [Dim -> Class],
     overriders : [Overrider -> [Dim -> Class]],
     returns : [Overrider -> Class] \cup [Overrider -> {NoClass}],
     n2216 : BOOLEAN]

ASSUME SizesAssumption == Arity \in Nat \ {0} /\ NumOverriders \in Nat
ASSUME ProgramsAssumption == \A p \in Programs : p \in Program

VARIABLES
    program,
    derived,        \* class_::transitive_derived
    stage,          \* "check", "group", "fill", then how initialize() ended
    groups,         \* the keys of the group_map of each dimension, in order
    strides,        \* method::strides, with the implicit one of dimension 1
    at,             \* where the nested loops over the groups are
    table,          \* method::dispatch_table
    next,           \* overrider::next
    report          \* method::report

vars == <<program, derived, stage, groups, strides, at, table, next, report>>

overriders == program.overriders
-----------------------------------------------------------------------------
Init ==
    /\ program \in Programs
    /\ derived = DerivedOf(program.bases)
    /\ stage = "check"
    /\ groups = [d \in Dim |-> <<>>]
    /\ strides = [d \in Dim |-> 0]
    /\ at = [d \in Dim |-> 1]
    /\ table = <<>>
    /\ next = [i \in Overrider |-> Null]
    /\ report = [cells |-> 0, notImplemented |-> 0, ambiguous |-> 0]

\* augment_methods: every overrider must take classes the method accepts.
CheckOverriders ==
    /\ stage = "check"
    /\ stage' = IF \A i \in Overrider, d \in Dim :
                      overriders[i][d] \in derived[program.method[d]]
                THEN "group" ELSE "missing_base"
    /\ UNCHANGED <<program, derived, groups, strides, at, table, next, report>>

-----------------------------------------------------------------------------
(* Groups *)

Column(d) == [i \in Overrider |-> overriders[i][d]]

GroupsIn(d) == GroupsOf(derived, program.method[d], Column(d))

BuildGroups ==
    /\ stage = "group"
    /\ stage' = "fill"
    /\ groups' = [d \in Dim |-> GroupsIn(d)]
    /\ strides' = LET sizes == [d \in Dim |-> Len(GroupsIn(d))]
                  IN  [d \in Dim |-> Stride(sizes, d)]
    /\ UNCHANGED <<program, derived, at, table, next, report>>

-----------------------------------------------------------------------------
(* select_dominant_overriders *)

IsProperlyDerived(c, b) == c # b /\ c \in derived[b]

\* The parameters that do not compare have no say.
IsMoreSpecific(i, j) ==
    /\ \E d \in Dim : IsProperlyDerived(overriders[i][d], overriders[j][d])
    /\ \A d \in Dim : ~ IsProperlyDerived(overriders[j][d], overriders[i][d])

\* The loop over i makes one round for each candidate that is still there, over
\* those after it that are.
InOrder == [i \in Overrider |-> i]
After(i, alive) == { j \in alive : i < j }

\* The candidates met before i is eliminated, the one that does it included.
UpTo(winners, after) == { j \in after : \A w \in winners : j <= w }

\* Mutant: the winner goes.
RoundForLosers(alive, i) ==
    LET after == After(i, alive)
        winners == { j \in after : IsMoreSpecific(i, j) }
        losers == { j \in UpTo(winners, after) : IsMoreSpecific(j, i) }
    IN  IF i \notin alive THEN alive
        ELSE (alive \ losers) \ (IF winners = {} THEN {} ELSE {i})

\* One turn of the outer loop of the first pass.  A candidate that has lost
\* takes no further part: it does not eliminate others.
Round(alive, i) ==
    LET after == After(i, alive)
        winners == { j \in after : IsMoreSpecific(j, i) }
        losers == { j \in UpTo(winners, after) : IsMoreSpecific(i, j) }
    IN  IF i \notin alive THEN alive
        ELSE (alive \ losers) \ (IF winners = {} THEN {} ELSE {i})

Survivors(candidates) == FoldLeft(Round, candidates, InOrder)

\* The return type of candidate j is that of i, or derived from it.
Returns(j, i) == program.returns[j] \in derived[program.returns[i]]

\* Mutant: the less specific return type wins.
ReturnRoundForLast(s, i) ==
    LET after == After(i, s.alive)
        winners == { j \in after : Returns(i, j) }
        losers == { j \in UpTo(winners, after) \ winners : Returns(j, i) }
    IN  IF i \notin s.alive THEN s
        ELSE [alive |-> (s.alive \ losers) \ (IF winners = {} THEN {} ELSE {i}),
              crashed |-> s.crashed \/ UpTo(winners, after) # after]

\* One turn of the outer loop of the n2216 pass, which compares the covariant
\* return types.  It has no break: when candidate i has lost, the next one it
\* is compared with makes it read through a nullptr.
ReturnRound(s, i) ==
    LET after == After(i, s.alive)
        winners == { j \in after : Returns(j, i) }
        losers == { j \in UpTo(winners, after) \ winners : Returns(i, j) }
    IN  IF i \notin s.alive THEN s
        ELSE [alive |-> (s.alive \ losers) \ (IF winners = {} THEN {} ELSE {i}),
              crashed |-> s.crashed \/ UpTo(winners, after) # after]

ReturnSurvivors(candidates) ==
    FoldLeft(ReturnRound, [alive |-> candidates, crashed |-> FALSE], InOrder)

\* The candidates that are left, the one picked among them - the last - and
\* whether the process is dead.
SelectDominant(candidates) ==
    LET first == Survivors(candidates)
        second == ReturnSurvivors(first)
        byReturn == /\ program.n2216 /\ Cardinality(first) > 1
                    /\ program.returns[Max(first)] # NoClass
        left == IF byReturn THEN second.alive ELSE first
    IN  [left |-> left,
         pick |-> IF left = {} THEN 0 ELSE Max(left),
         crashed |-> byReturn /\ second.crashed]

\* Mutant: nothing is done about having no candidate.
OutcomeOfSome(selected) ==
    IF Cardinality(selected.left) > 1 /\ ~ program.n2216 THEN Ambiguous
    ELSE selected.pick

\* What goes in a cell, or in `next', given the result of the selection.
Outcome(selected) ==
    CASE selected.left = {} -> NotImplemented
      [] Cardinality(selected.left) > 1 /\ ~ program.n2216 -> Ambiguous
      [] OTHER -> selected.pick

-----------------------------------------------------------------------------
(* The loops of build_dispatch_table: over the last dimension outside, over *)
(* the first inside.                                                        *)

LastCell == \A d \in Dim : at[d] = Len(groups[d])

Advance ==
    IF LastCell
    THEN stage' = "done" /\ at' = at
    ELSE LET d == Min({ e \in Dim : at[e] < Len(groups[e]) })
         IN  /\ stage' = stage
             /\ at' = [e \in Dim |-> IF e < d THEN 1
                                     ELSE IF e = d THEN at[e] + 1 ELSE at[e]]

\* The overriders that apply to the current cell.
Applicable == { i \in Overrider : \A d \in Dim : i \in groups[d][at[d]] }

\* Mutant: the candidates of the first selection stay.
AllAgain(selected) == Applicable

\* The candidates of the second selection, the one for `next'.
Rest(selected) == Applicable \ selected.left

AllCells == Stride([d \in Dim |-> Len(groups[d])], Arity + 1)

\* Mutant: what n2216 picks among equals is not counted.
CountedUnlessPicked(selected) ==
    [cells |-> IF LastCell /\ Arity > 1 THEN AllCells ELSE 0,
     notImplemented |->
        report.notImplemented + (IF selected.left = {} THEN 1 ELSE 0),
     ambiguous |->
        report.ambiguous + (IF Outcome(selected) = Ambiguous THEN 1 ELSE 0)]

\* The report after a selection for a cell; selections for `next' do not count.
Counted(selected) ==
    [cells |-> IF LastCell /\ Arity > 1 THEN AllCells ELSE 0,
     notImplemented |->
        report.notImplemented + (IF selected.left = {} THEN 1 ELSE 0),
     ambiguous |->
        report.ambiguous + (IF Cardinality(selected.left) > 1 THEN 1 ELSE 0)]

\* Fills the cell at hand with the overrider picked, whose `next' is the result
\* of a second selection, without the overriders the first one left.  The
\* process dies when either selection reads the nullptr.
FillCell ==
    /\ stage = "fill"
    /\ LET selected == SelectDominant(Applicable)
           target == Outcome(selected)
           rest == SelectDominant(Rest(selected))
           picked == target \in Overrider
       IN  IF selected.crashed \/ (picked /\ rest.crashed)
           THEN /\ stage' = "crashed"
                /\ UNCHANGED <<at, table, next, report>>
           ELSE /\ table' = Append(table, target)
                /\ next' = IF picked THEN [next EXCEPT ![target] = Outcome(rest)]
                                     ELSE next
                /\ report' = Counted(selected)
                /\ Advance
    /\ UNCHANGED <<program, derived, groups, strides>>

Finished ==
    /\ stage \in {"done", "missing_base", "crashed"}
    /\ UNCHANGED vars

Next == CheckOverriders \/ BuildGroups \/ FillCell \/ Finished

Spec == Init /\ [][Next]_vars

-----------------------------------------------------------------------------
(* What the documentation of class method says of a call. *)

\* The tuples of classes that can be passed to the method.
Calls == { args \in [Dim -> Class] :
               \A d \in Dim : args[d] \in derived[program.method[d]] }

\* "An overrider is applicable if it can be called with the arguments passed
\* to the method."
ApplicableTo(args) ==
    { i \in Overrider : \A d \in Dim : args[d] \in derived[overriders[i][d]] }

\* "Overrider A dominates overrider B if at least one of its virtual formal
\* parameters is more specialized than B's, and if none of B's virtual
\* parameters is more specialized than A's."
Dominates(a, b) ==
    LET Specializes(x, y) == { d \in Dim :
            overriders[x][d] \in derived[overriders[y][d]] \ {overriders[y][d]} }
    IN  Specializes(a, b) # {} /\ Specializes(b, a) = {}

\* "Remove the overriders that are dominated by other overriders in the set."
Undominated(S) == { b \in S : \A a \in S : ~ Dominates(a, b) }

Documented(S) ==
    CASE S = {} -> NotImplemented
      [] \E i \in S : Undominated(S) = {i} -> CHOOSE i \in S : Undominated(S) = {i}
      [] OTHER -> Ambiguous

\* The group an argument of class c is in.
GroupOf(d, c) ==
    CHOOSE k \in DOMAIN groups[d] : groups[d][k] = Mask(derived, Column(d), c)

\* The cell a call finds: a group index times a stride for each argument.
CellOf(args) == CellNumber(strides, [d \in Dim |-> GroupOf(d, args[d])])

Called(args) == table[CellOf(args)]

SingleInheritance == \A c \in Class : Cardinality(DirectOf(program.bases)[c]) <= 1

-----------------------------------------------------------------------------
(* Properties *)

Target == Overrider \cup {NotImplemented, Ambiguous}

\* Each variable has the type its C++ counterpart has, and the table never
\* has more cells than there are combinations of groups.
TypeOK ==
    /\ program \in Programs
    /\ derived \in [Class -> SUBSET Class]
    /\ stage \in {"check", "group", "fill", "done", "missing_base", "crashed"}
    /\ groups \in [Dim -> Seq(SUBSET Overrider)]
    /\ strides \in [Dim -> Nat]
    /\ at \in [Dim -> Nat]
    /\ table \in Seq(Target)
    /\ Len(table) <= AllCells
    /\ next \in [Overrider -> Target \cup {Null}]
    /\ report \in [cells : Nat, notImplemented : Nat, ambiguous : Nat]

\* With single inheritance the table does what the documentation says: for
\* every tuple of arguments, grouping the classes, numbering the groups,
\* filling the cells in that order and looking them up through the strides
\* gives the one overrider that dominates the others, and reports calls that
\* are not implemented or ambiguous, exactly those.
DocumentedInTrees ==
    stage = "done" /\ SingleInheritance /\ ~ program.n2216 =>
        \A args \in Calls : Called(args) = Documented(ApplicableTo(args))

\* In any lattice an overrider that is called can take the arguments, and no
\* other applicable overrider is a better choice: eliminating candidates one
\* by one never loses an overrider that nothing dominates.
NeverOutranked ==
    stage = "done" =>
        \A args \in Calls :
            LET S == ApplicableTo(args)
                i == Called(args)
            IN  /\ i = NotImplemented <=> S = {}
                /\ i \in Overrider =>
                      /\ i \in S
                      /\ program.n2216 \/ Undominated(S) \subseteq {i}

\* With n2216 no call is ambiguous, and the overrider picked is not one that
\* returns a less specific type than another candidate.
N2216Resolves ==
    stage = "done" /\ program.n2216 =>
        \A args \in Calls :
            LET best == Undominated(ApplicableTo(args))
                i == Called(args)
                returns == program.returns
            IN  /\ i # Ambiguous
                /\ i \in best /\ returns[i] # NoClass =>
                      \A j \in best : ~ IsProperlyDerived(returns[j], returns[i])

\* With single inheritance `next' is the overrider that would be called, for
\* the same arguments, if this one were not there - whichever of the cells it
\* was picked for came last.
NextInTrees ==
    stage = "done" /\ SingleInheritance /\ ~ program.n2216 =>
        \A args \in Calls :
            LET i == Called(args)
            IN  i \in Overrider =>
                    next[i] = Documented(ApplicableTo(args) \ {i})

\* A program that looks at the report and finds no problem has none, and one
\* that finds a problem has it: the report counts missing overriders exactly
\* when some arguments have none and, with single inheritance, ambiguities
\* exactly when some arguments have several best overriders.  With n2216 a
\* clean report means that every overrider picked returns a class derived from
\* what its rivals return: the pick was not arbitrary.
ReportIsExact ==
    stage = "done" =>
        /\ report.notImplemented > 0 <=> \E args \in Calls : ApplicableTo(args) = {}
        /\ SingleInheritance /\ ~ program.n2216 =>
              (report.ambiguous > 0
                <=> \E args \in Calls : Documented(ApplicableTo(args)) = Ambiguous)
        /\ SingleInheritance /\ program.n2216 /\ report.ambiguous = 0 =>
              \A args \in Calls :
                  LET best == Undominated(ApplicableTo(args))
                      i == Called(args)
                  IN  \A j \in best \ {i} :
                        /\ program.returns[j] # NoClass
                        /\ program.returns[i] \in derived[program.returns[j]]

\* NextInTrees in every lattice: "the overrider that would be called for the same
\* tuple of virtual arguments if Fn was not present".
NextIsDocumented ==
    stage = "done" /\ ~ program.n2216 =>
        \A args \in Calls :
            LET i == Called(args)
            IN  i \in Overrider =>
                    next[i] = Documented(ApplicableTo(args) \ {i})

\* In every lattice: if one overrider only is left when the dominated ones are
\* removed from the set of applicable ones, "call it".
SelectionIsDocumented ==
    stage = "done" /\ ~ program.n2216 =>
        \A args \in Calls : Called(args) = Documented(ApplicableTo(args))

\* "Otherwise, pick one of the overriders": with n2216 there is always a pick.
N2216Picks == stage # "crashed"
=============================================================================
