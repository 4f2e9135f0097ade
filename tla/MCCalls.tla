------------------------------- MODULE MCCalls ------------------------------
(****************************************************************************)
(* Calls of two methods in small programs: one method of one virtual        *)
(* parameter, one of two, over a tree, a diamond and two joined trees, each *)
(* as registered with bases first, and the last two as registered so that   *)
(* class 4 never learns of class 1.  The fifth is a chain whose class 3     *)
(* never learns of class 1, so that 2 and 3 have as many bases, and a tie   *)
(* of the sort makes both of them direct bases of 4.                        *)
(****************************************************************************)
EXTENDS Calls

\* 1 <- 2 <- 3, 1 <- 4
Tree == <<{}, {1}, {1, 2}, {1}>>

\* 4 derives from 2 and 3, which derive from 1
Diamond == <<{}, {1}, {1}, {1, 2, 3}>>

\* 4 derives from 2 and 3, which have no common base; 2 derives from 1
Joined == <<{}, {1}, {}, {1, 2, 3}>>

Shapes == {Tree, Diamond, Joined}

\* 1 <- 2 <- 3 <- 4
Chain == <<{}, {1}, {1, 2}, {1, 2, 3}>>

Complete(shape) ==
    [bases |-> shape, collected |-> shape, direct |-> DirectOf(shape)]
Fragment(shape) == [Complete(shape) EXCEPT !.collected[4] = {2, 3}]
Tied == [Complete(Chain) EXCEPT !.collected[3] = {2}, !.direct[4] = {2, 3}]

\* The overriders of a parameter of class c: for c and for a derived class.
Overridden(lattice, c) == { <<c, d>> : d \in DerivedOf(lattice)[c] }

\* One method of each kind, in either order of registration.
MethodsOf(lattice, Layouts) ==
    LET Unary(c) == { [params |-> <<NoClass, c>>, overriders |-> << <<o[1]>>, <<o[2]>> >>] :
                        o \in Overridden(lattice, c) }
        Binary(c, d, layout) ==
            { [params |-> layout[<<c, d>>],
               overriders |-> << <<o[1], p[1]>>, <<o[2], p[2]>> >>] :
                  o \in Overridden(lattice, c), p \in Overridden(lattice, d) }
        Both == UNION { Unary(c) \X Binary(d, e, l) : c \in Class, d \in Class, e \in Class, l \in Layouts }
    IN  { <<b[1], b[2]>> : b \in Both } \cup { <<b[2], b[1]>> : b \in Both }

Virtuals == (1 .. 4) \X (1 .. 4)
Adjacent == [v \in Virtuals |-> <<NoClass, v[1], v[2], NoClass>>]
Apart == [v \in Virtuals |-> <<v[1], NoClass, v[2]>>]

ProgramsWith(Lattices, Layouts) ==
    UNION { [bases : {l.bases}, collected : {l.collected}, direct : {l.direct},
             methods : MethodsOf(l.bases, Layouts)] : l \in Lattices }

AdjacentPrograms ==
    ProgramsWith({ Complete(s) : s \in Shapes }
                    \cup { Fragment(s) : s \in {Diamond, Joined} } \cup {Tied}, {Adjacent})
ApartPrograms == ProgramsWith({ Complete(s) : s \in Shapes }, {Apart})
=============================================================================
