----------------------------- MODULE MCDispatch -----------------------------
(****************************************************************************)
(* Dispatch tables of small programs: a method of two virtual parameters of *)
(* the top class of a hierarchy, with all choices of overriders.            *)
(****************************************************************************)
EXTENDS Dispatch

Top == 1

\* The hierarchies with a top class, in every arrangement of the other classes.
\* No loop here depends on the order of the classes: they are numbered so that
\* bases come first.
Rooted == { b \in Inheritances :
                \A c \in Class \ {Top} : Top \in b[c] /\ b[c] \subseteq 1 .. (c - 1) }

NoReturns == [i \in Overrider |-> NoClass]

\* Every choice of overriders for a method of two parameters of the top class.
Plain ==
    [bases : Rooted, method : {[d \in Dim |-> Top]},
     overriders : [Overrider -> [Dim -> Class]],
     returns : {NoReturns}, n2216 : {FALSE}]

\* A chain of three classes and a fourth beside it.
Fork == [c \in Class |-> IF c = 3 THEN {1, 2} ELSE {Top} \ {c}]

\* A method not of the top class, some of whose overriders are not acceptable.
Narrow ==
    [bases : {Fork}, method : {<<2, 1>>}, overriders : [Overrider -> [Dim -> Class]],
     returns : {NoReturns}, n2216 : {FALSE}]

\* Overriders that call for disambiguation, with and without return types that
\* help.
Ambiguities ==
    [bases : {Fork}, method : {[d \in Dim |-> Top]},
     overriders : [Overrider -> {<<1, 2>>, <<2, 1>>, <<2, 2>>, <<1, 3>>, <<3, 1>>}],
     returns : [Overrider -> {1, 2, 4}] \cup {NoReturns}, n2216 : {TRUE}]

AllPrograms == Plain \cup Narrow \cup Ambiguities

\* Five classes: 3 derives from 2, 5 from both 3 and 4.
Joined == [c \in Class |-> CASE c = 1 -> {} [] c = 3 -> {1, 2} [] c = 5 -> 1 .. 4
                               [] OTHER -> {1}]

\* Overriders each of which compares with the next one in one parameter only.
Crossed ==
    [bases : {Joined}, method : {[d \in Dim |-> Top]},
     overriders : [Overrider -> {<<3, 4>>, <<2, 3>>, <<4, 2>>}],
     returns : {NoReturns}, n2216 : {FALSE}]
=============================================================================
