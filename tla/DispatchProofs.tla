--------------------------- MODULE DispatchProofs ---------------------------
(****************************************************************************)
(* A dispatch table is right for every lattice, and any number of virtual   *)
(* parameters and of overriders.                                            *)
(*                                                                          *)
(* The two passes of select_dominant_overriders are runs of Round and of    *)
(* ReturnRound.  What they leave is never beaten by another candidate that  *)
(* is left, and a candidate goes only for a better one: that is enough for  *)
(* SelectionIsRight, in any lattice.  With single inheritance overriders    *)
(* that apply to the same arguments are ordered in each dimension, and what *)
(* is left is what nothing dominates: OutcomeIsDocumented.                  *)
(*                                                                          *)
(* The cells are numbered in the order in which the loops come to them:     *)
(* CellFacts.  So the invariant speaks of the cells filled so far, what is  *)
(* in them, the `next' of what is in them, and what the report counted.     *)
(****************************************************************************)
EXTENDS Dispatch, CompilerTheorems

-----------------------------------------------------------------------------
(* The first pass of select_dominant_overriders *)

\* One turn of the outer loop after the other.
IsRounds(a, candidates) ==
    /\ a \in [0 .. NumOverriders -> SUBSET Overrider]
    /\ a[0] = candidates
    /\ \A k \in 0 .. (NumOverriders - 1) : a[k + 1] = Round(a[k], k + 1)

LEMMA RoundType ==
    ASSUME NEW alive \in SUBSET Overrider, NEW i \in Overrider
    PROVE  Round(alive, i) \subseteq alive
BY DEF Round

\* The fold of Survivors is a run of rounds.
LEMMA SurvivorsAreLeft ==
    ASSUME NEW candidates \in SUBSET Overrider
    PROVE  \E a : IsRounds(a, candidates) /\ Survivors(candidates) = a[NumOverriders]
<1> DEFINE V == SUBSET Overrider
           n == NumOverriders
           IsFold(f) == f = [S \in SUBSET (DOMAIN InOrder) |->
                IF S = {} THEN candidates
                ELSE Round(f[S \ {Max(S)}], InOrder[Max(S)])]
           h == CHOOSE f : IsFold(f)
           G == [p \in (1 .. n) \X V |-> Round(p[2], p[1])]
<1>1. Survivors(candidates) = h[DOMAIN InOrder]
    BY Zenon DEF Survivors, FoldLeft, MapThenFoldSet
<1>2. /\ DOMAIN InOrder = 1 .. n /\ Overrider = 1 .. n /\ n \in Nat
      /\ \A i \in 1 .. n : InOrder[i] = i
    BY SizesAssumption DEF InOrder, Overrider
<1>3. /\ G \in [(1 .. n) \X V -> V]
      /\ \A i \in 1 .. n, x \in V : G[<<i, x>>] = Round(x, i)
    <2>1. \A i \in 1 .. n, x \in V : Round(x, i) \in V
        BY <1>2, RoundType
    <2> HIDE DEF V
    <2> QED
        BY <2>1
<1>4. candidates \in V
    OBVIOUS
<1> HIDE DEF G, V, n
<1>5. PICK f \in [SUBSET (1 .. n) -> V] : IsFoldOf(f, n, candidates, G)
    BY <1>2, <1>3, <1>4, FoldExists
<1>6. IsFold(f)
    <2>1. ASSUME NEW S \in SUBSET (1 .. n), S # {}
          PROVE  f[S] = Round(f[S \ {Max(S)}], InOrder[Max(S)])
        <3>1. Max(S) \in 1 .. n
            BY <1>2, <2>1, MaxOfNumbers
        <3>2. S \ {Max(S)} \in SUBSET (1 .. n) /\ f[S \ {Max(S)}] \in V
            OBVIOUS
        <3>3. f[S] = G[<<Max(S), f[S \ {Max(S)}]>>]
            BY <1>5, <2>1 DEF IsFoldOf
        <3> QED
            BY <1>2, <1>3, <3>1, <3>2, <3>3
    <2>2. \A S \in SUBSET (1 .. n) :
              f[S] = IF S = {} THEN candidates
                     ELSE Round(f[S \ {Max(S)}], InOrder[Max(S)])
        BY <1>5, <2>1 DEF IsFoldOf
    <2> QED
        BY <1>2, <2>2
<1>7. IsFold(h)
    <2> HIDE DEF IsFold
    <2> QED
        BY <1>6
<1>8. FoldsWithin(h, n, candidates, G, V)
    <2>1. \A S \in SUBSET (1 .. n) :
              h[S] = IF S = {} THEN candidates
                     ELSE Round(h[S \ {Max(S)}], InOrder[Max(S)])
        BY <1>2, <1>7
    <2> HIDE DEF h
    <2>2. ASSUME NEW S \in SUBSET (1 .. n), S # {}, h[S \ {Max(S)}] \in V
          PROVE  h[S] = G[<<Max(S), h[S \ {Max(S)}]>>]
        <3>1. Max(S) \in 1 .. n
            BY <1>2, <2>2, MaxOfNumbers
        <3>2. h[S] = Round(h[S \ {Max(S)}], Max(S))
            BY <1>2, <2>1, <2>2, <3>1
        <3> QED
            BY <1>3, <2>2, <3>1, <3>2
    <2> QED
        BY <2>1, <2>2 DEF FoldsWithin
<1> HIDE DEF h
<1>9. EndsRun(h, n, candidates, G, V)
    BY <1>2, <1>3, <1>4, <1>8, FoldRuns
<1>10. PICK a \in [0 .. n -> V] : IsRun(a, n, candidates, G) /\ h[1 .. n] = a[n]
    BY <1>9 DEF EndsRun
<1>11. \A k \in 0 .. (n - 1) : a[k + 1] = Round(a[k], k + 1)
    <2> TAKE k \in 0 .. (n - 1)
    <2>1. k + 1 \in 1 .. n /\ k \in 0 .. n
        BY <1>2
    <2>2. a[k] \in V /\ a[k + 1] = G[<<k + 1, a[k]>>]
        BY <1>10, <2>1 DEF IsRun
    <2> QED
        BY <1>3, <2>1, <2>2
<1>12. IsRounds(a, candidates)
    BY <1>10, <1>11 DEF IsRounds, IsRun, V, n
<1> QED
    BY <1>1, <1>2, <1>10, <1>12 DEF n

-----------------------------------------------------------------------------
(* The second pass *)

State == [alive : SUBSET Overrider, crashed : BOOLEAN]

IsReturnRounds(a, candidates) ==
    /\ a \in [0 .. NumOverriders -> State]
    /\ a[0] = [alive |-> candidates, crashed |-> FALSE]
    /\ \A k \in 0 .. (NumOverriders - 1) : a[k + 1] = ReturnRound(a[k], k + 1)

LEMMA ReturnRoundType ==
    ASSUME NEW s \in State, NEW i \in Overrider
    PROVE  ReturnRound(s, i) \in State
BY DEF ReturnRound, State

\* So is the fold of the second pass.
LEMMA ReturnSurvivorsAreLeft ==
    ASSUME NEW candidates \in SUBSET Overrider
    PROVE  \E a : IsReturnRounds(a, candidates) /\ ReturnSurvivors(candidates) = a[NumOverriders]
<1> DEFINE V == State
           start == [alive |-> candidates, crashed |-> FALSE]
           n == NumOverriders
           IsFold(f) == f = [S \in SUBSET (DOMAIN InOrder) |->
                IF S = {} THEN start
                ELSE ReturnRound(f[S \ {Max(S)}], InOrder[Max(S)])]
           h == CHOOSE f : IsFold(f)
           G == [p \in (1 .. n) \X V |-> ReturnRound(p[2], p[1])]
<1>1. ReturnSurvivors(candidates) = h[DOMAIN InOrder]
    BY Zenon DEF ReturnSurvivors, FoldLeft, MapThenFoldSet
<1>2. /\ DOMAIN InOrder = 1 .. n /\ Overrider = 1 .. n /\ n \in Nat
      /\ \A i \in 1 .. n : InOrder[i] = i
    BY SizesAssumption DEF InOrder, Overrider
<1>3. /\ G \in [(1 .. n) \X V -> V]
      /\ \A i \in 1 .. n, x \in V : G[<<i, x>>] = ReturnRound(x, i)
    <2>1. \A i \in 1 .. n, x \in V : ReturnRound(x, i) \in V
        BY <1>2, ReturnRoundType
    <2> HIDE DEF V
    <2> QED
        BY <2>1
<1>4. start \in V
    BY DEF State
<1> HIDE DEF G, V, n, start
<1>5. PICK f \in [SUBSET (1 .. n) -> V] : IsFoldOf(f, n, start, G)
    BY <1>2, <1>3, <1>4, FoldExists
<1>6. IsFold(f)
    <2>1. ASSUME NEW S \in SUBSET (1 .. n), S # {}
          PROVE  f[S] = ReturnRound(f[S \ {Max(S)}], InOrder[Max(S)])
        <3>1. Max(S) \in 1 .. n
            BY <1>2, <2>1, MaxOfNumbers
        <3>2. S \ {Max(S)} \in SUBSET (1 .. n) /\ f[S \ {Max(S)}] \in V
            OBVIOUS
        <3>3. f[S] = G[<<Max(S), f[S \ {Max(S)}]>>]
            BY <1>5, <2>1 DEF IsFoldOf
        <3> QED
            BY <1>2, <1>3, <3>1, <3>2, <3>3
    <2>2. \A S \in SUBSET (1 .. n) :
              f[S] = IF S = {} THEN start
                     ELSE ReturnRound(f[S \ {Max(S)}], InOrder[Max(S)])
        BY <1>5, <2>1 DEF IsFoldOf
    <2> QED
        BY <1>2, <2>2
<1>7. IsFold(h)
    <2> HIDE DEF IsFold
    <2> QED
        BY <1>6
<1>8. FoldsWithin(h, n, start, G, V)
    <2>1. \A S \in SUBSET (1 .. n) :
              h[S] = IF S = {} THEN start
                     ELSE ReturnRound(h[S \ {Max(S)}], InOrder[Max(S)])
        BY <1>2, <1>7
    <2> HIDE DEF h
    <2>2. ASSUME NEW S \in SUBSET (1 .. n), S # {}, h[S \ {Max(S)}] \in V
          PROVE  h[S] = G[<<Max(S), h[S \ {Max(S)}]>>]
        <3>1. Max(S) \in 1 .. n
            BY <1>2, <2>2, MaxOfNumbers
        <3>2. h[S] = ReturnRound(h[S \ {Max(S)}], Max(S))
            BY <1>2, <2>1, <2>2, <3>1
        <3> QED
            BY <1>3, <2>2, <3>1, <3>2
    <2> QED
        BY <2>1, <2>2 DEF FoldsWithin
<1> HIDE DEF h
<1>9. EndsRun(h, n, start, G, V)
    BY <1>2, <1>3, <1>4, <1>8, FoldRuns
<1>10. PICK a \in [0 .. n -> V] : IsRun(a, n, start, G) /\ h[1 .. n] = a[n]
    BY <1>9 DEF EndsRun
<1>11. \A k \in 0 .. (n - 1) : a[k + 1] = ReturnRound(a[k], k + 1)
    <2> TAKE k \in 0 .. (n - 1)
    <2>1. k + 1 \in 1 .. n /\ k \in 0 .. n
        BY <1>2
    <2>2. a[k] \in V /\ a[k + 1] = G[<<k + 1, a[k]>>]
        BY <1>10, <2>1 DEF IsRun
    <2> QED
        BY <1>3, <2>1, <2>2
<1>12. IsReturnRounds(a, candidates)
    BY <1>10, <1>11 DEF IsReturnRounds, IsRun, V, n, start
<1> QED
    BY <1>1, <1>2, <1>10, <1>12 DEF n

-----------------------------------------------------------------------------
(* What the first pass leaves *)

\* No overrider is more specific than itself, nor two than each other.
LEMMA MoreSpecificIsStrict ==
    ASSUME NEW i \in Overrider, NEW j \in Overrider, IsMoreSpecific(i, j)
    PROVE  ~ IsMoreSpecific(j, i)
BY DEF IsMoreSpecific

\* Whoever eliminates the candidate at hand stays.
LEMMA WinnerStays ==
    ASSUME NEW alive \in SUBSET Overrider, NEW i \in alive,
           \E j \in After(i, alive) : IsMoreSpecific(j, i)
    PROVE  \E w \in Round(alive, i) : IsMoreSpecific(w, i)
<1> DEFINE winners == { j \in After(i, alive) : IsMoreSpecific(j, i) }
<1>1. PICK w \in winners : TRUE
    OBVIOUS
<1>2. i \in Nat
    BY SizesAssumption DEF Overrider
<1>3. w \in alive /\ w # i /\ IsMoreSpecific(w, i) /\ w \in Overrider /\ i \in Overrider
    BY <1>1, <1>2 DEF After
<1>4. ~ IsMoreSpecific(i, w)
    BY <1>3, MoreSpecificIsStrict
<1>5. w \in Round(alive, i)
    BY <1>3, <1>4 DEF Round
<1> QED
    BY <1>3, <1>5

\* A round loses nobody without a better candidate, and never all; one who gets
\* through it neither beats nor is beaten by those after it.
LEMMA RoundFacts ==
    ASSUME NEW alive \in SUBSET Overrider, NEW i \in Overrider
    PROVE  /\ \A x \in alive \ Round(alive, i) : \E w \in alive : IsMoreSpecific(w, x)
           /\ alive # {} => Round(alive, i) # {}
           /\ i \in Round(alive, i) =>
                 \A j \in Round(alive, i) :
                    i < j => ~ IsMoreSpecific(i, j) /\ ~ IsMoreSpecific(j, i)
<1> DEFINE after == After(i, alive)
           winners == { j \in after : IsMoreSpecific(j, i) }
           losers == { j \in UpTo(winners, after) : IsMoreSpecific(i, j) }
<1>1. CASE i \notin alive
    BY <1>1 DEF Round
<1>2. CASE i \in alive
    <2>1. Round(alive, i) = (alive \ losers) \ (IF winners = {} THEN {} ELSE {i})
        BY <1>2 DEF Round
    <2>2. i \notin losers /\ after \subseteq alive /\ losers \subseteq after
        BY SizesAssumption DEF After, UpTo, Overrider
    <2>3. ASSUME NEW x \in alive \ Round(alive, i)
          PROVE  \E w \in alive : IsMoreSpecific(w, x)
        <3>1. CASE x \in losers
            BY <1>2, <3>1
        <3>2. CASE x \notin losers
            <4>1. x = i /\ winners # {}
                BY <2>1, <3>2
            <4> QED
                BY <2>2, <4>1
        <3> QED
            BY <3>1, <3>2
    <2>4. Round(alive, i) # {}
        <3>1. CASE winners = {}
            BY <1>2, <2>1, <2>2, <3>1
        <3>2. CASE winners # {}
            BY <1>2, <3>2, WinnerStays
        <3> QED
            BY <3>1, <3>2
    <2>5. ASSUME i \in Round(alive, i), NEW j \in Round(alive, i), i < j
          PROVE  ~ IsMoreSpecific(i, j) /\ ~ IsMoreSpecific(j, i)
        <3>1. winners = {} /\ j \in alive /\ j \notin losers
            BY <2>1, <2>5
        <3>2. j \in after
            BY <2>5, <3>1 DEF After
        <3>3. j \in UpTo(winners, after)
            BY <3>1, <3>2 DEF UpTo
        <3> QED
            BY <3>1, <3>2, <3>3
    <2> QED
        BY <2>3, <2>4, <2>5
<1> QED
    BY <1>1, <1>2

\* The candidates are compared as members of a strict order.
IsOrdered(candidates) ==
    \A i, j, k \in candidates :
        IsMoreSpecific(i, j) /\ IsMoreSpecific(j, k) => IsMoreSpecific(i, k)

\* Among ordered candidates somebody better is left for each one who goes.
LEMMA RoundInOrder ==
    ASSUME NEW candidates \in SUBSET Overrider, IsOrdered(candidates),
           NEW alive \in SUBSET candidates, NEW i \in Overrider,
           NEW x \in alive \ Round(alive, i)
    PROVE  \E w \in Round(alive, i) : IsMoreSpecific(w, x)
<1> DEFINE after == After(i, alive)
           winners == { j \in after : IsMoreSpecific(j, i) }
           losers == { j \in UpTo(winners, after) : IsMoreSpecific(i, j) }
<1>1. i \in alive
    BY DEF Round
<1>2. Round(alive, i) = (alive \ losers) \ (IF winners = {} THEN {} ELSE {i})
    BY <1>1 DEF Round
<1>3. i \notin losers
    BY SizesAssumption DEF After, UpTo, Overrider
<1>4. CASE winners = {}
    BY <1>1, <1>2, <1>3, <1>4
<1>5. CASE winners # {}
    <2>1. PICK w \in Round(alive, i) : IsMoreSpecific(w, i)
        BY <1>1, <1>5, WinnerStays
    <2>2. CASE x = i
        BY <2>1, <2>2
    <2>3. CASE x # i
        <3>1. IsMoreSpecific(i, x)
            BY <1>2, <2>3
        <3>2. w \in candidates /\ i \in candidates /\ x \in candidates
            BY <1>1, RoundType
        <3> QED
            BY <2>1, <3>1, <3>2 DEF IsOrdered
    <2> QED
        BY <2>2, <2>3
<1> QED
    BY <1>4, <1>5

\* No candidate is left that another one eliminates, and none is lost that no
\* candidate eliminates.
LEMMA SurvivorFacts ==
    ASSUME NEW candidates \in SUBSET Overrider
    PROVE  /\ Survivors(candidates) \subseteq candidates
           /\ candidates # {} => Survivors(candidates) # {}
           /\ \A x \in candidates \ Survivors(candidates) :
                 \E w \in candidates : IsMoreSpecific(w, x)
           /\ \A i, j \in Survivors(candidates) : ~ IsMoreSpecific(i, j)
           /\ IsOrdered(candidates) =>
                 \A x \in candidates \ Survivors(candidates) :
                    \E w \in Survivors(candidates) : IsMoreSpecific(w, x)
<1> DEFINE n == NumOverriders
<1>1. n \in Nat /\ Overrider = 1 .. n
    BY SizesAssumption DEF Overrider
<1>2. PICK a : IsRounds(a, candidates) /\ Survivors(candidates) = a[n]
    BY SurvivorsAreLeft
<1> DEFINE Good(k) ==
        /\ a[k] \subseteq candidates
        /\ candidates # {} => a[k] # {}
        /\ \A x \in candidates \ a[k] : \E w \in candidates : IsMoreSpecific(w, x)
        /\ \A i, j \in a[k] : i <= k /\ i < j =>
              ~ IsMoreSpecific(i, j) /\ ~ IsMoreSpecific(j, i)
        /\ IsOrdered(candidates) =>
              \A x \in candidates \ a[k] : \E w \in a[k] : IsMoreSpecific(w, x)
           S == { k \in 0 .. n : Good(k) }
<1>3. 0 \in S
    <2>1. a[0] = candidates /\ \A i \in candidates : ~ (i <= 0)
        BY <1>1, <1>2 DEF IsRounds
    <2>2. Good(0)
        BY <2>1
    <2> HIDE DEF Good
    <2> QED
        BY <1>1, <2>2
<1>4. ASSUME NEW k \in 0 .. (n - 1), k \in S
      PROVE  k + 1 \in S
    <2>1. /\ a[k] \in SUBSET Overrider /\ a[k + 1] = Round(a[k], k + 1)
          /\ k + 1 \in Overrider /\ k + 1 \in 0 .. n
        BY <1>1, <1>2 DEF IsRounds
    <2>2. Good(k)
        BY <1>4
    <2>3. a[k + 1] \subseteq a[k]
        BY <2>1, RoundType
    <2>4. \A x \in candidates \ a[k + 1] : \E w \in candidates : IsMoreSpecific(w, x)
        <3> TAKE x \in candidates \ a[k + 1]
        <3>1. CASE x \in a[k]
            <4>1. \E w \in a[k] : IsMoreSpecific(w, x)
                BY <2>1, <3>1, RoundFacts
            <4> QED
                BY <2>2, <4>1
        <3>2. CASE x \notin a[k]
            BY <2>2, <3>2
        <3> QED
            BY <3>1, <3>2
    <2>5. candidates # {} => a[k + 1] # {}
        BY <2>1, <2>2, RoundFacts
    <2>6. ASSUME NEW i \in a[k + 1], NEW j \in a[k + 1], i <= k + 1, i < j
          PROVE  ~ IsMoreSpecific(i, j) /\ ~ IsMoreSpecific(j, i)
        <3>1. i \in a[k] /\ j \in a[k] /\ i \in Nat /\ j \in Nat
            BY <1>1, <2>1, <2>3
        <3>2. CASE i = k + 1
            BY <2>1, <2>6, <3>2, RoundFacts
        <3>3. CASE i # k + 1
            <4>1. i <= k
                BY <2>6, <3>1, <3>3
            <4> QED
                BY <2>2, <2>6, <3>1, <4>1
        <3> QED
            BY <3>2, <3>3
    <2>7. ASSUME IsOrdered(candidates), NEW x \in candidates \ a[k + 1]
          PROVE  \E w \in a[k + 1] : IsMoreSpecific(w, x)
        <3>0. a[k] \in SUBSET candidates
            BY <2>2
        <3>1. CASE x \in a[k]
            BY <2>1, <2>7, <3>0, <3>1, RoundInOrder
        <3>2. CASE x \notin a[k]
            <4>1. PICK w \in a[k] : IsMoreSpecific(w, x)
                BY <2>2, <2>7, <3>2
            <4>2. CASE w \in a[k + 1]
                BY <4>1, <4>2
            <4>3. CASE w \notin a[k + 1]
                <5>1. PICK v \in a[k + 1] : IsMoreSpecific(v, w)
                    BY <2>1, <2>7, <3>0, <4>3, RoundInOrder
                <5>2. v \in candidates /\ w \in candidates /\ x \in candidates
                    BY <2>3, <3>0
                <5> QED
                    BY <2>7, <4>1, <5>1, <5>2 DEF IsOrdered
            <4> QED
                BY <4>2, <4>3
        <3> QED
            BY <3>1, <3>2
    <2>8. a[k + 1] \subseteq candidates
        BY <2>2, <2>3
    <2>9. Good(k + 1)
        BY <2>4, <2>5, <2>6, <2>7, <2>8
    <2> HIDE DEF Good
    <2> QED
        BY <2>1, <2>9
<1>5. Good(n)
    <2>1. \A k \in 0 .. n : k \in S
        <3> HIDE DEF S
        <3> QED
            BY <1>1, <1>3, <1>4, Upward
    <2> HIDE DEF Good
    <2> QED
        BY <1>1, <2>1
<1>6. ASSUME NEW i \in a[n], NEW j \in a[n]
      PROVE  ~ IsMoreSpecific(i, j)
    <2>1. i \in 1 .. n /\ j \in 1 .. n
        BY <1>1, <1>5
    <2>2. CASE i = j
        BY <2>2 DEF IsMoreSpecific, IsProperlyDerived
    <2>3. CASE i < j
        BY <1>5, <2>1, <2>3
    <2>4. CASE j < i
        BY <1>5, <2>1, <2>4
    <2> QED
        BY <2>1, <2>2, <2>3, <2>4
<1> QED
    BY <1>2, <1>5, <1>6

-----------------------------------------------------------------------------
(* What the second pass leaves *)

\* When i goes in the second pass, somebody it went for stays.
LEMMA ReturnWinnerStays ==
    ASSUME NEW s \in State, NEW i \in s.alive,
           \E j \in After(i, s.alive) : Returns(j, i)
    PROVE  \E w \in ReturnRound(s, i).alive : Returns(w, i)
<1> DEFINE winners == { j \in After(i, s.alive) : Returns(j, i) }
<1>1. PICK w \in winners : TRUE
    OBVIOUS
<1>2. i \in Nat /\ s.alive \subseteq Overrider
    BY SizesAssumption DEF Overrider, State
<1>3. w \in s.alive /\ w # i /\ Returns(w, i)
    BY <1>1, <1>2 DEF After
<1>4. w \in ReturnRound(s, i).alive
    BY <1>3 DEF ReturnRound
<1> QED
    BY <1>3, <1>4

\* A round of the second pass never loses all; one who gets through it returns
\* nothing related to what those after it that are left return.
LEMMA ReturnRoundFacts ==
    ASSUME NEW s \in State, NEW i \in Overrider
    PROVE  /\ ReturnRound(s, i).alive \subseteq s.alive
           /\ s.alive # {} => ReturnRound(s, i).alive # {}
           /\ i \in ReturnRound(s, i).alive =>
                 \A j \in ReturnRound(s, i).alive :
                    i < j => ~ Returns(i, j) /\ ~ Returns(j, i)
<1> DEFINE after == After(i, s.alive)
           winners == { j \in after : Returns(j, i) }
           losers == { j \in UpTo(winners, after) \ winners : Returns(i, j) }
           alive == ReturnRound(s, i).alive
<1>1. CASE i \notin s.alive
    BY <1>1 DEF ReturnRound
<1>2. CASE i \in s.alive
    <2>1. alive = (s.alive \ losers) \ (IF winners = {} THEN {} ELSE {i})
        BY <1>2 DEF ReturnRound
    <2>2. i \notin losers
        BY SizesAssumption DEF After, UpTo, Overrider
    <2>3. alive # {}
        <3>1. CASE winners = {}
            BY <1>2, <2>1, <2>2, <3>1
        <3>2. CASE winners # {}
            BY <1>2, <3>2, ReturnWinnerStays
        <3> QED
            BY <3>1, <3>2
    <2>4. ASSUME i \in alive, NEW j \in alive, i < j
          PROVE  ~ Returns(i, j) /\ ~ Returns(j, i)
        <3>1. winners = {} /\ j \in s.alive /\ j \notin losers
            BY <2>1, <2>4
        <3>2. j \in after
            BY <2>4, <3>1 DEF After
        <3>3. j \in UpTo(winners, after)
            BY <3>1, <3>2 DEF UpTo
        <3> QED
            BY <3>1, <3>2, <3>3
    <2> HIDE DEF losers, winners
    <2> QED
        BY <2>1, <2>3, <2>4
<1> QED
    BY <1>1, <1>2

\* Being derived is reflexive and transitive.
ReturnsAreOrdered ==
    \A i, j, k \in Overrider :
        Returns(i, i) /\ (Returns(i, j) /\ Returns(j, k) => Returns(i, k))

\* Somebody is left whose return type is derived from that of one who goes.
LEMMA ReturnRoundInOrder ==
    ASSUME ReturnsAreOrdered, NEW s \in State, NEW i \in Overrider,
           NEW x \in s.alive \ ReturnRound(s, i).alive
    PROVE  \E w \in ReturnRound(s, i).alive : Returns(w, x)
<1> DEFINE after == After(i, s.alive)
           winners == { j \in after : Returns(j, i) }
           losers == { j \in UpTo(winners, after) \ winners : Returns(i, j) }
           alive == ReturnRound(s, i).alive
<1>1. i \in s.alive
    BY DEF ReturnRound
<1>2. alive = (s.alive \ losers) \ (IF winners = {} THEN {} ELSE {i})
    BY <1>1 DEF ReturnRound
<1>3. i \notin losers
    BY SizesAssumption DEF After, UpTo, Overrider
<1>4. CASE winners = {}
    BY <1>1, <1>2, <1>3, <1>4
<1>5. CASE winners # {}
    <2>1. PICK w \in alive : Returns(w, i)
        BY <1>1, <1>5, ReturnWinnerStays
    <2>2. CASE x = i
        BY <2>1, <2>2
    <2>3. CASE x # i
        <3>1. Returns(i, x)
            BY <1>2, <2>3
        <3>2. w \in Overrider /\ x \in Overrider
            BY ReturnRoundFacts DEF State
        <3> QED
            BY <2>1, <3>1, <3>2 DEF ReturnsAreOrdered
    <2> QED
        BY <2>2, <2>3
<1> QED
    BY <1>4, <1>5

\* No two candidates are left of which one returns a class derived from what
\* the other does, and each that is lost is so for one that does.
LEMMA ReturnSurvivorFacts ==
    ASSUME NEW candidates \in SUBSET Overrider
    PROVE  /\ ReturnSurvivors(candidates) \in State
           /\ ReturnSurvivors(candidates).alive \subseteq candidates
           /\ candidates # {} => ReturnSurvivors(candidates).alive # {}
           /\ \A i, j \in ReturnSurvivors(candidates).alive : i # j => ~ Returns(i, j)
           /\ ReturnsAreOrdered =>
                 \A x \in candidates :
                    \E w \in ReturnSurvivors(candidates).alive : Returns(w, x)
<1> DEFINE n == NumOverriders
<1>1. n \in Nat /\ Overrider = 1 .. n
    BY SizesAssumption DEF Overrider
<1>2. PICK a : IsReturnRounds(a, candidates) /\ ReturnSurvivors(candidates) = a[n]
    BY ReturnSurvivorsAreLeft
<1> DEFINE Good(k) ==
        /\ a[k].alive \subseteq candidates
        /\ candidates # {} => a[k].alive # {}
        /\ \A i, j \in a[k].alive : i <= k /\ i < j => ~ Returns(i, j) /\ ~ Returns(j, i)
        /\ ReturnsAreOrdered =>
              \A x \in candidates : \E w \in a[k].alive : Returns(w, x)
           S == { k \in 0 .. n : Good(k) }
<1>3. 0 \in S
    <2>1. a[0].alive = candidates /\ \A i \in candidates : ~ (i <= 0)
        BY <1>1, <1>2 DEF IsReturnRounds
    <2>2. ReturnsAreOrdered => \A x \in candidates : Returns(x, x)
        BY DEF ReturnsAreOrdered
    <2>3. Good(0)
        BY <2>1, <2>2
    <2> HIDE DEF Good
    <2> QED
        BY <1>1, <2>3
<1>4. ASSUME NEW k \in 0 .. (n - 1), k \in S
      PROVE  k + 1 \in S
    <2>1. /\ a[k] \in State /\ a[k + 1] = ReturnRound(a[k], k + 1)
          /\ k + 1 \in Overrider /\ k + 1 \in 0 .. n
        BY <1>1, <1>2 DEF IsReturnRounds
    <2>2. Good(k)
        BY <1>4
    <2>3. a[k + 1].alive \subseteq a[k].alive
        BY <2>1, ReturnRoundFacts
    <2>4. candidates # {} => a[k + 1].alive # {}
        BY <2>1, <2>2, ReturnRoundFacts
    <2>5. ASSUME NEW i \in a[k + 1].alive, NEW j \in a[k + 1].alive, i <= k + 1, i < j
          PROVE  ~ Returns(i, j) /\ ~ Returns(j, i)
        <3>1. i \in a[k].alive /\ j \in a[k].alive /\ i \in Nat /\ j \in Nat
            BY <1>1, <2>1, <2>3 DEF State
        <3>2. CASE i = k + 1
            BY <2>1, <2>5, <3>2, ReturnRoundFacts
        <3>3. CASE i # k + 1
            <4>1. i <= k
                BY <2>5, <3>1, <3>3
            <4> QED
                BY <2>2, <2>5, <3>1, <4>1
        <3> QED
            BY <3>2, <3>3
    <2>6. ASSUME ReturnsAreOrdered, NEW x \in candidates
          PROVE  \E w \in a[k + 1].alive : Returns(w, x)
        <3>1. PICK w \in a[k].alive : Returns(w, x)
            BY <2>2, <2>6
        <3>2. CASE w \in a[k + 1].alive
            BY <3>1, <3>2
        <3>3. CASE w \notin a[k + 1].alive
            <4>1. PICK v \in a[k + 1].alive : Returns(v, w)
                BY <2>1, <2>6, <3>3, ReturnRoundInOrder
            <4>2. v \in Overrider /\ w \in Overrider /\ x \in Overrider
                BY <2>1, <2>3 DEF State
            <4> QED
                BY <2>6, <3>1, <4>1, <4>2 DEF ReturnsAreOrdered
        <3> QED
            BY <3>2, <3>3
    <2>7. a[k + 1].alive \subseteq candidates
        BY <2>2, <2>3
    <2>8. Good(k + 1)
        BY <2>4, <2>5, <2>6, <2>7
    <2> HIDE DEF Good
    <2> QED
        BY <2>1, <2>8
<1>5. Good(n) /\ a[n] \in State
    <2>1. \A k \in 0 .. n : k \in S
        <3> HIDE DEF S
        <3> QED
            BY <1>1, <1>3, <1>4, Upward
    <2> HIDE DEF Good
    <2> QED
        BY <1>1, <1>2, <2>1 DEF IsReturnRounds
<1>6. ASSUME NEW i \in a[n].alive, NEW j \in a[n].alive, i # j
      PROVE  ~ Returns(i, j)
    <2>1. i \in 1 .. n /\ j \in 1 .. n
        BY <1>1, <1>5
    <2>2. CASE i < j
        BY <1>5, <2>1, <2>2
    <2>3. CASE j < i
        BY <1>5, <2>1, <2>3
    <2> QED
        BY <1>6, <2>1, <2>2, <2>3
<1> HIDE DEF n
<1> QED
    BY <1>2, <1>5, <1>6

-----------------------------------------------------------------------------
(* What is selected *)

\* The lattice is that of the program.
ProgramInv == program \in Programs /\ derived = DerivedOf(program.bases)

\* Outcome t is right for a set of candidates.
IsRight(candidates, t) ==
    /\ t \in Target
    /\ t = NotImplemented <=> candidates = {}
    /\ t \in Overrider =>
          /\ t \in candidates
          /\ program.n2216 \/ Undominated(candidates) \subseteq {t}
    /\ program.n2216 =>
          /\ t # Ambiguous
          /\ t \in Undominated(candidates) /\ program.returns[t] # NoClass =>
                \A j \in Undominated(candidates) :
                    ~ IsProperlyDerived(program.returns[j], program.returns[t])

\* With n2216, outcome t returns a class derived from what its rivals do.
IsClear(candidates, t) ==
    \A j \in Undominated(candidates) \ {t} :
        /\ program.returns[j] # NoClass
        /\ program.returns[t] \in derived[program.returns[j]]

LEMMA NumbersOfOverriders ==
    /\ NumOverriders \in Nat /\ Overrider \subseteq Nat /\ 0 \notin Overrider
    /\ NotImplemented \notin Overrider /\ Ambiguous \notin Overrider
    /\ NotImplemented # Ambiguous /\ Null \notin Target
    /\ NoClass \notin Class
BY SizesAssumption, NumClassesAssumption
   DEF Overrider, NotImplemented, Ambiguous, Null, Target, NoClass, Class

LEMMA ProgramFacts ==
    ASSUME ProgramInv
    PROVE  /\ program.bases \in Inheritances
           /\ program.method \in [Dim -> Class]
           /\ program.overriders \in [Overrider -> [Dim -> Class]]
           /\ program.returns \in [Overrider -> Class]
              \/ program.returns \in [Overrider -> {NoClass}]
           /\ program.n2216 \in BOOLEAN
<1>1. program \in Program
    BY ProgramsAssumption DEF ProgramInv
<1> QED
    BY <1>1 DEF Program

\* is_more_specific is what the documentation calls to dominate.
LEMMA DominatesIsMoreSpecific ==
    ASSUME NEW i \in Overrider, NEW j \in Overrider
    PROVE  Dominates(i, j) <=> IsMoreSpecific(i, j)
BY DEF Dominates, IsMoreSpecific, IsProperlyDerived

LEMMA FiniteCandidates ==
    ASSUME NEW s \in SUBSET Overrider
    PROVE  /\ IsFiniteSet(s) /\ Cardinality(s) \in Nat
           /\ s # {} => Max(s) \in s
           /\ ~ (Cardinality(s) > 1) => \A x, y \in s : x = y
           /\ \A x \in s : (\A y \in s : x = y) => s = {x} /\ ~ (Cardinality(s) > 1)
<1>1. IsFiniteSet(Overrider)
    BY NumbersOfOverriders, FS_Interval DEF Overrider
<1>2. IsFiniteSet(s) /\ Cardinality(s) \in Nat
    BY <1>1, FS_Subset, FS_CardinalityType
<1>3. s # {} => Max(s) \in s
    BY NumbersOfOverriders, MaxOfNumbers DEF Overrider
<1>4. ASSUME ~ (Cardinality(s) > 1), NEW x \in s, NEW y \in s
      PROVE  x = y
    <2>1. Cardinality(s) # 0
        BY <1>2, <1>4, FS_EmptySet
    <2>2. Cardinality(s) = 1
        BY <1>2, <1>4, <2>1
    <2>3. PICK z : s = {z}
        BY <1>2, <2>2, FS_Singleton
    <2> QED
        BY <1>4, <2>3
<1>5. ASSUME NEW x \in s, \A y \in s : x = y
      PROVE  s = {x} /\ ~ (Cardinality(s) > 1)
    <2>1. s = {x}
        BY <1>5
    <2>2. Cardinality({x}) = 1
        BY FS_Singleton
    <2> QED
        BY <2>1, <2>2
<1> QED
    BY <1>2, <1>3, <1>4, <1>5

\* What is left after the second pass, if there is one.
LEMMA LeftFacts ==
    ASSUME NEW candidates \in SUBSET Overrider
    PROVE  LET selected == SelectDominant(candidates)
               first == Survivors(candidates)
           IN  /\ selected.left \subseteq first /\ first \subseteq candidates
               /\ selected.left = {} <=> candidates = {}
               /\ selected.left # {} => selected.pick \in selected.left
               /\ ~ program.n2216 => selected.left = first
               /\ \/ /\ program.n2216 /\ Cardinality(first) > 1
                     /\ program.returns[Max(first)] # NoClass
                     /\ selected.left = ReturnSurvivors(first).alive
                  \/ /\ selected.left = first
                     /\ program.n2216 /\ Cardinality(first) > 1 =>
                           program.returns[Max(first)] = NoClass
<1> DEFINE selected == SelectDominant(candidates)
           first == Survivors(candidates)
           byReturn == /\ program.n2216 /\ Cardinality(first) > 1
                       /\ program.returns[Max(first)] # NoClass
           left == IF byReturn THEN ReturnSurvivors(first).alive ELSE first
<1>1. /\ selected.left = left
      /\ selected.pick = IF left = {} THEN 0 ELSE Max(left)
    BY DEF SelectDominant
<1>2. first \subseteq candidates /\ (candidates # {} => first # {})
    BY SurvivorFacts
<1>3. first \in SUBSET Overrider
    BY <1>2
<1>4. /\ ReturnSurvivors(first).alive \subseteq first
      /\ first # {} => ReturnSurvivors(first).alive # {}
    BY <1>3, ReturnSurvivorFacts
<1>5. left \subseteq first /\ (left = {} <=> candidates = {})
    BY <1>2, <1>4
<1>6. left # {} => Max(left) \in left
    <2> HIDE DEF left
    <2> QED
        BY <1>3, <1>5, FiniteCandidates
<1> HIDE DEF selected
<1>7. selected.left # {} => selected.pick \in selected.left
    BY <1>1, <1>6
<1> HIDE DEF first
<1>8. \/ byReturn /\ selected.left = ReturnSurvivors(first).alive
      \/ ~ byReturn /\ selected.left = first
    BY <1>1
<1> QED
    BY <1>1, <1>2, <1>5, <1>7, <1>8 DEF selected, first

\* Return types that are classes are ordered as classes are.
LEMMA ReturnsInOrder ==
    ASSUME ProgramInv, program.returns \in [Overrider -> Class]
    PROVE  /\ ReturnsAreOrdered
           /\ \A i, j \in Overrider :
                 Returns(i, j) /\ Returns(j, i) => program.returns[i] = program.returns[j]
<1> DEFINE B == program.bases
<1>1. B \in Inheritances /\ derived = DerivedOf(B)
    BY ProgramFacts DEF ProgramInv
<1> HIDE DEF B
<1>2. \A c \in Class : /\ c \in derived[c]
                       /\ \A d \in derived[c] : d \in Class /\ derived[d] \subseteq derived[c]
    BY <1>1, DerivedFacts
<1>3. ASSUME NEW c \in Class, NEW d \in Class, c \in derived[d], d \in derived[c]
      PROVE  c = d
    <2>1. c = d \/ d \in B[c]
        BY <1>1, <1>3, DerivedFacts
    <2>2. c = d \/ c \in B[d]
        BY <1>1, <1>3, DerivedFacts
    <2>3. d \in B[c] /\ c \in B[d] => c \in B[c]
        BY <1>1, InheritanceFacts
    <2>4. c \notin B[c]
        BY <1>1, InheritanceFacts
    <2> QED
        BY <2>1, <2>2, <2>3, <2>4
<1>4. \A i \in Overrider : program.returns[i] \in Class
    OBVIOUS
<1> QED
    BY <1>2, <1>3, <1>4 DEF ReturnsAreOrdered, Returns

\* Only dominated candidates are lost.
LEMMA UndominatedSurvive ==
    ASSUME NEW candidates \in SUBSET Overrider
    PROVE  Undominated(candidates) \subseteq Survivors(candidates)
<1> SUFFICES ASSUME NEW x \in Undominated(candidates), x \notin Survivors(candidates)
             PROVE  FALSE
    OBVIOUS
<1>1. x \in candidates /\ \A w \in candidates : ~ Dominates(w, x)
    BY DEF Undominated
<1>2. PICK w \in candidates : IsMoreSpecific(w, x)
    BY <1>1, SurvivorFacts
<1> QED
    BY <1>1, <1>2, DominatesIsMoreSpecific

\* Of the overrider picked by return type: it returns a class derived from what
\* each candidate returns that no other outlasts.
LEMMA PickedByReturn ==
    ASSUME ProgramInv, NEW first \in SUBSET Overrider,
           program.returns \in [Overrider -> Class],
           NEW t \in ReturnSurvivors(first).alive, NEW j \in first
    PROVE  /\ ~ IsProperlyDerived(program.returns[j], program.returns[t])
           /\ (\A w \in ReturnSurvivors(first).alive : w = t) =>
                 program.returns[t] \in derived[program.returns[j]]
<1>1. PICK w \in ReturnSurvivors(first).alive : Returns(w, j)
    BY ReturnSurvivorFacts, ReturnsInOrder
<1>2. w \in Overrider /\ t \in Overrider /\ j \in Overrider
    BY ReturnSurvivorFacts
<1>3. w # t => ~ Returns(w, t)
    BY ReturnSurvivorFacts
<1>4. ~ IsProperlyDerived(program.returns[j], program.returns[t])
    <2> SUFFICES ASSUME IsProperlyDerived(program.returns[j], program.returns[t])
                 PROVE  FALSE
        OBVIOUS
    <2>1. Returns(j, t) /\ program.returns[j] # program.returns[t]
        BY DEF IsProperlyDerived, Returns
    <2>2. Returns(w, t)
        BY <1>1, <1>2, <2>1, ReturnsInOrder DEF ReturnsAreOrdered
    <2>3. w = t
        BY <1>3, <2>2
    <2> QED
        BY <1>1, <1>2, <2>1, <2>3, ReturnsInOrder
<1>5. (\A v \in ReturnSurvivors(first).alive : v = t) => Returns(t, j)
    BY <1>1
<1> QED
    BY <1>4, <1>5 DEF Returns

\* What the selection yields is right for its candidates, in any lattice.
LEMMA SelectionIsRight ==
    ASSUME ProgramInv, NEW candidates \in SUBSET Overrider
    PROVE  LET selected == SelectDominant(candidates)
               t == Outcome(selected)
           IN  /\ IsRight(candidates, t)
               /\ ~ program.n2216 => (t = Ambiguous <=> Cardinality(selected.left) > 1)
               /\ ~ program.n2216 /\ t \in Overrider => selected.left = {t}
               /\ program.n2216 /\ ~ (Cardinality(selected.left) > 1) =>
                     IsClear(candidates, t)
<1> DEFINE selected == SelectDominant(candidates)
           first == Survivors(candidates)
           left == selected.left
           t == Outcome(selected)
<1>1. /\ left \subseteq first /\ first \subseteq candidates
      /\ left = {} <=> candidates = {}
      /\ left # {} => selected.pick \in left
      /\ ~ program.n2216 => left = first
      /\ \/ /\ program.n2216 /\ Cardinality(first) > 1
            /\ program.returns[Max(first)] # NoClass
            /\ left = ReturnSurvivors(first).alive
         \/ /\ left = first
            /\ program.n2216 /\ Cardinality(first) > 1 =>
                  program.returns[Max(first)] = NoClass
    BY LeftFacts
<1>2. t = CASE left = {} -> NotImplemented
            [] Cardinality(left) > 1 /\ ~ program.n2216 -> Ambiguous
            [] OTHER -> selected.pick
    BY DEF Outcome
<1>3. Undominated(candidates) \subseteq first
    BY UndominatedSurvive
<1>4. /\ program.returns \in [Overrider -> Class]
         \/ program.returns \in [Overrider -> {NoClass}]
      /\ program.n2216 \in BOOLEAN
    BY ProgramFacts
<1> HIDE DEF selected, first, left, t
<1>5. first \in SUBSET Overrider /\ left \in SUBSET Overrider
    BY <1>1
<1>6. Cardinality({}) = 0
    BY FS_EmptySet
<1>7. CASE left = {}
    <2>1. t = NotImplemented /\ candidates = {}
        BY <1>1, <1>2, <1>6, <1>7
    <2>2. Undominated(candidates) = {}
        BY <2>1 DEF Undominated
    <2>3. IsRight(candidates, t)
        BY <2>1, <2>2, NumbersOfOverriders DEF IsRight, Target
    <2>4. ~ (Cardinality(left) > 1)
        BY <1>6, <1>7
    <2>5. IsClear(candidates, t)
        BY <2>2 DEF IsClear
    <2> QED
        BY <2>1, <2>3, <2>4, <2>5, NumbersOfOverriders DEF selected, left, t
<1>8. CASE left # {} /\ Cardinality(left) > 1 /\ ~ program.n2216
    <2>1. t = Ambiguous /\ candidates # {}
        BY <1>1, <1>2, <1>8
    <2>2. IsRight(candidates, t)
        BY <1>8, <2>1, NumbersOfOverriders DEF IsRight, Target
    <2> QED
        BY <1>8, <2>1, <2>2, NumbersOfOverriders DEF selected, left, t
<1>9. CASE left # {} /\ ~ (Cardinality(left) > 1 /\ ~ program.n2216)
    <2>1. t = selected.pick /\ t \in left /\ candidates # {}
        BY <1>1, <1>2, <1>9
    <2>2. t \in candidates /\ t \in Overrider /\ t \in first
        BY <1>1, <1>5, <2>1
    <2>3. CASE ~ program.n2216
        <3>1. ~ (Cardinality(left) > 1)
            BY <1>9, <2>3
        <3>2. left = {t}
            BY <1>5, <2>1, <3>1, FiniteCandidates
        <3>3. Undominated(candidates) \subseteq {t}
            BY <1>1, <1>3, <2>3, <3>2
        <3>4. IsRight(candidates, t)
            BY <2>1, <2>2, <2>3, <3>3, NumbersOfOverriders DEF IsRight, Target
        <3> QED
            BY <2>2, <2>3, <3>1, <3>2, <3>4, NumbersOfOverriders DEF selected, left, t
    <2>4. CASE program.n2216
        <3>1. ASSUME t \in Undominated(candidates), program.returns[t] # NoClass,
                     NEW j \in Undominated(candidates)
              PROVE  ~ IsProperlyDerived(program.returns[j], program.returns[t])
            <4>1. j \in first /\ program.returns \in [Overrider -> Class]
                BY <1>3, <1>4, <2>2, <3>1
            <4>2. CASE Cardinality(first) > 1
                <5>0. Max(first) \in Overrider
                    BY <1>5, <2>2, FiniteCandidates
                <5>1. program.returns[Max(first)] # NoClass
                    BY <4>1, <5>0, NumbersOfOverriders
                <5>2. left = ReturnSurvivors(first).alive
                    BY <1>1, <2>4, <4>2, <5>1
                <5> QED
                    BY <1>5, <2>1, <4>1, <5>2, PickedByReturn
            <4>3. CASE ~ (Cardinality(first) > 1)
                <5>1. j = t
                    BY <1>5, <2>2, <4>1, <4>3, FiniteCandidates
                <5> QED
                    BY <5>1 DEF IsProperlyDerived
            <4> QED
                BY <4>2, <4>3
        <3>2. IsRight(candidates, t)
            BY <2>1, <2>2, <2>4, <3>1, NumbersOfOverriders DEF IsRight, Target
        <3>3. ASSUME ~ (Cardinality(left) > 1), NEW j \in Undominated(candidates) \ {t}
              PROVE  /\ program.returns[j] # NoClass
                     /\ program.returns[t] \in derived[program.returns[j]]
            <4>1. j \in first /\ j # t /\ j \in Overrider
                BY <1>3, <1>5
            <4>2. \A w \in left : w = t
                BY <1>5, <2>1, <3>3, FiniteCandidates
            <4>3. /\ program.returns[Max(first)] # NoClass
                  /\ left = ReturnSurvivors(first).alive
                BY <1>1, <4>1, <4>2
            <4>4. Max(first) \in Overrider
                BY <1>5, <2>2, FiniteCandidates
            <4>5. program.returns \in [Overrider -> Class]
                BY <1>4, <4>3, <4>4
            <4>6. program.returns[t] \in derived[program.returns[j]]
                BY <1>5, <2>1, <4>1, <4>2, <4>3, <4>5, PickedByReturn
            <4>7. program.returns[j] # NoClass
                BY <4>1, <4>5, NumbersOfOverriders
            <4> QED
                BY <4>6, <4>7
        <3>4. ~ (Cardinality(left) > 1) => IsClear(candidates, t)
            BY <3>3 DEF IsClear
        <3> QED
            BY <2>4, <3>2, <3>4 DEF selected, left, t
    <2> QED
        BY <1>4, <2>3, <2>4
<1> QED
    BY <1>7, <1>8, <1>9

-----------------------------------------------------------------------------
(* Single inheritance *)

\* The classes an argument has as bases are on one path.
LEMMA BasesAreAPath ==
    ASSUME ProgramInv, SingleInheritance, NEW c \in Class,
           NEW x \in Class, NEW y \in Class, c \in derived[x], c \in derived[y]
    PROVE  x \in derived[y] \/ y \in derived[x]
<1> DEFINE B == program.bases
<1>1. B \in Inheritances /\ derived = DerivedOf(B)
    BY ProgramFacts DEF ProgramInv
<1>2. ASSUME NEW d \in Class, NEW a \in DirectOf(B)[d], NEW b \in DirectOf(B)[d]
      PROVE  a = b
    <2>1. Cardinality(DirectOf(B)[d]) <= 1
        BY DEF SingleInheritance
    <2>2. DirectOf(B)[d] \in SUBSET Class /\ IsFiniteSet(Class)
        BY <1>1, DirectFacts, InheritanceFacts, FS_Interval, NumClassesAssumption DEF Class
    <2>3. IsFiniteSet(DirectOf(B)[d]) /\ Cardinality(DirectOf(B)[d]) \in Nat
        BY <2>2, FS_Subset, FS_CardinalityType
    <2>4. Cardinality(DirectOf(B)[d]) # 0
        BY <2>3, FS_EmptySet
    <2>5. Cardinality(DirectOf(B)[d]) = 1
        BY <2>1, <2>3, <2>4
    <2>6. PICK z : DirectOf(B)[d] = {z}
        BY <2>3, <2>5, FS_Singleton
    <2> QED
        BY <2>6
<1> HIDE DEF B
<1>3. PICK r \in {c} \cup B[c] : B[r] \cap ({c} \cup B[c]) = {}
    <2>1. {c} \cup B[c] \subseteq Class /\ {c} \cup B[c] # {}
        BY <1>1, InheritanceFacts
    <2> QED
        BY <1>1, <2>1, MostBasicMember
<1>4. r \in Class /\ B[r] \subseteq B[c] /\ c \in DerivedOf(B)[r]
    BY <1>1, <1>3, InheritanceFacts, DerivedFacts
<1>5. DirectOf(B)[r] = {}
    BY <1>1, <1>3, <1>4, DirectFacts
<1>6. TreeRoot(B, r)
    <2>1. DerivedOf(B)[r] \subseteq Class
        BY <1>1, <1>4, DerivedFacts
    <2> QED
        BY <1>2, <1>5, <2>1 DEF TreeRoot
<1>7. \A a, b \in B[c] : a = b \/ a \in B[b] \/ b \in B[a]
    BY <1>1, <1>4, <1>6, TreePath
<1>8. (c = x \/ x \in B[c]) /\ (c = y \/ y \in B[c])
    BY <1>1, DerivedFacts
<1>9. x = y \/ x \in B[y] \/ y \in B[x]
    BY <1>7, <1>8
<1> QED
    BY <1>1, <1>9, DerivedFacts

\* The derived classes of a program's classes.
LEMMA DerivedInPrograms ==
    ASSUME ProgramInv
    PROVE  \A c \in Class :
              /\ derived[c] \subseteq Class /\ c \in derived[c]
              /\ \A d \in derived[c] : /\ derived[d] \subseteq derived[c]
                                       /\ c \in derived[d] => c = d
<1> DEFINE B == program.bases
<1>1. B \in Inheritances /\ derived = DerivedOf(B)
    BY ProgramFacts DEF ProgramInv
<1> HIDE DEF B
<1>2. ASSUME NEW c \in Class, NEW d \in derived[c], c \in derived[d]
      PROVE  c = d
    <2>1. d \in Class
        BY <1>1, DerivedFacts
    <2>2. (d = c \/ c \in B[d]) /\ (c = d \/ d \in B[c])
        BY <1>1, <1>2, <2>1, DerivedFacts
    <2>3. c \in B[d] /\ d \in B[c] => c \in B[c]
        BY <1>1, InheritanceFacts
    <2>4. c \notin B[c]
        BY <1>1, InheritanceFacts
    <2> QED
        BY <2>2, <2>3, <2>4
<1> QED
    BY <1>1, <1>2, DerivedFacts

\* The overriders that take what overrider t takes, without t.
Others(t) ==
    { j \in Overrider \ {t} :
        \A d \in Dim : overriders[t][d] \in derived[overriders[j][d]] }

\* What can be called with the same arguments is more specific in each dimension
\* or in none.
LEMMA ApplicableAreOrdered ==
    ASSUME ProgramInv, SingleInheritance, NEW args \in Calls,
           NEW i \in ApplicableTo(args), NEW j \in ApplicableTo(args)
    PROVE  IsMoreSpecific(i, j) <=>
              /\ \A d \in Dim : overriders[i][d] \in derived[overriders[j][d]]
              /\ \E d \in Dim : overriders[i][d] # overriders[j][d]
<1>1. /\ i \in Overrider /\ j \in Overrider
      /\ \A d \in Dim : /\ overriders[i][d] \in Class /\ overriders[j][d] \in Class
                        /\ args[d] \in Class
                        /\ args[d] \in derived[overriders[i][d]]
                        /\ args[d] \in derived[overriders[j][d]]
    BY ProgramFacts DEF Calls, ApplicableTo, overriders
<1>2. \A d \in Dim : \/ overriders[i][d] \in derived[overriders[j][d]]
                     \/ overriders[j][d] \in derived[overriders[i][d]]
    BY <1>1, BasesAreAPath
<1>3. \A d \in Dim : /\ overriders[i][d] \in derived[overriders[j][d]]
                     /\ overriders[j][d] \in derived[overriders[i][d]]
                     => overriders[i][d] = overriders[j][d]
    BY <1>1, DerivedInPrograms
<1>4. \A d \in Dim : overriders[i][d] \in derived[overriders[i][d]]
    BY <1>1, DerivedInPrograms
<1> QED
    BY <1>2, <1>3, <1>4 DEF IsMoreSpecific, IsProperlyDerived

\* With single inheritance what applies to a call is ordered, and any part of it.
LEMMA CandidatesAreOrdered ==
    ASSUME ProgramInv, SingleInheritance, NEW args \in Calls,
           NEW candidates \in SUBSET ApplicableTo(args)
    PROVE  IsOrdered(candidates)
<1> SUFFICES ASSUME NEW i \in candidates, NEW j \in candidates, NEW k \in candidates,
                    IsMoreSpecific(i, j), IsMoreSpecific(j, k)
             PROVE  IsMoreSpecific(i, k)
    BY DEF IsOrdered
<1>1. /\ i \in ApplicableTo(args) /\ j \in ApplicableTo(args) /\ k \in ApplicableTo(args)
      /\ i \in Overrider /\ j \in Overrider /\ k \in Overrider
    BY DEF ApplicableTo
<1>2. \A d \in Dim : overriders[i][d] \in Class /\ overriders[j][d] \in Class
                     /\ overriders[k][d] \in Class
    BY <1>1, ProgramFacts DEF overriders
<1>3. \A d \in Dim : /\ overriders[i][d] \in derived[overriders[j][d]]
                     /\ overriders[j][d] \in derived[overriders[k][d]]
    BY <1>1, ApplicableAreOrdered
<1>4. \A d \in Dim : overriders[i][d] \in derived[overriders[k][d]]
    BY <1>2, <1>3, DerivedInPrograms
<1>5. PICK d \in Dim : overriders[i][d] # overriders[j][d]
    BY <1>1, ApplicableAreOrdered
<1>6. overriders[i][d] # overriders[k][d]
    BY <1>2, <1>3, <1>5, DerivedInPrograms
<1> QED
    BY <1>1, <1>4, <1>6, ApplicableAreOrdered

\* With an order, elimination leaves those that nothing dominates.
LEMMA SurvivorsAreUndominated ==
    ASSUME NEW candidates \in SUBSET Overrider, IsOrdered(candidates)
    PROVE  Survivors(candidates) = Undominated(candidates)
<1> SUFFICES ASSUME NEW x \in Survivors(candidates), NEW y \in candidates,
                    IsMoreSpecific(y, x)
             PROVE  FALSE
    BY UndominatedSurvive, SurvivorFacts, DominatesIsMoreSpecific DEF Undominated
<1>1. x \in candidates /\ y \notin Survivors(candidates)
    BY SurvivorFacts
<1>2. PICK w \in Survivors(candidates) : IsMoreSpecific(w, y)
    BY <1>1, SurvivorFacts
<1>3. w \in candidates
    BY SurvivorFacts
<1>4. IsMoreSpecific(w, x)
    BY <1>1, <1>2, <1>3 DEF IsOrdered
<1> QED
    BY <1>4, SurvivorFacts

\* With single inheritance and without n2216, the outcome is the documented one.
LEMMA OutcomeIsDocumented ==
    ASSUME ProgramInv, SingleInheritance, ~ program.n2216, NEW args \in Calls,
           NEW candidates \in SUBSET ApplicableTo(args)
    PROVE  Outcome(SelectDominant(candidates)) = Documented(candidates)
<1> DEFINE selected == SelectDominant(candidates)
           t == Outcome(selected)
           best == Undominated(candidates)
<1>1. candidates \in SUBSET Overrider
    BY DEF ApplicableTo
<1>2. selected.left = best
    BY <1>1, LeftFacts, CandidatesAreOrdered, SurvivorsAreUndominated
<1>3. /\ IsRight(candidates, t)
      /\ t = Ambiguous <=> Cardinality(selected.left) > 1
      /\ t \in Overrider => selected.left = {t}
    BY <1>1, SelectionIsRight
<1> HIDE DEF selected, t
<1>4. best \in SUBSET Overrider /\ best \subseteq candidates
    BY <1>1 DEF Undominated
<1> HIDE DEF best
<1>5. CASE t = NotImplemented
    BY <1>3, <1>5 DEF IsRight, Documented, t, selected
<1>6. CASE t = Ambiguous
    <2>1. candidates # {}
        BY <1>3, <1>6, NumbersOfOverriders DEF IsRight
    <2>2. Cardinality(best) > 1
        BY <1>2, <1>3, <1>6
    <2>3. ~ \E i \in candidates : best = {i}
        BY <2>2, FS_Singleton
    <2> QED
        BY <1>6, <2>1, <2>3 DEF Documented, t, selected, best
<1>7. CASE t \in Overrider
    <2>1. best = {t} /\ t \in candidates /\ candidates # {}
        BY <1>2, <1>3, <1>7 DEF IsRight
    <2>2. (CHOOSE i \in candidates : best = {i}) = t
        BY <2>1
    <2>3. \E i \in candidates : best = {i}
        BY <2>1
    <2> QED
        BY <2>1, <2>2, <2>3 DEF Documented, t, selected, best
<1> QED
    BY <1>3, <1>5, <1>6, <1>7 DEF IsRight, Target

\* With single inheritance, what is left to choose from for `next' depends on the
\* overrider picked alone.
LEMMA RestIsOthers ==
    ASSUME ProgramInv, SingleInheritance, ~ program.n2216, NEW args \in Calls,
           NEW t \in Overrider, t = Outcome(SelectDominant(ApplicableTo(args)))
    PROVE  ApplicableTo(args) \ SelectDominant(ApplicableTo(args)).left = Others(t)
<1> DEFINE A == ApplicableTo(args)
           left == SelectDominant(A).left
<1>1. A \in SUBSET Overrider
    BY DEF ApplicableTo
<1>2. left = {t} /\ t \in A
    BY <1>1, SelectionIsRight DEF IsRight
<1>3. Survivors(A) = {t}
    BY <1>1, <1>2, LeftFacts
<1>4. ASSUME NEW j \in A, j # t
      PROVE  j \in Others(t)
    <2>1. IsOrdered(A)
        BY CandidatesAreOrdered
    <2>2. IsMoreSpecific(t, j)
        BY <1>1, <1>3, <1>4, <2>1, SurvivorFacts
    <2> QED
        BY <1>1, <1>2, <1>4, <2>2, ApplicableAreOrdered DEF Others
<1>5. ASSUME NEW j \in Others(t)
      PROVE  j \in A
    <2>1. ASSUME NEW d \in Dim
          PROVE  args[d] \in derived[overriders[j][d]]
        <3>1. args[d] \in derived[overriders[t][d]]
            BY <1>2 DEF ApplicableTo
        <3>2. overriders[t][d] \in derived[overriders[j][d]]
            BY <1>5 DEF Others
        <3>3. overriders[j][d] \in Class
            BY <1>5, ProgramFacts DEF Others, overriders
        <3> QED
            BY <3>1, <3>2, <3>3, DerivedInPrograms
    <2> QED
        BY <1>5, <2>1 DEF ApplicableTo, Others
<1>6. t \notin Others(t)
    BY DEF Others
<1> HIDE DEF A, left
<1>7. A \ left = Others(t)
    BY <1>2, <1>4, <1>5, <1>6
<1> QED
    BY <1>7 DEF A, left

-----------------------------------------------------------------------------
(* Cells *)

Sizes == [d \in Dim |-> Len(groups[d])]

Cells == Places(Sizes, Arity)

CandidatesAt(v) == { i \in Overrider : \A d \in Dim : i \in groups[d][v[d]] }

\* The groups and strides are those of the program.
LayoutInv ==
    /\ \A d \in Dim : IsGrouping(groups[d], Masks(derived, program.method[d], Column(d)))
    /\ strides = [d \in Dim |-> Stride(Sizes, d)]

\* Each class that can be passed has a group, and no group is without a class.
LEMMA GroupFacts ==
    ASSUME ProgramInv, LayoutInv, NEW d \in Dim
    PROVE  /\ groups[d] \in Seq(SUBSET Overrider)
           /\ Len(groups[d]) \in Nat \ {0}
           /\ \A c \in derived[program.method[d]] :
                 /\ GroupOf(d, c) \in 1 .. Len(groups[d])
                 /\ groups[d][GroupOf(d, c)] = Mask(derived, Column(d), c)
           /\ \A k \in 1 .. Len(groups[d]) : \E c \in derived[program.method[d]] :
                 groups[d][k] = Mask(derived, Column(d), c)
<1> DEFINE masks == Masks(derived, program.method[d], Column(d))
<1>1. IsGrouping(groups[d], masks)
    BY DEF LayoutInv
<1>2. masks = { Mask(derived, Column(d), c) : c \in derived[program.method[d]] }
    BY DEF Masks
<1>3. DOMAIN Column(d) = Overrider
    BY DEF Column
<1>4. \A m \in masks : m \in SUBSET Overrider
    BY <1>2, <1>3 DEF Mask
<1>5. program.method[d] \in derived[program.method[d]]
    BY ProgramFacts, DerivedInPrograms
<1> HIDE DEF masks
<1>6. groups[d] \in Seq(masks) /\ \A m \in masks : \E k \in 1 .. Len(groups[d]) : groups[d][k] = m
    BY <1>1 DEF IsGrouping
<1>7. groups[d] \in Seq(SUBSET Overrider) /\ Len(groups[d]) \in Nat
      /\ DOMAIN groups[d] = 1 .. Len(groups[d])
      /\ \A k \in 1 .. Len(groups[d]) : groups[d][k] \in masks
    BY <1>4, <1>6
<1>8. Len(groups[d]) # 0
    <2>1. Mask(derived, Column(d), program.method[d]) \in masks
        BY <1>2, <1>5
    <2>2. \E k \in 1 .. Len(groups[d]) : TRUE
        BY <1>6, <2>1
    <2> QED
        BY <2>2
<1>9. ASSUME NEW c \in derived[program.method[d]]
      PROVE  /\ GroupOf(d, c) \in 1 .. Len(groups[d])
             /\ groups[d][GroupOf(d, c)] = Mask(derived, Column(d), c)
    <2>1. \E k \in DOMAIN groups[d] : groups[d][k] = Mask(derived, Column(d), c)
        BY <1>2, <1>6, <1>7
    <2>2. GroupOf(d, c) \in DOMAIN groups[d]
          /\ groups[d][GroupOf(d, c)] = Mask(derived, Column(d), c)
        BY <2>1, Zenon DEF GroupOf
    <2> QED
        BY <1>7, <2>2
<1>10. \A k \in 1 .. Len(groups[d]) : \E c \in derived[program.method[d]] :
          groups[d][k] = Mask(derived, Column(d), c)
    BY <1>2, <1>7
<1> QED
    BY <1>7, <1>8, <1>9, <1>10

\* The cell of some arguments is that of the overriders applicable to them, and
\* every cell is one of some arguments.
LEMMA CallsHaveCells ==
    ASSUME ProgramInv, LayoutInv
    PROVE  /\ \A args \in Calls : \E v \in Cells :
                 /\ CellOf(args) = CellNumber(strides, v)
                 /\ CandidatesAt(v) = ApplicableTo(args)
           /\ \A v \in Cells : \E args \in Calls : CandidatesAt(v) = ApplicableTo(args)
<1>1. \A d \in Dim : Sizes[d] = Len(groups[d]) /\ Dim = 1 .. Arity
    BY DEF Sizes, Dim
<1>2. \A d \in Dim, c \in Class :
          Mask(derived, Column(d), c) = { i \in Overrider : c \in derived[overriders[i][d]] }
    BY DEF Mask, Column
<1>3. ASSUME NEW args \in Calls
      PROVE  \E v \in Cells : /\ CellOf(args) = CellNumber(strides, v)
                              /\ CandidatesAt(v) = ApplicableTo(args)
    <2> DEFINE v == [d \in Dim |-> GroupOf(d, args[d])]
    <2>1. \A d \in Dim : args[d] \in derived[program.method[d]] /\ args[d] \in Class
        BY DEF Calls
    <2>2. \A d \in Dim : /\ v[d] \in 1 .. Len(groups[d]) /\ Len(groups[d]) \in Nat
                         /\ groups[d][v[d]] = Mask(derived, Column(d), args[d])
        BY <2>1, GroupFacts
    <2>3. v \in Cells
        <3>1. \A d \in Dim : v[d] \in Nat \ {0} /\ v[d] <= Sizes[d]
            BY <1>1, <2>2
        <3>2. v \in [1 .. Arity -> Nat \ {0}]
            BY <3>1 DEF Dim
        <3> HIDE DEF v
        <3> QED
            BY <3>1, <3>2 DEF Cells, Places, Dim
    <2>4. CellOf(args) = CellNumber(strides, v)
        BY DEF CellOf
    <2>5. CandidatesAt(v) = ApplicableTo(args)
        <3> HIDE DEF v
        <3> QED
            BY <1>2, <2>1, <2>2 DEF CandidatesAt, ApplicableTo
    <2> QED
        BY <2>3, <2>4, <2>5
<1>4. ASSUME NEW v \in Cells
      PROVE  \E args \in Calls : CandidatesAt(v) = ApplicableTo(args)
    <2>1. \A d \in Dim : v[d] \in 1 .. Len(groups[d])
        <3> TAKE d \in Dim
        <3>1. v[d] \in Nat \ {0} /\ v[d] <= Sizes[d]
            BY <1>1 DEF Cells, Places
        <3>2. Len(groups[d]) \in Nat
            BY GroupFacts
        <3> QED
            BY <1>1, <3>1, <3>2
    <2>2. \A d \in Dim : \E c \in derived[program.method[d]] :
              groups[d][v[d]] = Mask(derived, Column(d), c)
        BY <2>1, GroupFacts
    <2> DEFINE args == [d \in Dim |-> CHOOSE c \in derived[program.method[d]] :
                           groups[d][v[d]] = Mask(derived, Column(d), c)]
    <2>3. \A d \in Dim : /\ args[d] \in derived[program.method[d]]
                         /\ groups[d][v[d]] = Mask(derived, Column(d), args[d])
        BY <2>2
    <2>4. \A d \in Dim : args[d] \in Class
        BY <2>3, ProgramFacts, DerivedInPrograms
    <2>5. args \in Calls
        BY <2>3, <2>4 DEF Calls
    <2>6. CandidatesAt(v) = ApplicableTo(args)
        <3> HIDE DEF args
        <3> QED
            BY <1>2, <2>3, <2>4 DEF CandidatesAt, ApplicableTo
    <2> QED
        BY <2>5, <2>6
<1> QED
    BY <1>3, <1>4

\* The cells are numbered from one on, in the order of the loops.
LEMMA CellFacts ==
    ASSUME ProgramInv, LayoutInv
    PROVE  /\ AllCells \in Nat
           /\ \A c \in Cells : CellNumber(strides, c) \in 1 .. AllCells
           /\ \A c, e \in Cells :
                 CellNumber(strides, c) = CellNumber(strides, e) => c = e
           /\ \A c \in Cells :
                 (\A d \in Dim : c[d] = Len(groups[d])) =>
                     CellNumber(strides, c) = AllCells
           /\ \A c \in Cells : \A e : IsNextPlace(c, e, Sizes, Arity) =>
                 e \in Cells /\ CellNumber(strides, e) = CellNumber(strides, c) + 1
           /\ [d \in Dim |-> 1] \in Cells /\ CellNumber(strides, [d \in Dim |-> 1]) = 1
<1> DEFINE n == Arity
<1>1. n \in Nat /\ Dim = 1 .. n
    BY SizesAssumption DEF Dim
<1>2. Sizes \in [1 .. n -> Nat \ {0}] /\ Sizes \in [1 .. n -> Nat]
    BY <1>1, GroupFacts DEF Sizes
<1>3. PICK P : /\ IsProducts(P, Sizes, n)
               /\ \A d \in 1 .. (n + 1) : Stride(Sizes, d) = P[d - 1]
    BY <1>1, <1>2, StridesAreProducts
<1>4. AllCells = P[n] /\ P[n] \in Nat
    <2>1. AllCells = Stride(Sizes, n + 1)
        BY DEF AllCells, Sizes
    <2>2. n + 1 \in 1 .. (n + 1) /\ (n + 1) - 1 = n /\ n \in 0 .. n
        BY <1>1
    <2> QED
        BY <1>3, <2>1, <2>2 DEF IsProducts
<1>5. IsLayout(P, strides, Sizes, n)
    <2>1. \A d \in 1 .. n : strides[d] = P[d - 1] /\ P[d - 1] \in Nat
        <3> TAKE d \in 1 .. n
        <3>1. d \in 1 .. (n + 1) /\ d - 1 \in 0 .. n
            BY <1>1
        <3> QED
            BY <1>1, <1>3, <3>1 DEF LayoutInv, IsProducts
    <2>2. strides \in [1 .. n -> Nat]
        BY <1>1, <2>1 DEF LayoutInv
    <2>3. \A k \in 0 .. (n - 1) : strides[k + 1] = P[k]
        <3> TAKE k \in 0 .. (n - 1)
        <3>1. k + 1 \in 1 .. n /\ (k + 1) - 1 = k
            BY <1>1
        <3> QED
            BY <2>1, <3>1
    <2> QED
        BY <1>2, <1>3, <2>2, <2>3 DEF IsLayout
<1> HIDE DEF n
<1>6. ASSUME NEW c \in Places(Sizes, n)
      PROVE  \E b : IsCount(b, strides, c, n) /\ CellNumber(strides, c) = b[n]
    <2>1. c \in [1 .. n -> Nat \ {0}] /\ strides \in [1 .. n -> Nat]
        BY <1>5 DEF Places, IsLayout
    <2> QED
        BY <1>1, <2>1, FoldOfCount
<1>7. Cells = Places(Sizes, n)
    BY DEF Cells, n
<1>8. n \in 0 .. n
    BY <1>1
<1>9. ASSUME NEW c \in Cells
      PROVE  /\ CellNumber(strides, c) \in 1 .. AllCells
             /\ (\A d \in Dim : c[d] = Len(groups[d])) => CellNumber(strides, c) = AllCells
             /\ (\A d \in Dim : c[d] = 1) => CellNumber(strides, c) = 1
    <2>1. PICK b : IsCount(b, strides, c, n) /\ CellNumber(strides, c) = b[n]
        BY <1>6, <1>7
    <2>2. b[n] \in 1 .. P[n]
        BY <1>1, <1>5, <1>7, <1>8, <2>1, CountIsBounded
    <2>3. ASSUME \A d \in Dim : c[d] = Len(groups[d])
          PROVE  b[n] = P[n]
        <3>1. \A d \in 1 .. n : c[d] = Sizes[d]
            BY <1>1, <2>3 DEF Sizes
        <3> QED
            BY <1>1, <1>5, <1>7, <1>8, <2>1, <3>1, CountOfTheLast
    <2>4. ASSUME \A d \in Dim : c[d] = 1
          PROVE  b[n] = 1
        BY <1>1, <1>5, <1>7, <1>8, <2>1, <2>4, CountOfTheFirst
    <2> QED
        BY <1>4, <2>1, <2>2, <2>3, <2>4
<1>10. ASSUME NEW c \in Cells, NEW e \in Cells,
              CellNumber(strides, c) = CellNumber(strides, e)
       PROVE  c = e
    <2>1. PICK b : IsCount(b, strides, c, n) /\ CellNumber(strides, c) = b[n]
        BY <1>6, <1>7
    <2>2. PICK a : IsCount(a, strides, e, n) /\ CellNumber(strides, e) = a[n]
        BY <1>6, <1>7
    <2>3. a[n] = b[n] /\ c \in Places(Sizes, n) /\ e \in Places(Sizes, n)
        BY <1>7, <1>10, <2>1, <2>2
    <2> QED
        BY <1>1, <1>5, <2>1, <2>2, <2>3, CountIsUnique
<1>11. ASSUME NEW c \in Cells, NEW e, IsNextPlace(c, e, Sizes, n)
       PROVE  e \in Cells /\ CellNumber(strides, e) = CellNumber(strides, c) + 1
    <2>1. PICK b : IsCount(b, strides, c, n) /\ CellNumber(strides, c) = b[n]
        BY <1>6, <1>7
    <2>2. c \in Places(Sizes, n)
        BY <1>7
    <2>3. e \in Places(Sizes, n)
        BY <1>1, <1>2, <1>11, <2>2, NextPlaceIsAPlace
    <2>4. PICK a : IsCount(a, strides, e, n) /\ CellNumber(strides, e) = a[n]
        BY <1>6, <2>3
    <2>5. a[n] = b[n] + 1
        BY <1>1, <1>5, <1>11, <2>1, <2>2, <2>4, CountGoesOn
    <2> QED
        BY <1>7, <2>1, <2>3, <2>4, <2>5
<1>12. [d \in Dim |-> 1] \in Cells
    BY <1>1, <1>2, <1>7 DEF Places
<1>13. CellNumber(strides, [d \in Dim |-> 1]) = 1
    BY <1>9, <1>12
<1> QED
    BY <1>4, <1>9, <1>10, <1>11, <1>12, <1>13 DEF n

-----------------------------------------------------------------------------
(* The invariant *)

Filled(v) == CellNumber(strides, v) <= Len(table)
Content(v) == table[CellNumber(strides, v)]

\* Before the loops nothing is filled.
StartInv ==
    stage \in {"check", "group"} =>
        /\ at = [d \in Dim |-> 1] /\ table = <<>>
        /\ report.notImplemented = 0 /\ report.ambiguous = 0

\* The cells before the one at hand are filled, in the end all are.
FillInv ==
    stage \in {"fill", "done"} =>
        /\ LayoutInv
        /\ stage = "fill" => at \in Cells /\ CellNumber(strides, at) = Len(table) + 1
        /\ stage = "done" => Len(table) = AllCells

\* What is filled is right, and `next' for what it is filled with.
ContentInv ==
    stage \in {"fill", "done"} =>
        \A v \in Cells : \A C \in SUBSET Overrider : \A t \in Target :
            Filled(v) /\ CandidatesAt(v) = C /\ Content(v) = t =>
                /\ IsRight(C, t)
                /\ SingleInheritance /\ ~ program.n2216 =>
                      /\ t = Documented(C)
                      /\ t \in Overrider => next[t] = Documented(Others(t))
                /\ program.n2216 /\ report.ambiguous = 0 => IsClear(C, t)

\* The report is about what is filled.
ReportInv ==
    stage \in {"fill", "done"} =>
        /\ report.notImplemented > 0
             <=> \E v \in Cells : Filled(v) /\ CandidatesAt(v) = {}
        /\ ~ program.n2216 =>
              (report.ambiguous > 0
                 <=> \E v \in Cells : Filled(v) /\ Content(v) = Ambiguous)

Inv ==
    /\ TypeOK
    /\ ProgramInv
    /\ StartInv
    /\ FillInv
    /\ ContentInv
    /\ ReportInv

\* What is said of a set of candidates depends on the program alone.
LEMMA RightStays ==
    ASSUME program' = program, derived' = derived, NEW C, NEW t
    PROVE  /\ IsRight(C, t)' <=> IsRight(C, t)
           /\ IsClear(C, t)' <=> IsClear(C, t)
           /\ Documented(C)' = Documented(C)
           /\ Others(t)' = Others(t)
           /\ SingleInheritance' <=> SingleInheritance
<1>1. Undominated(C)' = Undominated(C)
    BY DEF Undominated, Dominates, overriders
<1>2. IsRight(C, t)' <=> IsRight(C, t)
    BY <1>1 DEF IsRight, IsProperlyDerived
<1>3. IsClear(C, t)' <=> IsClear(C, t)
    BY <1>1 DEF IsClear
<1>4. Documented(C)' = Documented(C)
    BY <1>1 DEF Documented
<1>5. Others(t)' = Others(t)
    BY DEF Others, overriders
<1>6. SingleInheritance' <=> SingleInheritance
    BY DEF SingleInheritance
<1> QED
    BY <1>2, <1>3, <1>4, <1>5, <1>6

\* The product of the sizes is a number.
LEMMA AllCellsAreANumber ==
    ASSUME NEW sizes \in [Dim -> Nat]
    PROVE  Stride(sizes, Arity + 1) \in Nat
<1>1. Arity \in Nat /\ Dim = 1 .. Arity
    BY SizesAssumption DEF Dim
<1>2. PICK P : /\ IsProducts(P, sizes, Arity)
               /\ \A d \in 1 .. (Arity + 1) : Stride(sizes, d) = P[d - 1]
    BY <1>1, StridesAreProducts
<1>3. Arity + 1 \in 1 .. (Arity + 1) /\ (Arity + 1) - 1 = Arity /\ Arity \in 0 .. Arity
    BY <1>1
<1>4. Stride(sizes, Arity + 1) = P[Arity]
    BY <1>2, <1>3
<1> QED
    BY <1>2, <1>3, <1>4 DEF IsProducts

\* Before the compiler starts.
LEMMA InitInv ==
    ASSUME Init
    PROVE  Inv
<1>1. ProgramInv
    BY DEF Init, ProgramInv
<1>2. TypeOK
    <2>1. derived \in [Class -> SUBSET Class]
        BY DEF Init, DerivedOf
    <2>2. /\ groups \in [Dim -> Seq(SUBSET Overrider)] /\ strides \in [Dim -> Nat]
          /\ at \in [Dim -> Nat] /\ \A d \in Dim : Len(groups[d]) = 0
        BY DEF Init
    <2>3. AllCells \in Nat
        <3>1. [d \in Dim |-> Len(groups[d])] \in [Dim -> Nat]
            BY <2>2
        <3> QED
            BY <3>1, AllCellsAreANumber DEF AllCells
    <2>4. table \in Seq(Target) /\ Len(table) = 0
        BY DEF Init
    <2>5. next \in [Overrider -> Target \cup {Null}]
        BY DEF Init
    <2>6. report \in [cells : Nat, notImplemented : Nat, ambiguous : Nat]
        BY DEF Init
    <2>7. Len(table) <= AllCells
        BY <2>3, <2>4
    <2>8. program \in Programs /\ stage = "check"
        BY DEF Init
    <2> QED
        BY <2>1, <2>2, <2>4, <2>5, <2>6, <2>7, <2>8 DEF TypeOK
<1>3. StartInv
    BY DEF Init, StartInv
<1>4. stage = "check"
    BY DEF Init
<1> QED
    BY <1>1, <1>2, <1>3, <1>4 DEF Inv, FillInv, ContentInv, ReportInv

\* The check of the overriders changes nothing but the stage.
LEMMA CheckOverridersInv ==
    ASSUME Inv, CheckOverriders
    PROVE  Inv'
<1> USE DEF Inv
<1>1. /\ stage = "check" /\ stage' \in {"group", "missing_base"}
      /\ UNCHANGED <<program, derived, groups, strides, at, table, next, report>>
    BY DEF CheckOverriders
<1>2. TypeOK'
    <2>1. AllCells' = AllCells
        BY <1>1 DEF AllCells
    <2> QED
        BY <1>1, <2>1 DEF TypeOK
<1>3. ProgramInv' /\ StartInv'
    BY <1>1 DEF ProgramInv, StartInv
<1> QED
    BY <1>1, <1>2, <1>3 DEF FillInv, ContentInv, ReportInv

\* In a program's first cell.
LEMMA FirstCell ==
    ProgramInv /\ LayoutInv =>
        /\ AllCells \in Nat
        /\ \A c \in Cells : CellNumber(strides, c) \in 1 .. AllCells
        /\ [d \in Dim |-> 1] \in Cells /\ CellNumber(strides, [d \in Dim |-> 1]) = 1
BY CellFacts

LEMMA GroupsAreTyped ==
    ProgramInv /\ LayoutInv => \A d \in Dim : groups[d] \in Seq(SUBSET Overrider)
BY GroupFacts

LEMMA StridesAreTyped ==
    ProgramInv /\ LayoutInv => strides \in [Dim -> Nat]
<1> SUFFICES ASSUME ProgramInv, LayoutInv PROVE strides \in [Dim -> Nat]
    OBVIOUS
<1>1. Arity \in Nat /\ Dim = 1 .. Arity
    BY SizesAssumption DEF Dim
<1>2. Sizes \in [1 .. Arity -> Nat]
    BY <1>1, GroupFacts DEF Sizes
<1>3. PICK P : /\ IsProducts(P, Sizes, Arity)
               /\ \A d \in 1 .. (Arity + 1) : Stride(Sizes, d) = P[d - 1]
    BY <1>1, <1>2, StridesAreProducts
<1>4. \A d \in Dim : Stride(Sizes, d) \in Nat
    <2> TAKE d \in Dim
    <2>1. d \in 1 .. (Arity + 1) /\ d - 1 \in 0 .. Arity
        BY <1>1
    <2> QED
        BY <1>3, <2>1 DEF IsProducts
<1> QED
    BY <1>4 DEF LayoutInv

\* When the groups and strides are there, the loops are at the first cell.
LEMMA BuildGroupsInv ==
    ASSUME Inv, BuildGroups
    PROVE  Inv'
<1> USE DEF Inv
<1>1. /\ stage = "group" /\ stage' = "fill"
      /\ groups' = [d \in Dim |-> GroupsIn(d)]
      /\ UNCHANGED <<program, derived, at, table, next, report>>
    BY DEF BuildGroups
<1>2. ProgramInv'
    BY <1>1 DEF ProgramInv
<1>3. \A d \in Dim : IsGrouping(groups'[d], Masks(derived, program.method[d], Column(d)))
    <2> TAKE d \in Dim
    <2>1. DOMAIN Column(d) = 1 .. NumOverriders /\ NumOverriders \in Nat
        BY NumbersOfOverriders DEF Column, Overrider
    <2>2. groups'[d] = GroupsOf(derived, program.method[d], Column(d))
        BY <1>1 DEF GroupsIn
    <2> QED
        BY <2>1, <2>2, GroupsAreMasks
<1>4. LayoutInv'
    <2>1. ASSUME NEW d \in Dim
          PROVE  Column(d)' = Column(d)
        BY <1>1 DEF Column, overriders
    <2>2. ASSUME NEW d \in Dim
          PROVE  IsGrouping(groups[d], Masks(derived, program.method[d], Column(d)))'
        BY <1>1, <1>3, <2>1
    <2>3. strides' = [d \in Dim |-> Stride(Sizes, d)]'
        <3>1. [d \in Dim |-> Len(GroupsIn(d))] = Sizes'
            BY <1>1 DEF Sizes
        <3> QED
            BY <3>1 DEF BuildGroups
    <2> QED
        BY <2>2, <2>3 DEF LayoutInv
<1>5. /\ AllCells' \in Nat
      /\ \A c \in Cells' : CellNumber(strides', c) \in 1 .. AllCells'
      /\ [d \in Dim |-> 1] \in Cells' /\ CellNumber(strides', [d \in Dim |-> 1]) = 1
    <2>1. (ProgramInv /\ LayoutInv =>
            /\ AllCells \in Nat
            /\ \A c \in Cells : CellNumber(strides, c) \in 1 .. AllCells
            /\ [d \in Dim |-> 1] \in Cells /\ CellNumber(strides, [d \in Dim |-> 1]) = 1)'
        BY FirstCell, PTL
    <2> QED
        BY <1>2, <1>4, <2>1
<1>6. /\ at' = [d \in Dim |-> 1] /\ table' = <<>> /\ Len(table') = 0
      /\ report'.notImplemented = 0 /\ report'.ambiguous = 0
    BY <1>1 DEF StartInv
<1>7. \A v \in Cells' : ~ Filled(v)'
    BY <1>5, <1>6 DEF Filled
<1>8. TypeOK'
    <2>1. \A d \in Dim : groups'[d] \in Seq(SUBSET Overrider)
        <3>1. (ProgramInv /\ LayoutInv =>
                  \A d \in Dim : groups[d] \in Seq(SUBSET Overrider))'
            BY GroupsAreTyped, PTL
        <3> QED
            BY <1>2, <1>4, <3>1
    <2>2. groups' \in [Dim -> Seq(SUBSET Overrider)]
        BY <1>1, <2>1
    <2>3. strides' \in [Dim -> Nat]
        <3>1. (ProgramInv /\ LayoutInv => strides \in [Dim -> Nat])'
            BY StridesAreTyped, PTL
        <3> QED
            BY <1>2, <1>4, <3>1
    <2>4. Len(table') <= AllCells'
        BY <1>5, <1>6
    <2> QED
        BY <1>1, <2>2, <2>3, <2>4 DEF TypeOK
<1>9. StartInv' /\ FillInv'
    BY <1>1, <1>4, <1>5, <1>6 DEF StartInv, FillInv
<1>10. ContentInv' /\ ReportInv'
    <2>1. ContentInv'
        BY <1>7 DEF ContentInv
    <2>2. ReportInv'
        BY <1>6, <1>7 DEF ReportInv
    <2> QED
        BY <2>1, <2>2
<1> QED
    BY <1>2, <1>8, <1>9, <1>10

\* The loops go to the next cell.
LEMMA AdvanceGoesOn ==
    ASSUME ProgramInv, LayoutInv, at \in Cells, stage = "fill", Advance
    PROVE  \/ /\ stage' = "done" /\ at' = at
              /\ CellNumber(strides, at) = AllCells
           \/ /\ stage' = "fill" /\ at' \in Cells
              /\ CellNumber(strides, at') = CellNumber(strides, at) + 1
<1>1. Arity \in Nat /\ Dim = 1 .. Arity /\ \A d \in Dim : Sizes[d] = Len(groups[d])
    BY SizesAssumption DEF Dim, Sizes
<1>2. \A d \in Dim : /\ at[d] \in Nat \ {0} /\ at[d] <= Len(groups[d])
                     /\ Len(groups[d]) \in Nat
    <2> TAKE d \in Dim
    <2>1. at[d] \in Nat \ {0} /\ at[d] <= Sizes[d]
        BY <1>1 DEF Cells, Places
    <2> QED
        BY <1>1, <2>1, GroupFacts
<1>3. CASE LastCell
    <2>1. stage' = "done" /\ at' = at
        BY <1>3 DEF Advance
    <2>2. \A d \in Dim : at[d] = Len(groups[d])
        BY <1>3 DEF LastCell
    <2> QED
        BY <2>1, <2>2, CellFacts
<1>4. CASE ~ LastCell
    <2> DEFINE s == { e \in Dim : at[e] < Len(groups[e]) }
               d == Min(s)
    <2>1. s # {} /\ s \subseteq Nat
        BY <1>1, <1>2, <1>4 DEF LastCell
    <2>2. d \in s /\ \A e \in s : d <= e
        <3> HIDE DEF s
        <3>1. \E x \in s : \A y \in s : x <= y
            BY <2>1, LeastMember
        <3> QED
            BY <3>1 DEF Min
    <2>3. /\ stage' = "fill"
          /\ at' = [e \in Dim |-> IF e < d THEN 1 ELSE IF e = d THEN at[e] + 1 ELSE at[e]]
        BY <1>4 DEF Advance
    <2> HIDE DEF d
    <2>4. d \in 1 .. Arity /\ at[d] < Sizes[d]
        BY <1>1, <2>2
    <2>5. \A j \in 1 .. (d - 1) : at[j] = Sizes[j]
        <3> TAKE j \in 1 .. (d - 1)
        <3>1. j \in Dim /\ ~ (d <= j)
            BY <1>1, <2>4
        <3>2. ~ (at[j] < Len(groups[j]))
            BY <2>2, <3>1
        <3> QED
            BY <1>1, <1>2, <3>1, <3>2
    <2>6. IsNextPlace(at, at', Sizes, Arity)
        BY <1>1, <2>3, <2>4, <2>5 DEF IsNextPlace
    <2> QED
        BY <2>3, <2>6, CellFacts
<1> QED
    BY <1>3, <1>4

\* A cell is filled with what is right for it, which disturbs no other cell.
LEMMA FillCellInv ==
    ASSUME Inv, FillCell
    PROVE  Inv'
<1> DEFINE A == Applicable
           selected == SelectDominant(A)
           target == Outcome(selected)
           rest == SelectDominant(Rest(selected))
           picked == target \in Overrider
<1>1. /\ TypeOK /\ ProgramInv /\ stage = "fill"
      /\ UNCHANGED <<program, derived, groups, strides>>
    BY DEF Inv, FillCell
<1>2. LayoutInv /\ at \in Cells /\ CellNumber(strides, at) = Len(table) + 1
    BY <1>1 DEF Inv, FillInv
<1>3. ProgramInv' /\ StartInv'
    <2>1. stage' \in {"crashed", "done", "fill"}
        <3>1. CASE selected.crashed \/ (picked /\ rest.crashed)
            BY <3>1 DEF FillCell
        <3>2. CASE ~ (selected.crashed \/ (picked /\ rest.crashed))
            <4>1. Advance
                BY <3>2 DEF FillCell
            <4> QED
                BY <1>1, <4>1 DEF Advance
        <3> QED
            BY <3>1, <3>2
    <2> QED
        BY <1>1, <2>1 DEF ProgramInv, StartInv
<1>4. CASE selected.crashed \/ (picked /\ rest.crashed)
    <2>1. stage' = "crashed" /\ UNCHANGED <<at, table, next, report>>
        BY <1>4 DEF FillCell
    <2>2. AllCells' = AllCells
        BY <1>1 DEF AllCells
    <2>3. TypeOK'
        BY <1>1, <2>1, <2>2 DEF TypeOK
    <2> QED
        BY <1>3, <2>1, <2>3 DEF Inv, FillInv, ContentInv, ReportInv
<1>5. CASE ~ (selected.crashed \/ (picked /\ rest.crashed))
    <2>1. /\ table' = Append(table, target)
          /\ next' = IF picked THEN [next EXCEPT ![target] = Outcome(rest)] ELSE next
          /\ report' = Counted(selected)
          /\ Advance
        BY <1>5 DEF FillCell
    <2>2. A \in SUBSET Overrider /\ A = CandidatesAt(at)
        BY DEF Applicable, CandidatesAt
    <2>3. Rest(selected) \in SUBSET Overrider /\ Rest(selected) = A \ selected.left
        BY <2>2 DEF Rest
    <2>4. /\ IsRight(A, target)
          /\ ~ program.n2216 => (target = Ambiguous <=> Cardinality(selected.left) > 1)
          /\ program.n2216 /\ ~ (Cardinality(selected.left) > 1) => IsClear(A, target)
        BY <1>1, <2>2, SelectionIsRight
    <2>5. target \in Target /\ Outcome(rest) \in Target
        BY <1>1, <2>3, <2>4, SelectionIsRight DEF IsRight
    <2>6. selected.left = {} <=> A = {}
        BY <2>2, LeftFacts
    <2>7. IsFiniteSet(selected.left) /\ Cardinality(selected.left) \in Nat
        BY <2>2, LeftFacts, FiniteCandidates
    <2>8. SingleInheritance /\ ~ program.n2216 =>
              /\ target = Documented(A)
              /\ picked => Outcome(rest) = Documented(Others(target))
        <3> SUFFICES ASSUME SingleInheritance, ~ program.n2216
                     PROVE  /\ target = Documented(A)
                            /\ picked => Outcome(rest) = Documented(Others(target))
            OBVIOUS
        <3>1. PICK args \in Calls : CandidatesAt(at) = ApplicableTo(args)
            BY <1>1, <1>2, CallsHaveCells
        <3>2. A = ApplicableTo(args)
            BY <2>2, <3>1
        <3>3. target = Documented(A)
            BY <1>1, <3>2, OutcomeIsDocumented
        <3>4. ASSUME picked
              PROVE  Outcome(rest) = Documented(Others(target))
            <4>1. Rest(selected) = Others(target)
                BY <1>1, <2>3, <3>2, <3>4, RestIsOthers
            <4>2. Rest(selected) \in SUBSET ApplicableTo(args)
                BY <2>3, <3>2
            <4>3. Outcome(rest) = Documented(Rest(selected))
                BY <1>1, <4>2, OutcomeIsDocumented
            <4> QED
                BY <4>1, <4>3
        <3> QED
            BY <3>3, <3>4
    <2> HIDE DEF A, selected, target, rest
    <2>9. /\ table \in Seq(Target) /\ Len(table) \in Nat
          /\ table' \in Seq(Target) /\ Len(table') = Len(table) + 1
          /\ table'[Len(table) + 1] = target
          /\ \A k \in 1 .. Len(table) : table'[k] = table[k]
        BY <1>1, <2>1, <2>5 DEF TypeOK
    <2>10. /\ AllCells \in Nat
           /\ \A c \in Cells : CellNumber(strides, c) \in 1 .. AllCells
           /\ \A c, e \in Cells : CellNumber(strides, c) = CellNumber(strides, e) => c = e
        BY <1>1, <1>2, CellFacts
    <2>11. /\ Cells' = Cells /\ AllCells' = AllCells
           /\ \A v : CandidatesAt(v)' = CandidatesAt(v)
        BY <1>1 DEF Cells, Sizes, AllCells, CandidatesAt
    <2>12. ASSUME NEW v \in Cells
           PROVE  /\ Filled(v)' <=> Filled(v) \/ v = at
                  /\ Filled(v) => Content(v)' = Content(v) /\ Content(v) \in Target
                  /\ v = at => Content(v)' = target
        <3>1. CellNumber(strides, v) \in Nat \ {0} /\ strides' = strides
            BY <1>1, <2>10
        <3>2. Filled(v)' <=> CellNumber(strides, v) <= Len(table) + 1
            BY <2>9, <3>1 DEF Filled
        <3>3. CellNumber(strides, v) = Len(table) + 1 => v = at
            BY <1>2, <2>10
        <3>4. Filled(v)' <=> Filled(v) \/ v = at
            BY <1>2, <2>9, <3>1, <3>2, <3>3 DEF Filled
        <3>5. ASSUME Filled(v)
              PROVE  Content(v)' = Content(v) /\ Content(v) \in Target
            <4>1. CellNumber(strides, v) \in 1 .. Len(table)
                BY <2>9, <3>1, <3>5 DEF Filled
            <4>2. table'[CellNumber(strides, v)] = table[CellNumber(strides, v)]
                  /\ table[CellNumber(strides, v)] \in Target
                BY <2>9, <4>1
            <4> QED
                BY <3>1, <4>2 DEF Content
        <3>6. v = at => Content(v)' = target
            BY <1>1, <1>2, <2>9 DEF Content
        <3> QED
            BY <3>4, <3>5, <3>6
    <2>13. \/ /\ stage' = "done" /\ at' = at
              /\ Len(table') = AllCells
           \/ /\ stage' = "fill" /\ at' \in Cells
              /\ CellNumber(strides, at') = Len(table') + 1
        BY <1>1, <1>2, <2>1, <2>9, AdvanceGoesOn
    <2>14. TypeOK'
        <3>1. Len(table') <= AllCells'
            BY <1>2, <2>9, <2>10, <2>11
        <3>2. at' \in [Dim -> Nat]
            <4>1. at' \in Cells
                BY <1>2, <2>13
            <4> QED
                BY <4>1 DEF Cells, Places, Dim
        <3>3. next' \in [Overrider -> Target \cup {Null}]
            BY <1>1, <2>1, <2>5 DEF TypeOK
        <3>4. report' \in [cells : Nat, notImplemented : Nat, ambiguous : Nat]
            BY <1>1, <2>1, <2>10 DEF TypeOK, Counted
        <3>5. stage' \in {"done", "fill"}
            BY <2>13
        <3> QED
            BY <1>1, <2>9, <3>1, <3>2, <3>3, <3>4, <3>5 DEF TypeOK
    <2>15. FillInv'
        <3>1. LayoutInv'
            BY <1>1, <1>2 DEF LayoutInv, Sizes, Column, overriders
        <3> QED
            BY <1>1, <2>11, <2>13, <3>1 DEF FillInv
    <2>16. report.ambiguous \in Nat /\ report.notImplemented \in Nat
        BY <1>1 DEF TypeOK
    <2>17. report'.ambiguous = report.ambiguous
                                  + (IF Cardinality(selected.left) > 1 THEN 1 ELSE 0)
           /\ report'.notImplemented = report.notImplemented
                                  + (IF selected.left = {} THEN 1 ELSE 0)
        BY <2>1 DEF Counted
    <2>18. ASSUME NEW v \in Cells, NEW C \in SUBSET Overrider, NEW t \in Target,
                  Filled(v)', CandidatesAt(v) = C, Content(v)' = t
           PROVE  /\ IsRight(C, t)
                  /\ SingleInheritance /\ ~ program.n2216 =>
                        /\ t = Documented(C)
                        /\ t \in Overrider => next'[t] = Documented(Others(t))
                  /\ program.n2216 /\ report'.ambiguous = 0 => IsClear(C, t)
        <3>1. CASE v = at
            <4>1. C = A /\ t = target
                BY <2>2, <2>12, <2>18, <3>1
            <4>2. SingleInheritance /\ ~ program.n2216 /\ t \in Overrider =>
                      next'[t] = Documented(Others(t))
                <5>1. target \in Overrider => next'[target] = Outcome(rest)
                    BY <1>1, <2>1 DEF TypeOK
                <5> QED
                    BY <2>8, <4>1, <5>1
            <4>3. report'.ambiguous = 0 => ~ (Cardinality(selected.left) > 1)
                BY <2>16, <2>17
            <4> QED
                BY <2>4, <2>8, <4>1, <4>2, <4>3
        <3>2. CASE v # at
            <4>1. Filled(v) /\ Content(v) = t
                BY <2>12, <2>18, <3>2
            <4>2. /\ IsRight(C, t)
                  /\ SingleInheritance /\ ~ program.n2216 =>
                        /\ t = Documented(C)
                        /\ t \in Overrider => next[t] = Documented(Others(t))
                  /\ program.n2216 /\ report.ambiguous = 0 => IsClear(C, t)
                BY <1>1, <2>18, <4>1 DEF Inv, ContentInv
            <4>3. SingleInheritance /\ ~ program.n2216 /\ t \in Overrider =>
                      next'[t] = Documented(Others(t))
                <5> SUFFICES ASSUME SingleInheritance, ~ program.n2216, t \in Overrider
                             PROVE  next'[t] = Documented(Others(t))
                    OBVIOUS
                <5>1. CASE t = target
                    BY <1>1, <2>1, <2>8, <5>1 DEF TypeOK
                <5>2. CASE t # target
                    <6>1. next'[t] = next[t]
                        BY <1>1, <2>1, <5>2 DEF TypeOK
                    <6> QED
                        BY <4>2, <6>1
                <5> QED
                    BY <5>1, <5>2
            <4>4. report'.ambiguous = 0 => report.ambiguous = 0
                BY <2>16, <2>17
            <4> QED
                BY <4>2, <4>3, <4>4
        <3> QED
            BY <3>1, <3>2
    <2>19. ContentInv'
        <3>1. ASSUME NEW v \in Cells, NEW C \in SUBSET Overrider, NEW t \in Target,
                     Filled(v)', CandidatesAt(v) = C, Content(v)' = t
              PROVE  (/\ IsRight(C, t)
                      /\ SingleInheritance /\ ~ program.n2216 =>
                            /\ t = Documented(C)
                            /\ t \in Overrider => next[t] = Documented(Others(t))
                      /\ program.n2216 /\ report.ambiguous = 0 => IsClear(C, t))'
            BY <1>1, <2>18, <3>1, RightStays
        <3> QED
            BY <2>11, <3>1 DEF ContentInv
    <2>20. ReportInv'
        <3>1. report'.notImplemented > 0
                <=> \E v \in Cells : Filled(v)' /\ CandidatesAt(v) = {}
            <4>1. report'.notImplemented > 0 <=> report.notImplemented > 0 \/ A = {}
                BY <2>6, <2>16, <2>17
            <4>2. report.notImplemented > 0
                    <=> \E v \in Cells : Filled(v) /\ CandidatesAt(v) = {}
                BY <1>1 DEF Inv, ReportInv
            <4> QED
                BY <1>2, <2>2, <2>12, <4>1, <4>2
        <3>2. ~ program.n2216 =>
                (report'.ambiguous > 0
                   <=> \E v \in Cells : Filled(v)' /\ Content(v)' = Ambiguous)
            <4> SUFFICES ASSUME ~ program.n2216
                         PROVE  report'.ambiguous > 0
                           <=> \E v \in Cells : Filled(v)' /\ Content(v)' = Ambiguous
                OBVIOUS
            <4>1. report'.ambiguous > 0 <=> report.ambiguous > 0 \/ target = Ambiguous
                BY <2>4, <2>16, <2>17
            <4>2. report.ambiguous > 0
                    <=> \E v \in Cells : Filled(v) /\ Content(v) = Ambiguous
                BY <1>1 DEF Inv, ReportInv
            <4> QED
                BY <1>2, <2>12, <4>1, <4>2
        <3> QED
            BY <1>1, <2>11, <3>1, <3>2 DEF ReportInv
    <2> QED
        BY <1>3, <2>14, <2>15, <2>19, <2>20 DEF Inv
<1> QED
    BY <1>4, <1>5

\* The steps together.
LEMMA NextInv ==
    ASSUME Inv, [Next]_vars
    PROVE  Inv'
<1>1. CASE CheckOverriders
    BY <1>1, CheckOverridersInv
<1>2. CASE BuildGroups
    BY <1>2, BuildGroupsInv
<1>3. CASE FillCell
    BY <1>3, FillCellInv
<1>4. CASE Finished \/ UNCHANGED vars
    <2>1. UNCHANGED <<program, derived, stage, groups, strides, at, table, next, report>>
        BY <1>4 DEF Finished, vars
    <2>2. AllCells' = AllCells /\ Cells' = Cells
        BY <2>1 DEF AllCells, Cells, Sizes
    <2>3. TypeOK'
        BY <2>1, <2>2 DEF Inv, TypeOK
    <2>4. ProgramInv' /\ StartInv'
        BY <2>1 DEF Inv, ProgramInv, StartInv
    <2>5. FillInv'
        <3>1. LayoutInv' <=> LayoutInv
            BY <2>1 DEF LayoutInv, Sizes, Column, overriders
        <3> QED
            BY <2>1, <2>2, <3>1 DEF Inv, FillInv
    <2>6. ASSUME NEW v
          PROVE  /\ Filled(v)' <=> Filled(v)
                 /\ Content(v)' = Content(v)
                 /\ CandidatesAt(v)' = CandidatesAt(v)
        BY <2>1 DEF Filled, Content, CandidatesAt
    <2>7. ContentInv'
        <3> SUFFICES ASSUME stage \in {"fill", "done"}
                     PROVE  ContentInv'
            BY <2>1 DEF ContentInv
        <3>1. ASSUME NEW v \in Cells, NEW C \in SUBSET Overrider, NEW t \in Target,
                     Filled(v), CandidatesAt(v) = C, Content(v) = t
              PROVE  (/\ IsRight(C, t)
                      /\ SingleInheritance /\ ~ program.n2216 =>
                            /\ t = Documented(C)
                            /\ t \in Overrider => next[t] = Documented(Others(t))
                      /\ program.n2216 /\ report.ambiguous = 0 => IsClear(C, t))'
            <4>1. /\ IsRight(C, t)
                  /\ SingleInheritance /\ ~ program.n2216 =>
                        /\ t = Documented(C)
                        /\ t \in Overrider => next[t] = Documented(Others(t))
                  /\ program.n2216 /\ report.ambiguous = 0 => IsClear(C, t)
                BY <3>1 DEF Inv, ContentInv
            <4> QED
                BY <2>1, <4>1, RightStays
        <3> QED
            BY <2>2, <2>6, <3>1 DEF ContentInv
    <2>8. ReportInv'
        BY <2>1, <2>2, <2>6 DEF Inv, ReportInv
    <2> QED
        BY <2>3, <2>4, <2>5, <2>7, <2>8 DEF Inv
<1> QED
    BY <1>1, <1>2, <1>3, <1>4 DEF Next

\* In the end a call finds what its cell was filled with.
LEMMA CallsAreRight ==
    ASSUME Inv, stage = "done", NEW args \in Calls
    PROVE  LET S == ApplicableTo(args)
               t == Called(args)
           IN  /\ IsRight(S, t)
               /\ SingleInheritance /\ ~ program.n2216 =>
                     /\ t = Documented(S)
                     /\ t \in Overrider => next[t] = Documented(S \ {t})
               /\ program.n2216 /\ report.ambiguous = 0 => IsClear(S, t)
<1> DEFINE S == ApplicableTo(args)
           t == Called(args)
<1>1. ProgramInv /\ LayoutInv /\ Len(table) = AllCells
    BY DEF Inv, FillInv
<1>2. PICK v \in Cells : CellOf(args) = CellNumber(strides, v) /\ CandidatesAt(v) = S
    BY <1>1, CallsHaveCells
<1>3. CellNumber(strides, v) \in 1 .. AllCells /\ AllCells \in Nat
    BY <1>1, CellFacts
<1>4. Filled(v) /\ Content(v) = t /\ t \in Target
    BY <1>1, <1>2, <1>3 DEF Filled, Content, Called, Inv, TypeOK
<1>5. S \in SUBSET Overrider
    BY DEF ApplicableTo
<1> HIDE DEF S, t
<1>6. /\ IsRight(S, t)
      /\ SingleInheritance /\ ~ program.n2216 =>
            /\ t = Documented(S)
            /\ t \in Overrider => next[t] = Documented(Others(t))
      /\ program.n2216 /\ report.ambiguous = 0 => IsClear(S, t)
    BY <1>2, <1>4, <1>5 DEF Inv, ContentInv
<1>7. SingleInheritance /\ ~ program.n2216 /\ t \in Overrider => Others(t) = S \ {t}
    <2> SUFFICES ASSUME SingleInheritance, ~ program.n2216, t \in Overrider
                 PROVE  Others(t) = S \ {t}
        OBVIOUS
    <2>1. t = Outcome(SelectDominant(S))
        BY <1>1, <1>6, OutcomeIsDocumented DEF S
    <2>2. SelectDominant(S).left = {t}
        BY <1>1, <1>5, <2>1, SelectionIsRight
    <2>3. S \ SelectDominant(S).left = Others(t)
        BY <1>1, <2>1, RestIsOthers DEF S
    <2> QED
        BY <2>2, <2>3
<1> QED
    BY <1>6, <1>7 DEF S, t

\* The table has all the cells when the loops end.
LEMMA InTheEndAllIsFilled ==
    ASSUME Inv, stage = "done", NEW v \in Cells
    PROVE  Filled(v)
<1>1. ProgramInv /\ LayoutInv /\ Len(table) = AllCells
    BY DEF Inv, FillInv
<1> QED
    BY <1>1, CellFacts DEF Filled

-----------------------------------------------------------------------------
(* The theorems *)

\* While the tables are built, the cells that precede the one at hand hold what
\* the selection should give, and their `next' and the report agree with them.
THEOREM TablesAreBuiltInOrder == Spec => []Inv
<1>1. Init => Inv
    BY InitInv
<1>2. Inv /\ [Next]_vars => Inv'
    BY NextInv
<1> QED
    BY <1>1, <1>2, PTL DEF Spec

\* build_dispatch_tables keeps its variables typed, and no method has more cells
\* than there are combinations of groups.
THEOREM TablesHaveTypes == Spec => []TypeOK
<1>1. Inv => TypeOK
    BY DEF Inv
<1> QED
    BY <1>1, TablesAreBuiltInOrder, PTL

\* For any lattice, any method and any overriders, a call finds an overrider that
\* can take its arguments if there is one, and unless n2216 broke a tie no other
\* that can is a better choice.
THEOREM NobodyIsOutranked == Spec => []NeverOutranked
<1>1. Inv => NeverOutranked
    BY CallsAreRight DEF NeverOutranked, IsRight
<1> QED
    BY <1>1, TablesAreBuiltInOrder, PTL

\* For any lattice, with n2216 no call is ambiguous, and the pick returns nothing
\* less specific than another of the best candidates.
THEOREM TiesAreBroken == Spec => []N2216Resolves
<1>1. Inv => N2216Resolves
    BY CallsAreRight DEF N2216Resolves, IsRight
<1> QED
    BY <1>1, TablesAreBuiltInOrder, PTL

\* With single inheritance, whatever the number of classes, of parameters and of
\* overriders, the table does what the documentation says.
THEOREM TablesAreDocumented == Spec => []DocumentedInTrees
<1>1. Inv => DocumentedInTrees
    BY CallsAreRight DEF DocumentedInTrees
<1> QED
    BY <1>1, TablesAreBuiltInOrder, PTL

\* With single inheritance, `next' is what a call would find without the overrider.
THEOREM NextIsTheRunnerUp == Spec => []NextInTrees
<1>1. Inv => NextInTrees
    BY CallsAreRight DEF NextInTrees
<1> QED
    BY <1>1, TablesAreBuiltInOrder, PTL

\* The report of initialize() tells of missing and ambiguous overriders, and of
\* arbitrary picks, exactly when there are.
THEOREM ReportTellsTheTruth == Spec => []ReportIsExact
<1>1. ASSUME Inv, stage = "done"
      PROVE  /\ report.notImplemented > 0 <=> \E args \in Calls : ApplicableTo(args) = {}
             /\ SingleInheritance /\ ~ program.n2216 =>
                   (report.ambiguous > 0
                     <=> \E args \in Calls : Documented(ApplicableTo(args)) = Ambiguous)
             /\ program.n2216 /\ report.ambiguous = 0 =>
                   \A args \in Calls : IsClear(ApplicableTo(args), Called(args))
    <2>1. ProgramInv /\ LayoutInv
        BY <1>1 DEF Inv, FillInv
    <2>2. /\ \A args \in Calls : \E v \in Cells :
                /\ CellOf(args) = CellNumber(strides, v)
                /\ CandidatesAt(v) = ApplicableTo(args)
          /\ \A v \in Cells : \E args \in Calls : CandidatesAt(v) = ApplicableTo(args)
        BY <2>1, CallsHaveCells
    <2>3. \A v \in Cells : Filled(v)
        BY <1>1, InTheEndAllIsFilled
    <2>4. report.notImplemented > 0 <=> \E v \in Cells : CandidatesAt(v) = {}
        BY <1>1, <2>3 DEF Inv, ReportInv
    <2>5. ASSUME SingleInheritance, ~ program.n2216
          PROVE  report.ambiguous > 0
                   <=> \E args \in Calls : Documented(ApplicableTo(args)) = Ambiguous
        <3>1. report.ambiguous > 0 <=> \E v \in Cells : Content(v) = Ambiguous
            BY <1>1, <2>3, <2>5 DEF Inv, ReportInv
        <3>2. \A v \in Cells : Content(v) = Documented(CandidatesAt(v))
            <4> TAKE v \in Cells
            <4>1. CandidatesAt(v) \in SUBSET Overrider
                BY DEF CandidatesAt
            <4>2. Content(v) \in Target
                <5>1. CellNumber(strides, v) \in 1 .. AllCells /\ AllCells \in Nat
                    BY <2>1, CellFacts
                <5>2. Len(table) = AllCells /\ table \in Seq(Target)
                    BY <1>1 DEF Inv, FillInv, TypeOK
                <5> QED
                    BY <5>1, <5>2 DEF Content
            <4> QED
                BY <1>1, <2>3, <2>5, <4>1, <4>2 DEF Inv, ContentInv
        <3> QED
            BY <2>2, <3>1, <3>2
    <2>6. program.n2216 /\ report.ambiguous = 0 =>
              \A args \in Calls : IsClear(ApplicableTo(args), Called(args))
        BY <1>1, CallsAreRight
    <2> QED
        BY <2>2, <2>4, <2>5, <2>6
<1>2. Inv => ReportIsExact
    BY <1>1 DEF ReportIsExact, IsClear
<1> QED
    BY <1>2, TablesAreBuiltInOrder, PTL
=============================================================================
